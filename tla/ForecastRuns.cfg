SPECIFICATION FairSpec
CONSTANTS
    Stations = {"a"}
    Pollutants = {"pm25", "pm10"}
    Runners = {"worker"}
    Horizon = 2
    MaxTime = 2
    MaxFaults = 1
INVARIANTS TypeOK NeverSilent ReportIsTrue
PROPERTIES EventuallyScored
