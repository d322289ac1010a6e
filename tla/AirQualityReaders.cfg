SPECIFICATION Spec
CONSTANTS
    MinStations = 2
    Stations = {s1, s2}
    Samples <- SamplesValue
    Cells = {c1, c2}
    ModeledSamples <- ModeledSamplesValue
    CheckWindows <- CheckWindowsValue
    FreshHours = 0
    RecentHours = 1
    ModeledHours = 0
    ModeledAhead = 0
    ForecastHours = 1
    MaxTime = 1
    MaxRows = 3
    Requests = {r1, r2}
    LastDay = 2
    Detections = {"f1"}
    DayRange = 2
    Loads = {"l1", "l2"}
    MaxLoads = 2
    MaxFaults = 1
    s1 = s1
    s2 = s2
    r1 = r1
    r2 = r2
    c1 = c1
    c2 = c2
SYMMETRY Symmetry
INVARIANTS TypeOK HeatmapIsHonest RulesAgree AdvisoryMatchesReadings FiresAreStored
CHECK_DEADLOCK FALSE
