SPECIFICATION FairSpec
CONSTANTS
    Sensors = {"s1"}
    Station <- StationValue
    Reading <- ReadingValue
    OtherKinds = {"malformed", "orphan"}
    MaxTopic = 2
    MaxBatch = 2
    MaxRuns = 3
    MaxFaults = 2
INVARIANTS TypeOK CommittedIsStored AnnouncedIsStored RegistryCoversRows RunsNeverOvercount
PROPERTIES AppliesOnce EventuallyStored
\* The stream stops when the bound on the topic is reached and all of it is read.
CHECK_DEADLOCK FALSE
