SPECIFICATION FairSpec
CONSTANTS
    Sensors = {"s1"}
    Troubled = {"s1"}
    Pollers = {"p1", "p2"}
    Manual = {"p2"}
    Overlap = 1
    Lookback = 2
    Delays = {1, 2}
    PageCap = 1
    DeadAfter = 2
    MaxTime = 3
    MaxPublished = 2
    MaxEvents = 1
INVARIANTS TypeOK NoSilentLoss RegistryMatchesRows
PROPERTIES EventuallyStored
