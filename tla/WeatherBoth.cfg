SPECIFICATION Spec
CONSTANTS
    Locations = {"kathmandu"}
    Pollers = {"poller"}
    Feeds <- FeedsValue
    Past = 1
    Ahead = 0
    MaxTime = 2
    MaxFaults = 1
    MonthLength = 2
    LastDay = 1
    MaxDays = 1
    MaxRuns = 2
    MaxAborts = 1
INVARIANTS TypeOK SuccessIsStored HealthIsRecorded RowsAreClaimedOnce
