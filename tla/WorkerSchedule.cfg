SPECIFICATION FairSpec
CONSTANTS
    Components = {"openaq", "weather"}
    Watched = {"openaq"}
    Interval <- IntervalValue
    BackoffInitial = 1
    BackoffMax = 3
    MaxTime = 6
    MaxRestarts = 1
INVARIANTS TypeOK RespectsBackoff NoBurstNoGap FailingServiceShows
           HealthyMeansNoneWaitsAfterFailure BrokenWorkerShows
PROPERTIES EventuallyRuns
\* At the bound of the clock every component waits for a later tick.
CHECK_DEADLOCK FALSE
