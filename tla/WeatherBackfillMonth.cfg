SPECIFICATION Spec
CONSTANTS
    Locations = {"kathmandu"}
    MonthLength = 3
    LastDay = 5
    MaxDays = 4
    MaxRuns = 2
    MaxFaults = 1
INVARIANTS SuccessIsComplete
\* All runs may have ended.
CHECK_DEADLOCK FALSE
