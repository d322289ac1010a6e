SPECIFICATION Spec
CONSTANTS
    s1 = s1
    s2 = s2
    s3 = s3
    Sensors = {s1, s2, s3}
    Unlocated = {s3}
    Locations <- LocationsValue
    Location <- LocationValue
    Targets <- TargetsValue
    Days = {0, 1}
    Hours = {0}
    Reading <- ReadingValue
    MaxDays = 2
    Runs = {r1, r2}
    MaxRuns = 2
    MaxFaults = 1
SYMMETRY RunSymmetry
INVARIANTS TypeOK LoadedIsStored SuccessIsComplete ManifestNeverOvercounts
PROPERTIES CompletedIsSkipped
\* All runs may have ended.
CHECK_DEADLOCK FALSE
