SPECIFICATION Spec
CONSTANTS
    Sensors = {"s1"}
    Station <- StationValue
    Reading <- OneReading
    OtherKinds = {"malformed"}
    MaxTopic = 2
    MaxBatch = 2
    MaxRuns = 5
    MaxFaults = 1
INVARIANTS RejectedIsKept
\* The stream stops when the bound on the topic is reached and all of it is read.
CHECK_DEADLOCK FALSE
