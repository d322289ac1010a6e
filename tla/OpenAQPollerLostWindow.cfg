SPECIFICATION Spec
CONSTANTS
    Sensors = {s1}
    Troubled = {s1}
    Pollers = {p1}
    Manual = {}
    Overlap = 1
    Lookback = 2
    Delays = {0, 1}
    PageCap = 9
    DeadAfter = 2
    MaxTime = 3
    MaxPublished = 2
    MaxEvents = 1
INVARIANT
    NoLostWindow
