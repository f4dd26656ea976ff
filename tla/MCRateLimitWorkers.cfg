SPECIFICATION Spec
CONSTANTS
    w1 = w1
    w2 = w2
    d1 = d1
    Workers = {w1, w2}
    Devices = {d1}
    Counts = {1, 2}
    Limit = 2
    Window = 4
    Bucket = 1
    MaxTime = 4
    MaxPerSecond = 3
INVARIANTS
    HourlyLimit
\* The clock stops at MaxTime.
CHECK_DEADLOCK FALSE
