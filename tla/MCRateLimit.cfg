SPECIFICATION Spec
CONSTANTS
    w1 = w1
    w2 = w2
    d1 = d1
    Workers = {w1}
    Devices = {d1}
    Counts = {1, 2}
    Limit = 2
    Window = 6
    Bucket = 3
    MaxTime = 9
    MaxPerSecond = 2
INVARIANTS
    TypeOK
    CountIsWindowed
    LimitHolds
\* The clock stops at MaxTime.
CHECK_DEADLOCK FALSE
