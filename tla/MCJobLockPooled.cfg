SPECIFICATION Spec
CONSTANTS
    w1 = w1
    w2 = w2
    fusion = fusion
    cluster = cluster
    s1 = s1
    s2 = s2
    Workers = {w1, w2}
    Jobs = {fusion, cluster}
    NestedJobs = {fusion}
    Pooled = TRUE
    PoolerSessions = {s1, s2}
    PoolSize = 2
    MaxBorrows = 0
    MaxFaults = 0
INVARIANT
    SingleFlight
