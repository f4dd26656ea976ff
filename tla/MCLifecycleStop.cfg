SPECIFICATION Spec
CONSTANTS
    w1 = w1
    w2 = w2
    fusion = fusion
    fit = fit
    phone = phone
    probe = probe
    Workers = {w1, w2}
    Jobs = {fusion, fit}
    NestedJobs = {fusion}
    Clients = {probe}
    Probe = probe
    Files = 2
    Development = TRUE
    PoolSize = 2
    MaxRequests = 1
    MaxFaults = 1
INVARIANT
    JobsAreWaitedFor
\* The server stops when it is told to.
CHECK_DEADLOCK FALSE
