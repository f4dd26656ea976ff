SPECIFICATION FairSpec
CONSTANTS
    w1 = w1
    w2 = w2
    fusion = fusion
    fit = fit
    phone = phone
    probe = probe
    Workers = {w1, w2}
    Jobs = {fusion}
    NestedJobs = {fusion}
    Clients = {probe}
    Probe = probe
    Files = 2
    Development = TRUE
    PoolSize = 1
    MaxRequests = 2
    MaxFaults = 1
PROPERTY
    ServerStops
\* The server stops when it is told to.
CHECK_DEADLOCK FALSE
