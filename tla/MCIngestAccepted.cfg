SPECIFICATION Spec
CONSTANTS
    d1 = d1
    d2 = d2
    e1 = e1
    e2 = e2
    e3 = e3
    e4 = e4
    bad = bad
    odd = odd
    r1 = r1
    r2 = r2
    None = None
    Requests = {r1, r2}
    Devices = {d1}
    Recorded <- WithBadEvent
    Uploads <- AnyOrder
    MaxBatch = 3
    Invalid = {}
    Unencodable = {}
    Unstorable = {bad}
    MaxFaults = 0
INVARIANTS
    AcceptedIsIngested
\* The devices stop once every outbox is empty.
CHECK_DEADLOCK FALSE
