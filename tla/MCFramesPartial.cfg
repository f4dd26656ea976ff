SPECIFICATION Spec
CONSTANTS
    f1 = f1
    f2 = f2
    f3 = f3
    r1 = r1
    r2 = r2
    w1 = w1
    w2 = w2
    None = None
    Frames = {f1}
    Invalid = {}
    Requests = {r1, r2}
    Workers = {w1, w2}
    Host <- TwoProcesses
    Inodes = {1, 2, 3, 4, 5, 6}
    Backends = {"local"}
    MaxFaults = 1
INVARIANTS
    NoPartialFile
\* The device stops once its outbox is empty.
CHECK_DEADLOCK FALSE
