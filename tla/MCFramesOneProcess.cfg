SPECIFICATION Spec
CONSTANTS
    f1 = f1
    f2 = f2
    f3 = f3
    r1 = r1
    r2 = r2
    w1 = w1
    w2 = w2
    None = None
    Frames = {f1, f2}
    Invalid = {}
    Requests = {r1, r2}
    Workers = {w1}
    Host <- OneProcess
    Inodes = {1, 2, 3, 4, 5, 6}
    Backends = {"local", "supabase"}
    MaxFaults = 2
INVARIANTS
    NoPartialFile
PROPERTIES
    ImplementsReliableUpload
\* The device stops once its outbox is empty.
CHECK_DEADLOCK FALSE
