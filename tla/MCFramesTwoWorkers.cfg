SPECIFICATION FairSpec
CONSTANTS
    f1 = f1
    f2 = f2
    f3 = f3
    r1 = r1
    r2 = r2
    w1 = w1
    w2 = w2
    None = None
    Frames = {f1, f2, f3}
    Invalid = {f3}
    Requests = {r1, r2}
    Workers = {w1, w2}
    Host <- TwoProcesses
    Inodes = {1, 2, 3, 4, 5, 6, 7, 8}
    Backends = {"local", "supabase"}
    MaxFaults = 3
PROPERTIES
    FramesGetStored
\* The device stops once its outbox is empty.
CHECK_DEADLOCK FALSE
