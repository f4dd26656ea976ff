SPECIFICATION FairSpec
CONSTANTS
    w1 = w1
    w2 = w2
    Workers = {w1, w2}
    NMin = 2
    MaxObservations = 5
    MaxFaults = 1
INVARIANTS
    OneActive
PROPERTIES
    ModelKeepsUp
