SPECIFICATION Spec
CONSTANTS
    w1 = w1
    w2 = w2
    Workers = {w1, w2}
    NMin = 2
    MaxObservations = 4
    MaxFaults = 0
PROPERTY
    RefitNeedsNewData
