SPECIFICATION Spec
CONSTANTS
    Observations = {1, 2, 3, 4, 5, 6, 7, 8}
    Obs <- Crossing
    Eps = 4
    EpsUnits = 4
    MinPoints = 5
    RepairTimes = {1}
    MaxRepairs = 0
    MaxFaults = 0
INVARIANTS
    StableIdentity
