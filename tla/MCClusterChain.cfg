SPECIFICATION Spec
CONSTANTS
    Observations = {1, 2, 3, 4}
    Obs <- Chain
    Eps = 10
    EpsUnits = 10
    MinPoints = 2
    RepairTimes = {1}
    MaxRepairs = 1
    MaxFaults = 0
INVARIANTS
    NeverResurrected
