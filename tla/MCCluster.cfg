SPECIFICATION FairSpec
CONSTANTS
    Observations = {1, 2, 3, 4}
    Obs <- Spots
    Eps = 10
    EpsUnits = 5
    MinPoints = 1
    RepairTimes = {1}
    MaxRepairs = 2
    MaxFaults = 1
INVARIANTS
    TypeOK
    SummaryMatchesLinks
    GroupsKeepApart
    StableIdentity
    NoResurrection
PROPERTIES
    RepairedUntouched
    DetectionsGetClustered
