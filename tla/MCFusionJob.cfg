SPECIFICATION FairSpec
CONSTANTS
    Observations = {1, 2}
    Frames = {1, 2, 3}
    Obs <- MCObs
    Frm <- MCFrm
    WindowMs = 4
    WindowM = 2
    BatchSize = 2
    MaxModels = 2
    MaxFaults = 1
INVARIANTS
    RunsAccountFrames
    PairedWithNearest
    PairsAgreeWithScores
PROPERTIES
    FramesHandledOnce
    ObservationsHandledOnce
    QueuesDrain
