SPECIFICATION ScoringSpec
CONSTANTS
    Raws <- MCRaws
    K = 3
    Norms = {0, 1, 2}
    Densities = {0, 1, 2}
    Visuals <- MCVisuals
    Primary = TRUE
    WS = 1
    WV = 1
    Cap = 8
    RatioMean = 2
    RatioStd = 1
    SpeedRef = 5
    Scale = 1
    MaxFits = 2
    MaxPairs = 1
INVARIANT
    NoFloorIsNeutral
\* The observation has its score and its pairs.
CHECK_DEADLOCK FALSE
