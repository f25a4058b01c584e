SPECIFICATION Spec
CONSTANTS
    Ids = {alice, bob}
    Near <- Similarities
    Far = 3
    Metric = "ip"
    TopK = 2
    Threshold = 1
    MarginMin = 2
    MaxFaces = 2
    MaxRanked = 3
    MaxFrames = 2
INVARIANT TypeOK
INVARIANT FramesAccounted
INVARIANT AllOrNothing
INVARIANT MatchJustified
INVARIANT MatchComplete
CHECK_DEADLOCK FALSE
