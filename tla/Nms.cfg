SPECIFICATION Spec
CONSTANTS
    Boxes <- SomeBoxes
    Scores = {1, 2}
    IouPercent = 30
    MaxDets = 3
INVARIANT KeptApart
INVARIANT DroppedCovered
INVARIANT OverlapByArea
CHECK_DEADLOCK FALSE
