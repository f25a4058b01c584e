SPECIFICATION Spec
CONSTANTS
    Dynamic = TRUE
    EngineBatch = 4
    BatchSize = 2
    MaxFaces = 4
    MaxCalls = 3
INVARIANT AllocatedOnFirstCall
CHECK_DEADLOCK FALSE
