SPECIFICATION Spec
CONSTANTS
    Dynamic = FALSE
    EngineBatch = 2
    BatchSize = 2
    MaxFaces = 5
    MaxCalls = 3
INVARIANT NoDeviceLeak
INVARIANT OnePerCropInOrder
INVARIANT RunsOnLiveMemory
CHECK_DEADLOCK FALSE
