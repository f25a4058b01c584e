SPECIFICATION Spec
CONSTANTS
    People = {alice, bob}
    Garbage = Garbage
    UseGpu = TRUE
    IndexType = "ivf_flat"
    PQMinSize = 2
    NList = 0
    PQCodes = 2
    Dims = {4}
    MaxBatch = 2
    MaxVectors = 3
    MaxRemoves = 1
INVARIANT LabelsRight
