SPECIFICATION Spec
CONSTANTS
    People = {alice, bob}
    Garbage = Garbage
    UseGpu = TRUE
    IndexType = "ivf_pq"
    PQMinSize = 2
    NList = 0
    PQCodes = 2
    Dims = {4}
    MaxBatch = 2
    MaxVectors = 2
    MaxRemoves = 2
SYMMETRY Symmetry
INVARIANT TypeOK
INVARIANT ServedIsCurrent
INVARIANT SearchIsSafe
INVARIANT RemovedNotNamed
INVARIANT LabelsKept
