SPECIFICATION Spec
CONSTANTS
    Batch <- MixedBatch
    ChunkSize = 2
    MaxBatches <- BothSides
    MaxPings <- BothSides
    Capacity = 2
    Orderly = FALSE
    FilesChange = FALSE
    MayClose = FALSE
INVARIANTS
    PingIsTransparent
CHECK_DEADLOCK FALSE
