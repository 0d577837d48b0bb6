SPECIFICATION FairSpec
CONSTANTS
    Batch <- OrderlyBatch
    ChunkSize = 2
    MaxBatches <- TwoAndOne
    MaxPings <- BothSides
    Capacity = 2
    Orderly = TRUE
    FilesChange = FALSE
    MayClose = FALSE
INVARIANTS
    TypeOK
    ReaderInStep
PROPERTIES
    TransfersComplete
