SPECIFICATION Spec
CONSTANTS
    Batch <- MixedBatch
    ChunkSize = 2
    MaxBatches <- TwoOfA
    MaxPings <- OneOfB
    Capacity = 2
    Orderly = FALSE
    FilesChange = TRUE
    MayClose = TRUE
INVARIANTS
    BatchesArriveInOrder
    NoSilentPartialFile
    PongsAreAnswers
CHECK_DEADLOCK FALSE
