SPECIFICATION Spec
CONSTANTS
    Documents <- SomeDocuments
    MaxTokens = 4
    MaxInputs = 2
    MaxBatchTokens = 6
    MaxInputTokens = 6
INVARIANTS
    NothingLost
    ChunksFit
    RowsKeepHeader
    PathIsAncestry
    VectorsMatch
    RequestsWithinLimits
CHECK_DEADLOCK FALSE
