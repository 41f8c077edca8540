\* A run that goes on past the end of the file.
SPECIFICATION ScanSpec
CONSTANTS
    LayersScanned <- MCTruncated
    FileSize = 12
    Contents <- MCContents
    Sections <- MCSections
    Kinds = {"bytes"}
    ChunkSize = 3
    Overlap = 2
    BatchSize = 2
    MayStop = FALSE
INVARIANTS
    FinishedReportsAll
CHECK_DEADLOCK FALSE
