\* One needle, or several, over sections that do not nest, stopped or not.
SPECIFICATION FairScanSpec
CONSTANTS
    LayersScanned <- MCLayers
    FileSize = 12
    Contents <- MCContents
    Sections <- MCSections
    Kinds = {"bytes", "strings", "both_regions"}
    ChunkSize = 3
    Overlap = 2
    BatchSize = 2
    MayStop = TRUE
INVARIANTS
    CoalescedIsAsked
    FinishedReportsAll
    NoHitTooOften
    FirstIsLowest
PROPERTIES
    ScanEnds
CHECK_DEADLOCK FALSE
