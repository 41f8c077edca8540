\* Every small file of the six formats, and every operation on its layer.
SPECIFICATION LiveSpec
CONSTANTS
    Header = 3
    PageSize = 2
    WordBits = 4
    Records <- MCRecords
    Runs <- MCRuns
    Bitmaps <- MCBitmaps
    Programs <- MCPrograms
    Regions <- MCRegions
    Frames <- MCFrames
    Requests <- MCRequests
    Cuts = {0, 1, 2}
INVARIANTS
    TableIsImage
    ReadIsExact
    LendingIsReading
    ValidMeansReadable
PROPERTIES
    OperationEnds
CHECK_DEADLOCK FALSE
