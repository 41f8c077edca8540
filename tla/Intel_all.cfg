\* Chosen ranges of every image by one worker, and two workers that share the caches.
SPECIFICATION LiveSpec
CONSTANTS
    w1 = w1
    w2 = w2
    Workers = {w1, w2}
    VirtualBits = 3
    PageBits = 1
    Structure <- MCStructure
    Images <- MCAllImages
    Root <- MCRoot
    Ranges <- MCRanges
    TableCapacity = 1
    EntryCapacity = 2
    Readers <- MCReaders
    MaxAsks <- MCMaxAsks
INVARIANTS
    MappingIsSound
    MappingIsComplete
    MappingIsJoined
    CachesAreTrue
PROPERTIES
    MappingEnds
CHECK_DEADLOCK FALSE
