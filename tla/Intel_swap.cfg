\* A swapped page read from its middle.
SPECIFICATION Spec
CONSTANTS
    w1 = w1
    w2 = w2
    Workers = {w1}
    VirtualBits = 3
    PageBits = 1
    Structure <- MCStructure
    Images <- WindowsImages
    Root <- MCRoot
    Ranges <- AnyRange
    TableCapacity = 1
    EntryCapacity = 2
    Readers <- MCReaders
    MaxAsks <- MCMaxAsks
INVARIANTS
    MappingIsSound
CHECK_DEADLOCK FALSE
