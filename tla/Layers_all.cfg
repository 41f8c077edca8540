SPECIFICATION Spec
CONSTANTS
    Images <- MCImages
    Stackers <- MCStackers
    MAX_STACK_DEPTH = 8
    MaxSwaps = 2
    MaxAdded = 3
INVARIANTS OrderIsNames StackIsWhole WriterTakesTop
PROPERTIES NamesAreKept
CHECK_DEADLOCK FALSE
