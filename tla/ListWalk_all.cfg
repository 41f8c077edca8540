SPECIFICATION FairSpec
CONSTANTS
    Nodes <- MCNodes
    ListHead = "head"
    Null = "null"
    Unreadable = "unreadable"
    Images <- MCImages
    MaxLength = 3
    QueueLimit = 3
    TailLimit = 4
INVARIANTS TypeOK EachOnce OnlyWhatIsLinked StopsOnlyAtAnEnd OneBreakLosesNothing
PROPERTY WalkEnds
CHECK_DEADLOCK FALSE
