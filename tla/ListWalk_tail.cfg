SPECIFICATION Spec
CONSTANTS
    Nodes <- MCNodes
    ListHead = "head"
    Null = "null"
    Unreadable = "unreadable"
    Images <- MCImages
    MaxLength = 3
    QueueLimit = 3
    TailLimit = 4
INVARIANT TailOnce
CHECK_DEADLOCK FALSE
