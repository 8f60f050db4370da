CONSTANTS
    a = a
    b = b
    NUL = NUL
    Chars <- MCChars
    Commands <- MCCommands
    Args <- MCArgs
    BufferSize = 13
    MaxWrites = 5
    MaxReads = 6
    MayCrash = TRUE
SPECIFICATION Spec
CHECK_DEADLOCK FALSE
INVARIANTS
    TypeOK
    FitsIsExact
    UnreadIntact
PROPERTY
    ImplementsSafeFifo
