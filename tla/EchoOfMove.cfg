CONSTANTS
    w1 = w1
    w2 = w2
    Shell = Shell
    NoWindow = NoWindow
    Windows <- OneWindow
    Kinds <- OnlyPosition
    Places <- TwoPlaces
    Start = 0
    States <- TwoStates
    Border = 1
    Room = 8
    MaxRequests = 1
    MaxActs = 1
    Movers <- None
    Switchers <- None
    Closers <- None
    Askers <- None
    Unruly <- None
    MayReturn = FALSE
SPECIFICATION Spec
CHECK_DEADLOCK FALSE
INVARIANTS
    EchoIsBlocked
