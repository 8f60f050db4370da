CONSTANTS
    w1 = w1
    w2 = w2
    Shell = Shell
    NoWindow = NoWindow
    Windows <- TwoWindows
    Kinds <- AllKinds
    Places <- TwoPlaces
    Start = 0
    States <- TwoStates
    Border = 0
    Room = 3
    MaxRequests = 2
    MaxActs = 1
    Movers <- OneWindow
    Switchers <- OneWindow
    Closers <- OneWindow
    Askers <- OnlySecond
    Unruly <- OnlySecond
    MayReturn = FALSE
SPECIFICATION Spec
CHECK_DEADLOCK FALSE
INVARIANTS
    PositionMirror
    AckedOnce
    EchoIsBlocked
PROPERTIES
    CommandsReturn
