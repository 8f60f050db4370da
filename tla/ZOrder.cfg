CONSTANTS
    top = top
    a = a
    b = b
    c = c
    hid = hid
    NoWindow = NoWindow
    Windows <- MCWindows
    Topmost <- MCTopmost
    Hidden <- MCHidden
    FirstOrder <- MCFirstOrder
    MaxRequests = 2
    MaxActs = 2
SPECIFICATION Spec
CHECK_DEADLOCK FALSE
INVARIANTS
    OrderMirrored
PROPERTIES
    AckedIfMoved
