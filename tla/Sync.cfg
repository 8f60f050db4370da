CONSTANTS
    Windows = {"top", "popup"}
    NoWindow = NullWindow
    Popups = {"popup"}
    Owner <- MCOwner
    ToolWindows = {"top"}
    OfficeTooltips = {}
    NoTaskbar = NoTaskbarIcon
    Places = {1, 2}
    Titles <- MCTitles
    Unknown = NotTold
    MaxChanges = 2
    MaxSyncs = 2
SPECIFICATION Spec
CHECK_DEADLOCK FALSE
INVARIANTS
    MirrorIsRight
    OwnMessagesFit
PROPERTIES
    ParentsFirst
    SyncEnds
