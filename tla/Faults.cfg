CONSTANTS
    a1 = a1
    a2 = a2
    a3 = a3
    Shell = Shell
    ShellExe = ShellExe
    ShellDll = ShellDll
    NoOne = NoOne
    Apps <- OneApp
    Weight <- MCWeight
    Capacity = 2
    MaxSerial = 2
    Writers <- AppOneAndDll
    BlockUsers <- AppOneAndDll
    MaxCalls = 3
    Oversize <- OnlyDll
    MaxFails = 1
    MayDie <- AllThreads
    Patient = FALSE
SPECIFICATION Spec
CHECK_DEADLOCK FALSE
INVARIANTS
    RingIsLocked
    SerialsAreConsecutive
    MutexIsBalanced
PROPERTIES
    BracketIsQuiet
    ImplementsSafeFifo
    WritesReturn
