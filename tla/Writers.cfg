CONSTANTS
    a1 = a1
    a2 = a2
    a3 = a3
    Shell = Shell
    ShellExe = ShellExe
    ShellDll = ShellDll
    NoOne = NoOne
    Apps <- ThreeApps
    Weight <- MCWeight
    Capacity = 2
    MaxSerial = 3
    Writers <- AllApps
    BlockUsers <- None
    MaxCalls = 2
    Oversize <- None
    MaxFails = 0
    MayDie <- None
    Patient = TRUE
SPECIFICATION Spec
CHECK_DEADLOCK FALSE
INVARIANTS
    TypeOK
    QueueIsAnnounced
    MuteOnlyIfShellKilled
PROPERTIES
    ImplementsFifo
