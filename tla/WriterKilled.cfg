CONSTANTS
    a1 = a1
    a2 = a2
    a3 = a3
    Shell = Shell
    ShellExe = ShellExe
    ShellDll = ShellDll
    NoOne = NoOne
    Apps <- TwoApps
    Weight <- MCWeight
    Capacity = 9
    MaxSerial = 9
    Writers <- AllApps
    BlockUsers <- None
    MaxCalls = 2
    Oversize <- None
    MaxFails = 0
    MayDie <- OneApp
    Patient = TRUE
SPECIFICATION Spec
CHECK_DEADLOCK FALSE
INVARIANTS
    MuteOnlyIfShellKilled
