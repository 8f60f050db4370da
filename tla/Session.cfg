CONSTANTS
    Pids <- MCPids
    Startup <- MCStartup
    PidReuse = FALSE
    CHECK = 1
    SESSION_TIMEOUT = 2
    MaxConnections = 2
    MaxFailures = 1
SPECIFICATION Spec
CHECK_DEADLOCK FALSE
INVARIANTS
    ClientKnowsHidden
    NoEarlyEnd
PROPERTIES
    ReturningClientIsGreeted
    EndsAtLast
