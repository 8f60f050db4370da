CONSTANTS
    Symbols <- MCSymbols
    NL = "NL"
    NUL = "NUL"
    Hex <- MCHex
    ClientCommands <- MCCommands
    SIZE = 8
    MaxTokens = 3
    MaxCommands = 2
    MaxCuts = 1
SPECIFICATION InputSpec
CHECK_DEADLOCK FALSE
INVARIANTS
    CommandsArrive
    CrashHasACause
PROPERTIES
    LinesAreRead
