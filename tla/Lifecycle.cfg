CONSTANTS
    Shells <- MCShells
    Helpers <- MCHelpers
    HelperOf <- MCHelperOf
    Apps = {"a32", "a64"}
    Apps32 = {"a32"}
    MaxFailures = 1
    Killable = {"s1", "a32"}
    MaxKills = 1
SPECIFICATION Spec
CHECK_DEADLOCK FALSE
INVARIANTS
    TypeOK
    CountIsExact
    AtMostOneShell
PROPERTIES
    WritersAtReset
    HooksAreRemoved
