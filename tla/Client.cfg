CONSTANTS
    Null = Null
    HashOf <- MCHash
    Less <- MCLess
    Ids <- MCIds
    Titles <- MCTitles
    Places <- MCPlaces
    Atoi <- MCAtoi
    Width = 2
    Height = 2
    ALWAYS_CLIP = FALSE
    MaxMessages = 4
    MaxFailures = 1
SPECIFICATION Spec
CHECK_DEADLOCK FALSE
INVARIANTS
    ScreenMatches
    CrashOnlyAfterLoss
    TableFunctionsAgree
PROPERTIES
    ImplementsMap
