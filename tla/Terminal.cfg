SPECIFICATION MCSpec
CONSTANTS
    Nibble = 3
    Digit = 2
    Unit = 10
    ProfileChoices <- MCProfiles
    Screens = {"Connection", "Scope", "Parameters", "Backup"}
    RegisterWords <- MCWords
    TypedValues <- MCValues
    PageRows = 1
    MaxSelected = 1
    MaxObservations = 1
INVARIANTS
    PromptsAreSafe
    StagedWriteIsExact
CHECK_DEADLOCK FALSE
