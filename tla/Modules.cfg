SPECIFICATION Spec
CONSTANTS
    Files <- MCFiles
    Main = "main"
    Letters <- MCLetters
    Programs <- MCPrograms
INVARIANTS
    ImportsGiveExports
    InitializedOnce
    RefusesClashes
PROPERTY
    Ends
CHECK_DEADLOCK FALSE
