SPECIFICATION MCSpec
CONSTANTS
    Variables = {"x"}
    Callables = {"m", "x", "string"}
    ParamLists <- Lists
    Ops = {"use", "set", "var", "for", "block", "if", "else", "class", "function", "end"}
    MaxTokens = 6
INVARIANTS
    TypeOK
    ResolvesLexically
    ErrorsAreExact
    SlotsAreDistinct
    LocalsAreForgotten
PROPERTIES
    GlobalsArePermanent
    Terminates
CHECK_DEADLOCK FALSE
