SPECIFICATION AlgorithmsSpec
CONSTANTS
    MaxArgs = 4
    MaxEntries = 3
    MaxParsers = 8
    MaxUnits = 5
    LongOpts <- MCLongOpts
    Lines <- MCLines
    Entries <- MCEntries
    Lengths <- MCLengths
    LineEnds <- MCLineEnds
    NoValue = none
    IntBits = 3
    NoString = none
    Quote = quote
    Backslash = backslash
    Others = {x, y}
    Literals <- MCLiterals
INVARIANTS
    ReadsAsWritten
    EnumIsAsWritten
    TreeIsTheDerivation
    VerbatimButForQuotes
PROPERTY
    ReplacementEnds
CHECK_DEADLOCK FALSE
