SPECIFICATION FillSpec
CONSTANTS
    Keys <- FillKeys
    Data = {d}
    NULL = NULL
    SizeDefault = 256
    HashValues <- FillKeys
    Memory = {TRUE}
INVARIANTS
    FindsWhatIsStored
