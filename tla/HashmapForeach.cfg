SPECIFICATION OrderedSpec
CONSTANTS
    Keys = {1, 2, 3}
    Data = {d1, d2}
    NULL = NULL
    SizeDefault = 4
    HashValues = {3, 7}
    Memory = {TRUE, FALSE}
INVARIANT NamesAreOwned
PROPERTIES
    IsSymbolMap
    ForeachReachesAll
    LoopsEnd
