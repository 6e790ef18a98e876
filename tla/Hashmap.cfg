SPECIFICATION SparseSpec
CONSTANTS
    Keys = {k1, k2, k3, k4}
    Data = {d}
    NULL = NULL
    SizeDefault = 4
    HashValues = {0, 3, 6, 7}
    Memory = {TRUE}
INVARIANTS
    FindsWhatIsStored
    CleanupIsComplete
    EveryNameHasASlot
