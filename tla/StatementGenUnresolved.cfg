SPECIFICATION Spec
CONSTANTS
    Functions = {f}
    Exps = {"plain"}
    MaxPos = 2
    MaxNesting = 2
INVARIANTS
    AllJumpsAreResolved
CHECK_DEADLOCK FALSE
