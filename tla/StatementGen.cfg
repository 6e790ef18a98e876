SPECIFICATION MCSpec
CONSTANTS
    Functions = {f, g}
    Exps = {"plain", "and", "or", "ternary", "new", "super"}
    MaxPos = 4
    MaxNesting = 4
INVARIANTS
    TypeOK
    JumpsTargetInnermostLoop
    StatementsAreBalanced
    BackwardJumpsRepeatLoops
    JumpsStayInFunction
    JumpsAreResolved
    LabelsAreUnique
    JumpsKeepDepth
CHECK_DEADLOCK FALSE
SYMMETRY NameSymmetry
