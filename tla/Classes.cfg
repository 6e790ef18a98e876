SPECIFICATION Spec
CONSTANTS
    ClassNames <- MCClassNames
    Programs <- MCPrograms
    Library <- MCLibrary
    MaxStmts = 3
INVARIANTS
    SuperReachesParent
    InstancesHaveTheirMethods
PROPERTY
    WritesStayInFamily
CHECK_DEADLOCK FALSE
