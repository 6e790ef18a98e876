CONSTANT
    MaxTests = 3
SPECIFICATION Spec
INVARIANTS
    RefusesExactly
    ScopesFollowCalls
PROPERTY DoesWhatIsMeant
CHECK_DEADLOCK FALSE
