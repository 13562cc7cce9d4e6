SPECIFICATION Spec
CONSTANTS
    MaxSize = 4
    LimitTop = 3
    Inputs <- MCInputs
    OptionSets <- MCOptionSets
INVARIANTS
    TypeOK
    VerdictIsFirstCause
    WorkBounded
    WalkInPreorder
CHECK_DEADLOCK FALSE
