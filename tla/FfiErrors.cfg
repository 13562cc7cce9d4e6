SPECIFICATION WalkSpec
CONSTANTS
    MaxI32 = 2
    NullPointer = null
    Failures <- MCFailures
    Indices <- MCIndices
INVARIANTS
    WalkFindsEveryDiagnostic
    SpansAgree
    CodeIsTheCause
    CountsAreTheIndices
CHECK_DEADLOCK FALSE
