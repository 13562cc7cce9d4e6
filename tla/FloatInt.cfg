SPECIFICATION Spec
CONSTANTS
    Bits = 5
    Significant = 3
    One = 512
    MaxOrder = 24
    Calls <- MCCalls
INVARIANTS
    OrderIsNeverReversed
    ExtremeIsNearest
    RoundedIsTheMultiple
CHECK_DEADLOCK FALSE
