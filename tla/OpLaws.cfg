SPECIFICATION CallSpec
CONSTANTS
    Bits = 4
    MaxExponent = 5
    Calls <- MCCalls
INVARIANTS
    ResultsAreValid
    DivisionLaws
    RoundingLaws
    BitLaws
CHECK_DEADLOCK FALSE
