SPECIFICATION CallSpec
CONSTANTS
    Bits = 4
    MaxExponent = 5
    Calls <- MCCalls
INVARIANTS
    CeilingOverflowsAsDocumented
CHECK_DEADLOCK FALSE
