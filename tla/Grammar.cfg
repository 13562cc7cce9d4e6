SPECIFICATION Spec
CONSTANTS
    Bits = 2
    MaxExponent = 1
    GroupLength = 5
    CallLength = 6
    Texts <- MCTexts
INVARIANTS
    ParsesOnceIffAlternating
    RootIsLoosest
    TreesAreUsable
CHECK_DEADLOCK FALSE
