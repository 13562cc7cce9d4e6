SPECIFICATION Spec
CONSTANTS
    Bits = 5
    MaxOrder = 2
    MinOrder <- MCMinOrder
    ZeroOrder <- MCZeroOrder
    NoneError = "UnknownSymbol"
    NumberLength = 5
    OperatorLength = 4
    WordCount = 3
    Texts <- MCTexts
INVARIANTS
    SpansCoverText
    WordsAreWhole
    SpacesBetweenTokensAreNeutral
    LiteralsAreNumbers
CHECK_DEADLOCK FALSE
