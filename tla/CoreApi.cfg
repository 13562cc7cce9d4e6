SPECIFICATION Spec
CONSTANTS
    Bits = 2
    MaxExponent = 1
    MaxEvaluations = 2
    ResolverErrors = {"UnknownVariable", "TooManyTokens", "ParserError"}
    Inputs <- MCInputs
    OptionSets <- MCOptionSets
INVARIANTS
    VariantNamesTheStage
    ReturnsTheMeaning
    LimitsBoundEvaluation
PROPERTIES
    PromiseKept
CHECK_DEADLOCK FALSE
