SPECIFICATION Spec
CONSTANTS
    Bits = 2
    MaxExponent = 1
    ResolverErrors = {"UnknownVariable"}
    Unary3 = {"Minus", "LogicalNot"}
    Binary3 = {"Minus", "Divide", "LogicalAnd"}
    Funcs3 = {"Max", "Floor"}
    Expressions <- MCExpressions
INVARIANTS
    TypeOK
    ResultIsMeaning
    CallsFollowTree
    AskedInOrder
PROPERTIES
    ContractKept
CHECK_DEADLOCK FALSE
