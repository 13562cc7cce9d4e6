SPECIFICATION FairSpec
CONSTANTS
    Pieces = {"1", "exit", "blank", "newline", "return", "not_utf8"}
    MaxPieces = 4
INVARIANTS
    EveryLineUntilExit
PROPERTIES
    ExitEnds
CHECK_DEADLOCK FALSE
