SPECIFICATION Spec
CONSTANTS
    ErrorSlots = {e1, e2}
    HandleSlots = {h1}
    ErrorBoxes = {b1, b2, b3}
    HandleBoxes = {p1}
    Null = null
    Garbage = garbage
    Codes = {"OK", "PANIC", "other"}
    MaxCalls = 2
    MaxDropped = 1
SYMMETRY Boxes
VIEW View
INVARIANTS
    TypeOK
    NothingLost
PROPERTIES
    OutputsAlwaysAgree
    BlameIsAlwaysRight
