SPECIFICATION Spec
CONSTANTS
    Ids = {i1}
    Symbols = {btc}
    NoSig = NoSig
    FillRequired = TRUE
    BreakEven = TRUE
    ProtectedAsWin = TRUE
    Faults = {}
CHECK_DEADLOCK FALSE
PROPERTIES
    ClosedIsTerminal
