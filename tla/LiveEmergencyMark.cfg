SPECIFICATION Spec
CONSTANTS
    Handlers = {h1, h2}
    RowIds = {h1, h2}
    Symbols = {btc}
    Sides = {"LONG"}
    OrderTypes = {"MARKET"}
    Wants = {{"TP", "SL"}}
    Faults = {}
INVARIANTS
    FailedEmergencyIsMarked
