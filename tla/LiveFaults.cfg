SPECIFICATION Spec
CONSTANTS
    Handlers = {h1, h2}
    RowIds = {h1, h2}
    Symbols = {btc}
    Sides = {"LONG"}
    OrderTypes = {"MARKET", "LIMIT"}
    Wants = {{}, {"TP", "SL", "TRAIL"}}
    Faults = {"abort", "lookup", "gate"}
SYMMETRY HandlerSymmetry
INVARIANTS
    RowTellsTheTruth
    LiveTradesAreReal
