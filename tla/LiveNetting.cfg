SPECIFICATION Spec
CONSTANTS
    Handlers = {h1, h2, h3, h4}
    RowIds = {h1, h2, h3, h4}
    Symbols = {btc}
    Sides = {"LONG", "SHORT"}
    OrderTypes = {"MARKET"}
    Wants = {{"TP"}}
    Faults = {}
SYMMETRY HandlerSymmetry
INVARIANTS
    NoOrphanPosition
PROPERTIES
    ClosesOnlyReduce
