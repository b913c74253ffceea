SPECIFICATION Spec
CONSTANTS
    Handlers = {h1, h2, h3, h4}
    RowIds = {h1, h2, h3, h4}
    Symbols = {btc}
    Sides = {"LONG"}
    OrderTypes = {"MARKET"}
    Wants = {{}}
    Faults = {}
SYMMETRY HandlerSymmetry
INVARIANTS
    OneTradePerPosition
