SPECIFICATION MCSpec
CONSTANTS
    Handlers = {h1}
    RowIds = {h1, x1}
    Symbols = {btc}
    Sides = {"LONG"}
    OrderTypes = {"MARKET"}
    Wants = {{"SL"}}
    Faults = {"gate"}
    Sweeps = {s1}
    FirstHandler = h1
    FirstSweep = s1
    None = None
    Retries = 2
INVARIANTS
    VanishedMeansGone
