SPECIFICATION FairSpec
CONSTANTS
    Handlers = {h1, h2}
    RowIds = {h1, h2}
    Symbols = {btc}
    Sides = {"LONG"}
    OrderTypes = {"MARKET", "LIMIT"}
    Wants = {{}, {"TP", "SL"}}
    Faults = {}
INVARIANTS
    FillAccounted
PROPERTIES
    FillsGetBooked
    ImplementsEntryBook
