SPECIFICATION MCSpec
CONSTANTS
    Handlers = {h1, h2}
    FirstHandler = h1
    RowIds = {h1, h2, x1, x2}
    Symbols = {btc}
    Sides = {"LONG", "SHORT"}
    OrderTypes = {"MARKET"}
    Wants = {{"TP", "SL"}, {"SL"}}
    Faults = {"gate", "abort"}
    Sweeps = {s1, s2}
    FirstSweep = s1
    None = None
    Retries = 2
INVARIANTS
    ReviewIsKept
    VanishedMeansGoneWhenCalm
PROPERTIES
    CertifiedIsProtected
    SweepsEndWhenFailing
