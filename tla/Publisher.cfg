SPECIFICATION Spec
CONSTANTS
    Symbols = {btc, eth}
    Sides = {long}
    c1 = c1
    c2 = c2
    Setups <- Deployments
    Budget = 2
    Hour = 2
    Cooldown = 2
    Silence = 1
SYMMETRY Symmetry
CHECK_DEADLOCK FALSE
INVARIANTS
    SpacedOut
    OnePostPerLostAnswer
    OneSignalAfterPause
