SPECIFICATION Spec
CONSTANTS
    Users = {u1, u2}
    Req = {r1, r2}
    Symbols = {btc, eth}
    Deploy <- Deployments
    Pilot = u1
    Sizes = {1, 2}
    Caps <- SmallCaps
    Default <- StreakOnly
    Limits <- TwoLimits
    Day = 2
    Week = 3
    Cooldown = 1
    Spacing = 1
    Results <- WinOrLose
    MaxNow = 3
    MaxTrades = 2
    MaxRows = 2
CONSTRAINT Calm
SYMMETRY Symmetry
CHECK_DEADLOCK FALSE
INVARIANTS
    CapsOvershoot
PROPERTIES
    ShutMeansShut
