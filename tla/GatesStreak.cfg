SPECIFICATION Spec
CONSTANTS
    Users = {u1, u2}
    Req = {r1, r2}
    Symbols = {btc, eth}
    Deploy <- Deployments
    Pilot = u1
    Sizes = {1}
    Caps <- SmallCaps
    Default <- StreakOnly
    Limits <- OneLimit
    Day = 2
    Week = 3
    Cooldown = 1
    Spacing = 1
    Results <- WinOrLose
    MaxNow = 3
    MaxTrades = 2
    MaxRows = 4
SYMMETRY Symmetry
CHECK_DEADLOCK FALSE
PROPERTIES
    StreakLocksOnce
