SPECIFICATION Spec
CONSTANTS
    Ids = {i1, i2}
    Symbols = {btc}
    NoSig = NoSig
    FillRequired = TRUE
    BreakEven = TRUE
    ProtectedAsWin = TRUE
    Faults = {"crash", "db", "follower"}
SYMMETRY IdSymmetry
INVARIANTS
    FollowersNotAhead
    NoPhantomFill
PROPERTIES
    StatusOnlyRises
