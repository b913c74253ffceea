SPECIFICATION Spec
CONSTANTS
    Users = {u1}
    Pos = {p1, p2}
    Sigs = {s1}
    Req = {r1, r2}
    NoSig = NoSig
    Initial = 2
    Margins = {2}
    Sizes = {1}
    Distances = {2}
    Moves <- SomeMoves
    MaxOpen = 2
SYMMETRY Symmetry
INVARIANTS
    CreditedOnce
CHECK_DEADLOCK FALSE
