SPECIFICATION Spec
CONSTANTS
    Req = {r1, r2}
    Keys = {k1, k2}
    NoKey = NoKey
    NoRow = NoRow
    Sess = {s1, s2}
    Token = {t1, t2}
    People = 3
    Topics = {"vault", "sessions", "codes", "people", "switch"}
    Seed = FALSE
SYMMETRY Symmetry
INVARIANTS
    VaultKeysWereFit
    SwitchSurvivesRestart
PROPERTIES
    OnlyConnectBringsKey
