SPECIFICATION MCSpec
CONSTANTS
    Symbols = {btc, eth}
    Watched = {eth}
    Shapes = {long}
    Lines = 1
    Loop = loop
    Runs = {r1}
    Flat = flat
    Moves = {"outside", "trade", "import", "unreadable", "alert"}
INVARIANTS
    BoundedDuplicates
    OneIssueWhenAlone
    NoFalseAlarm
PROPERTIES
    NewDriftIsAlerted
