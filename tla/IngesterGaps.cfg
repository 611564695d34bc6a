SPECIFICATION Spec
CONSTANTS
    c1 = c1
    c2 = c2
    Coins = {c1, c2}
    Kinds = {"ok", "noField"}
    SnapshotDepth = 1
    MaxRecords = 4
    MaxAttempts = 1
    BackoffBase = 1
    BackoffMax = 3
    Inject = FALSE
    MaxTrades = 3
    MaxDrops = 1
    MaxKills = 0
    MaxRaises = 1
    MaxRestarts = 0
SYMMETRY Symmetry
CHECK_DEADLOCK FALSE
INVARIANTS
    TypeOK
    NoSilentHole
    GapsAreDisjoint
PROPERTIES
    OpenGapsAreAccounted
