SPECIFICATION FairSpec
CONSTANTS
    c1 = c1
    Coins = {c1}
    Kinds = {"ok", "noTime", "noField", "nullNumber"}
    SnapshotDepth = 1
    MaxRecords = 2
    MaxAttempts = 2
    BackoffBase = 1
    BackoffMax = 2
    Inject = TRUE
    MaxTrades = 2
    MaxDrops = 0
    MaxKills = 1
    MaxRaises = 1
    MaxRestarts = 1
CHECK_DEADLOCK FALSE
INVARIANTS
    NothingDropped
PROPERTIES
    StopEnds
