SPECIFICATION FairSpec
CONSTANTS
    t1 = t1
    t2 = t2
    btc = btc
    hype = hype
    Tids = {t1, t2}
    Coins = {btc}
    Watchlist = {btc}
    FillShapes = {"pair"}
    EventHours = {0, 1}
    HoursPerDay = 2
    LastFile = 2
    Requests <- FirstDay
    FallbackDays = {0}
    MaxConcurrency = 2
    MaxRetries = 1
    MaxRuns = 2
CHECK_DEADLOCK FALSE
INVARIANTS
    TypeOK
    DaysAreComplete
    ReportIsHonest
PROPERTIES
    ExecutionEnds
