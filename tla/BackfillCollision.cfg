SPECIFICATION Spec
CONSTANTS
    t1 = t1
    t2 = t2
    btc = btc
    hype = hype
    Tids = {t1, t2}
    Coins = {btc}
    Watchlist = {btc}
    FillShapes = {"pair"}
    EventHours = {0, 1}
    HoursPerDay = 2
    LastFile = 2
    Requests <- FirstDay
    FallbackDays = {}
    MaxConcurrency = 2
    MaxRetries = 1
    MaxRuns = 1
CHECK_DEADLOCK FALSE
INVARIANTS
    EveryEventCaptured
