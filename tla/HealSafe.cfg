SPECIFICATION FairSpec
CONSTANTS
    Hour = 2
    HoursPerDay = 2
    Lag = 2
    Start = 1
    End = 9
    MaxTime = 12
    Tids = {t1, t2}
    SessionGaps <- MCTwoGaps
    MaxBroken = 1
CHECK_DEADLOCK FALSE
INVARIANTS
    TypeOK
    HealedIsInSilver
    ReconIsHonest
PROPERTIES
    HealConverges
