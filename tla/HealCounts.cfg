SPECIFICATION Spec
CONSTANTS
    Hour = 2
    HoursPerDay = 2
    Lag = 2
    Start = 1
    End = 7
    MaxTime = 10
    Tids = {t1}
    SessionGaps <- MCGaps
    MaxBroken = 0
INVARIANT HealedHasCounts
CHECK_DEADLOCK FALSE
