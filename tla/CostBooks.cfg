SPECIFICATION Spec
CONSTANTS
    MaxSessions = 2
    MaxTime = 7
    MaxBill = 3
    Cent = 3
    DayLen = 3
    MaxSessionLen = 2
    MonthDays = 2
    Scale = 6
    SessionCeiling = 3
    IdleCeiling = 3
    Tolerance = 1
CHECK_DEADLOCK FALSE
INVARIANTS
    TypeOK
    GapIsRounding
    NoFalseAlarm
    GapIsSummedIdle
    LoggedHasRow
    RefusalIsCurable
PROPERTIES
    PricedOnce
