SPECIFICATION Spec
CONSTANTS
    t1 = t1
    t2 = t2
    Absent = Absent
    Tids = {t1}
    Lookbacks = {0, 1}
    MidnightRuns = TRUE
    MaxDay = 1
    MaxRows = 1
    MaxRuns = 2
CHECK_DEADLOCK FALSE
INVARIANTS
    ExactlyOnce
