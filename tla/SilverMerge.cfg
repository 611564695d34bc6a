SPECIFICATION Spec
CONSTANTS
    t1 = t1
    t2 = t2
    Absent = Absent
    Tids = {t1, t2}
    Lookbacks = {0, 1}
    MidnightRuns = FALSE
    MaxDay = 2
    MaxRows = 4
    MaxRuns = 3
SYMMETRY Symmetry
CHECK_DEADLOCK FALSE
INVARIANTS
    TypeOK
    ExactlyOnce
PROPERTIES
    ImplementsLedger
    CorrectionsStick
