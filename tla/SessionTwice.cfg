SPECIFICATION Spec
CONSTANTS
    MaxSessions = 2
    MaxDowns = 3
    MaxUpFails = 1
    MaxFails = 0
    MaxHeals = 0
    Partial = FALSE
CHECK_DEADLOCK FALSE
INVARIANTS
    ClosedOnce
