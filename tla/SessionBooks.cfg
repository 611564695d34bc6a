SPECIFICATION FairSpec
CONSTANTS
    MaxSessions = 3
    MaxDowns = 4
    MaxUpFails = 1
    MaxFails = 3
    MaxHeals = 1
    Partial = TRUE
CHECK_DEADLOCK FALSE
INVARIANTS
    TypeOK
    NothingLost
    ReaperHitsItsOwn
    FinalIsFinal
PROPERTIES
    StreamIsBounded
