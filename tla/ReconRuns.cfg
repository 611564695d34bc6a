SPECIFICATION FairSpec
CONSTANTS
    Sessions = {1, 2}
    Clean = {1}
    Gapless = {2}
    MaxCmds = 2
CHECK_DEADLOCK FALSE
INVARIANTS
    TypeOK
    OwnRunByKey
PROPERTIES
    RecordIsProved
    CommandsEnd
