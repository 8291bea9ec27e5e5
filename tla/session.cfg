SPECIFICATION Spec
CONSTANTS
    MaxQueue = 1
    MaxTurns = 1
CHECK_DEADLOCK FALSE
INVARIANTS
    TypeOK
    ExitIsHonest
    AppliedResultIsCurrent
    BufferedResultCounts
PROPERTY SessionEnds
