SPECIFICATION Spec
CONSTANTS
    Tasks = {t1}
    Task = t1
    Clients = {c1}
    NoTask = NoTask
    Nobody = Nobody
    History <- Unverified
    MaxEvents = 8
    MaxSyncFailures = 1
SYMMETRY Symmetry
CHECK_DEADLOCK FALSE
INVARIANTS
    LogIntact
    RecoversMemory
PROPERTY FailClosed
