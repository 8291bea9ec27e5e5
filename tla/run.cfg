SPECIFICATION Spec
CONSTANTS
    NWaves = 2
    Writes <- MCWrites
    Reports <- MCReports
    Asking = {2}
    Lingering = {1}
    Cancels = {0, 1}
    MaxCalls = 2
CHECK_DEADLOCK FALSE
INVARIANTS StartEndsTheRun CompletedIsVerified NothingUnaudited
PROPERTY WakeUpsAreHeard
