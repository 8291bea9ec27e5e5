SPECIFICATION GrokSpec
CONSTANTS
    CriticalKinds <- MCCriticalKinds
    ProgressQueueLimit = 1
    StartCalls = 2
    MaxGen = 2
    MaxLines = 1
    MaxStops = 1
CHECK_DEADLOCK FALSE
INVARIANTS AcceptedInOrder BoundaryIsReady ResultIsOwn
PROPERTY EndIsSeen
