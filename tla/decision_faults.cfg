SPECIFICATION Spec
CONSTANTS
    Requests = {m1}
    ScopeRequests = {m1}
    Resolvers = {s1}
    Driver = Driver
    Executor = Executor
    Nobody = Nobody
    MaxStoreFailures = 1
    MaxFileFailures = 1
    MaxRefusals = 1
CHECK_DEADLOCK FALSE
INVARIANT WidenedScopeIsDecided
PROPERTIES
    RequestsReturn
    BarrierResumes
