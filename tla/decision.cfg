SPECIFICATION Spec
CONSTANTS
    Requests = {m1, m2}
    ScopeRequests = {}
    Resolvers = {s1}
    Driver = Driver
    Executor = Executor
    Nobody = Nobody
    MaxStoreFailures = 0
    MaxFileFailures = 0
    MaxRefusals = 0
CHECK_DEADLOCK FALSE
INVARIANTS
    EventsInOrder
    NoPhantomBlock
SYMMETRY Symmetry
