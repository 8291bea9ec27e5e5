SPECIFICATION Spec
CONSTANTS
    MessageIDs = {m1, m2}
    Clients = {c1, c2}
    Resolutions = {r1, r2}
    NoResolution = NoResolution
    NoID = NoID
    NoClient = NoClient
    MaxAttempts = 1
    MaxSyncFailures = 1
SYMMETRY Symmetry
INVARIANTS
    TypeOK
    ReplayableUnlessRefusedResume
    IndexNeverAhead
    ToldIsDurable
PROPERTY ImplementsOutcome
