SPECIFICATION Spec
CONSTANTS
    MessageIDs = {m1}
    Clients = {c1}
    Resolutions = {r1, r2}
    NoResolution = NoResolution
    NoID = NoID
    NoClient = NoClient
    MaxAttempts = 2
    MaxSyncFailures = 0
SYMMETRY Symmetry
INVARIANT JournalReplayable
