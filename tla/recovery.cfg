SPECIFICATION Spec
CONSTANTS
    NTasks = 2
    MaxConcurrency = 1
    MaxAttempts = 3
    MaxCrashes = 1
    Resumes <- MCResumes
CHECK_DEADLOCK FALSE
INVARIANTS WorkersAccountedFor ExitIsProven FrozenReportIsCurrent
PROPERTY Settles
