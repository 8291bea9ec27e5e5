SPECIFICATION Spec
CONSTANTS
    Tasks = {t1, t2}
    Wild <- MCWild
    Patterns <- MCPatterns
    Paths <- MCPaths
    HighRiskFiles <- MCHighRisk
    EphemeralPaths <- MCEphemeral
    MaxClauses = 1
    MaxExpansions = 2
    MaxWrites = 1
SYMMETRY TaskSymmetry
CHECK_DEADLOCK FALSE
INVARIANTS Isolation ForbiddenKept AuditNamesTheAuthor
