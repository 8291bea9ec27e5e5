SPECIFICATION OutboxSpec
CONSTANTS
    Callers = {c1, c2}
    Leftover = left
    Wave = wave
    Crews <- MCCrews
    CapabilitySets <- MCCapabilitySets
CHECK_DEADLOCK FALSE
INVARIANTS OneResume InOrder NeverSilentlyLost
PROPERTY CallsReturn
