CONSTANTS
    Fetch = {q1, q2}
    AccessLife = 1
    SessionLife = 2
    MaxTime = 2
    MaxSessions = 3
SPECIFICATION Spec
INVARIANTS OneLiveSessionPerLogin
PROPERTIES GivesUpOnlyDeadTokens
SYMMETRY Symmetry
CHECK_DEADLOCK FALSE
