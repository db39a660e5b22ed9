\* An advisory review beside a blocked commit.
SPECIFICATION Spec
CONSTANTS
    Tasks = {t1, t2}
    Findings = {f1}
    Blocking = TRUE
    Slow = FALSE
    MaxVersion = 2
    MaxAttempt = 3
    MaxCalls = 2
    MaxMoves = 3
CHECK_DEADLOCK FALSE
PROPERTIES ObligationsKept
SYMMETRY TaskSymmetry
