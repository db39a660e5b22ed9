\* Two tasks share the repository; every call ends before its lock is stale.
SPECIFICATION Spec
CONSTANTS
    Tasks = {t1, t2}
    Findings = {f1}
    Blocking = TRUE
    Slow = FALSE
    MaxVersion = 2
    MaxAttempt = 3
    MaxCalls = 2
    MaxMoves = 3
CHECK_DEADLOCK FALSE
INVARIANTS TypeOK
PROPERTIES  FindingsAreOfOneDiff
SYMMETRY TaskSymmetry
