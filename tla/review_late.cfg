\* One task whose calls may outlast their lock and the hard ceiling.
SPECIFICATION FairSpec
CONSTANTS
    Tasks = {t1}
    Findings = {f1}
    Blocking = TRUE
    Slow = TRUE
    MaxVersion = 1
    MaxAttempt = 8
    MaxCalls = 2
    MaxMoves = 2
CHECK_DEADLOCK FALSE
PROPERTIES CallsEnd
