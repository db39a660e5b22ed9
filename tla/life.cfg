\* Lives of the server.
SPECIFICATION Spec
CONSTANTS
    MaxTasks = 2
    MaxCommits = 1
    MaxLives = 2
    MaxFaults = 1
    MaxFailures = 2
    MaxRetries = 1
CHECK_DEADLOCK FALSE
INVARIANTS TypeOK TalliedOncePerTransaction AbsorbedOnce
PROPERTIES StopIsFinal 
