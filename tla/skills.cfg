\* One skill, the server and a worker; one edit, death or sleep.
SPECIFICATION FairSpec
CONSTANTS
    Workers = {w1}
    MaxHash = 2
    MaxJobs = 2
    MaxEvents = 1
CHECK_DEADLOCK FALSE
INVARIANTS TypeOK  
PROPERTIES RevertsItsOwn JobsEnd 
