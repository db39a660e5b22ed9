\* Under fairness of the main loop and of time, with a single worker slot.
SPECIFICATION FairSpec
CONSTANTS
    h1 = h1
    None = None
    Ids = {r1, s1, n1}
    RetryIds = {n1}
    HttpIds = {}
    CronIds = {r1}
    OwnerIds = {}
    Subagents = {s1}
    Forked = {s1}
    ChatIds = {r1, s1}
    Deadlined = {}
    HttpCancels = {}
    AgentCancels = {r1, s1}
    Workers = {w1}
    MaxRetries = 1
    MaxSubagents = 2
    StormSize = 3
    MaxDeaths = 0
    MaxCancels = 1
    BudgetEnds = FALSE
    Priority <- AllSame
PROPERTIES EveryTaskSettles CancelSettles
