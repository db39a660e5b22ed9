\* A posted task, enqueued while cancelled pending tasks are dropped.
SPECIFICATION Spec
CONSTANTS
    h1 = h1
    None = None
    Ids = {r1, h1, h2}
    RetryIds = {}
    HttpIds = {h1, h2}
    CronIds = {r1}
    OwnerIds = {}
    Subagents = {}
    Forked = {}
    ChatIds = {}
    Deadlined = {}
    HttpCancels = {}
    AgentCancels = {h1}
    Workers = {w1, w2}
    MaxRetries = 1
    MaxSubagents = 2
    StormSize = 3
    MaxDeaths = 0
    MaxCancels = 1
    BudgetEnds = FALSE
    Priority <- AllSame
SYMMETRY Interchangeable
INVARIANT NothingIsLost
