\* An owner task and a posted one, two worker deaths that may make a storm.
SPECIFICATION Spec
CONSTANTS
    h1 = h1
    None = None
    Ids = {h1, r1, n1}
    RetryIds = {n1}
    HttpIds = {h1}
    CronIds = {}
    OwnerIds = {r1}
    Subagents = {}
    Forked = {}
    ChatIds = {r1}
    Deadlined = {}
    HttpCancels = {}
    AgentCancels = {}
    Workers = {w1, w2}
    MaxRetries = 1
    MaxSubagents = 2
    StormSize = 2
    MaxDeaths = 2
    MaxCancels = 1
    BudgetEnds = FALSE
    Priority <- AllSame
SYMMETRY Interchangeable
INVARIANT NothingIsLost
PROPERTIES TimeoutsKillTheirOwn 
