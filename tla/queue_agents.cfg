\* A scheduled root task, the subagent it schedules and a cancel of the
\* subagent, with one worker death.
SPECIFICATION Spec
CONSTANTS
    h1 = h1
    None = None
    Ids = {r1, s1, n1}
    RetryIds = {n1}
    HttpIds = {}
    CronIds = {r1}
    OwnerIds = {}
    Subagents = {s1}
    Forked = {s1}
    ChatIds = {r1, s1}
    Deadlined = {}
    HttpCancels = {}
    AgentCancels = {s1}
    Workers = {w1, w2}
    MaxRetries = 1
    MaxSubagents = 2
    StormSize = 3
    MaxDeaths = 1
    MaxCancels = 1
    BudgetEnds = FALSE
    Priority <- AllSame
SYMMETRY Interchangeable
INVARIANTS TypeOK SingleExecution RunningIsBusy StartsBounded NothingIsLost
PROPERTY TerminalNeverStarts
