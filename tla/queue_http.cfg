\* Two tasks posted and cancelled over HTTP, one of them with a deadline and a
\* child drive, while the main loop assigns, times out and runs out of budget.
SPECIFICATION Spec
CONSTANTS
    h1 = h1
    None = None
    Ids = {h1, h2, n1}
    RetryIds = {n1}
    HttpIds = {h1, h2}
    CronIds = {}
    OwnerIds = {}
    Subagents = {}
    Forked = {h2}
    ChatIds = {}
    Deadlined = {h2}
    HttpCancels = {h1, h2}
    AgentCancels = {}
    Workers = {w1, w2}
    MaxRetries = 1
    MaxSubagents = 2
    StormSize = 3
    MaxDeaths = 0
    MaxCancels = 1
    BudgetEnds = TRUE
    Priority <- AllSame
SYMMETRY Interchangeable
 
PROPERTY TerminalNeverStarts
