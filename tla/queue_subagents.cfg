\* A root task schedules more subagents than it may have active; they finish, time
\* out and are retried, and one of the agents cancels the root, with one worker slot.
SPECIFICATION Spec
CONSTANTS
    h1 = h1
    None = None
    Ids = {r1, s1, s2, s3, n1}
    RetryIds = {n1}
    HttpIds = {}
    CronIds = {r1}
    OwnerIds = {}
    Subagents = {s1, s2, s3}
    Forked = {s1, s2, s3}
    ChatIds = {s1, s2, s3}
    Deadlined = {}
    HttpCancels = {}
    AgentCancels = {r1}
    Workers = {w1}
    MaxRetries = 1
    MaxSubagents = 2
    StormSize = 3
    MaxDeaths = 0
    MaxCancels = 1
    BudgetEnds = FALSE
    Priority <- AllSame
SYMMETRY InterchangeableSubagents
INVARIANT SubagentsCapped
PROPERTY CancelledNotRetried
