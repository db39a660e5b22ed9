------------------------- MODULE EvolutionCampaign --------------------------
(* The evolution campaign across the lives of the server: cycles begin when  *)
(* the supervisor is idle, a worker edits, commits and asks for a restart,   *)
(* the restarted server's first worker to boot verifies the commit, and the  *)
(* cycle counts as absorbed.                                                 *)
(*                                                                           *)
(* Three kinds of process change state/evolution_campaign.json: the          *)
(* supervisor's main loop, the worker that executes the evolution task and   *)
(* every worker that boots.  Each reads the file, changes its copy and       *)
(* writes the whole copy back; nothing locks the file in between, so the     *)
(* copy waits in draft[a] until a's write.                                   *)
EXTENDS Naturals, Sequences, FiniteSets

CONSTANTS
    MaxTasks,    \* bound: ids of evolution tasks, retries included
    MaxCommits,  \* bound: reviewed commits
    MaxLives,    \* bound: starts of the server
    MaxFaults,   \* bound: worker deaths and the owner's switches of evolution
    MaxFailures, \* consecutive failures that pause evolution
    MaxRetries   \* QUEUE_MAX_RETRIES

ASSUME EvolutionAssumption ==
    /\ {MaxTasks, MaxCommits, MaxLives, MaxFaults, MaxRetries} \subseteq Nat
    /\ MaxFailures \in Nat \ {0}

VARIABLES
    life,      \* the server: "up", "down" (the launcher restarts it), "stopped"
    lives,     \* how often it was started
    phase,     \* the step of the supervisor's loop
    st,        \* state.json: evolution_mode_enabled, consecutive failures
    campaign,  \* evolution_campaign.json
    draft,     \* draft[a]: the copy of it that process a is about to write
    claim,     \* pending_restart_verify.json: the expected commit, or NoClaim
    repo,      \* HEAD of the dev branch, uncommitted changes, checked-out branch
    task,      \* the evolution task in PENDING or RUNNING and its worker
    booting,   \* a worker process that has not run verify_restart yet
    asking,    \* a worker that has yet to put its restart_request after its task_done
    events,    \* EVENT_Q
    snapshot,  \* queue_snapshot.json: the pending evolution task
    madeIn,    \* history: the life of the server each commit was made in
    bounds     \* what is left of the bounds: next id, faults

vars == <<life, lives, phase, st, campaign, draft, claim, repo, task, booting,
          asking, events, snapshot, madeIn, bounds>>

Ids == 1..MaxTasks
Commits == 1..MaxCommits
Actors == {"supervisor", "worker", "boot"}

None == [kind |-> "none"]
NoTx == [task |-> 0]
NoTask == [id |-> 0]
NoClaim == MaxCommits + 1

HeadCommit == IF repo.stable THEN 0 ELSE repo.dev

Txs == [task : Ids, commit : 0..MaxCommits, required : BOOLEAN,
        verified : BOOLEAN, rescue : BOOLEAN]
Rows == [task : Ids, tx : 0..MaxTasks]
Campaigns == [status : {"none", "active", "paused"}, tx : Txs \cup {NoTx},
              history : Seq(Rows), absorbed : Seq(Commits)]
Followups == {"proceed", "cancel", "begin", "enqueue", "pause", "replayed",
              "succeeded", "failed"}
Drafts == [kind : {"draft"}, file : Campaigns, then : Followups, id : 0..MaxTasks]
Phases == {"drain", "act"}
TaskStates == {"pending", "working", "reported", "dead"}
TaskRecords == [id : Ids, tx : Ids, attempt : 1..(MaxRetries + 1),
                at : TaskStates, reviewed : 0..MaxCommits, wants : BOOLEAN]
DoneEvents == [type : {"done"}, id : Ids, meta : 0..MaxTasks, ok : BOOLEAN]
Events == DoneEvents \cup {[type |-> "restart"]}

TypeOK ==
    /\ life \in {"up", "down", "stopped"}
    /\ lives \in 0..MaxLives
    /\ phase \in Phases
    /\ st \in [enabled : BOOLEAN, failures : Nat]
    /\ campaign \in Campaigns
    /\ draft \in [Actors -> Drafts \cup {None}]
    /\ claim \in 0..(MaxCommits + 1)
    /\ repo \in [dev : 0..MaxCommits, dirty : BOOLEAN, stable : BOOLEAN]
    /\ task \in TaskRecords \cup {NoTask}
    /\ booting \in BOOLEAN
    /\ asking \in BOOLEAN
    /\ events \in Seq(Events)
    /\ snapshot \in TaskRecords \cup {NoTask}
    /\ madeIn \in [Commits -> 0..MaxLives]
    /\ bounds \in [nextId : 1..(MaxTasks + 1), faults : 0..MaxFaults]

Init ==
    /\ life = "down"
    /\ lives = 0
    /\ phase = "drain"
    /\ st \in [enabled : {TRUE}, failures : {0}]
    /\ campaign = [status |-> "none", tx |-> NoTx, history |-> <<>>, absorbed |-> <<>>]
    /\ draft = [a \in Actors |-> None]
    /\ claim = NoClaim
    /\ repo = [dev |-> 0, dirty |-> FALSE, stable |-> FALSE]
    /\ task = NoTask
    /\ booting = FALSE
    /\ asking = FALSE
    /\ events = <<>>
    /\ snapshot = NoTask
    /\ madeIn = [c \in Commits |-> 0]
    /\ bounds = [nextId |-> 1, faults |-> MaxFaults]
-----------------------------------------------------------------------------
(* What the writers of the campaign file do to their copy of it.             *)

(* start_evolution_campaign: a new campaign, or the paused one goes on.      *)
Started(f) ==
    IF f.status = "none"
        THEN [status |-> "active", tx |-> NoTx, history |-> <<>>, absorbed |-> <<>>]
        ELSE [f EXCEPT !.status = "active"]

(* pause_evolution_campaign; there is nothing to pause in an absent file.    *)
Paused(f) == IF f.status = "none" THEN f ELSE [f EXCEPT !.status = "paused"]

(* begin_evolution_transaction: whatever transaction was active is replaced. *)
Begun(f, id) ==
    [f EXCEPT !.tx = [task |-> id, commit |-> 0, required |-> FALSE,
                      verified |-> FALSE, rescue |-> FALSE]]

IsActive(f, id) == f.tx # NoTx /\ f.tx.task = id

(* update_evolution_transaction, by commit_reviewed and by request_restart.  *)
Committed(f, id, c) ==
    IF IsActive(f, id)
        THEN [f EXCEPT !.tx.commit = c, !.tx.required = TRUE, !.tx.verified = FALSE]
        ELSE f
RestartAsked(f, id) == IF IsActive(f, id) THEN [f EXCEPT !.tx.required = TRUE] ELSE f

(* _link_rescue_to_evolution_transaction; the edits are of tracked files, so *)
(* that there is a stash to link.                                            *)
Linked(f) == IF f.tx = NoTx THEN f ELSE [f EXCEPT !.tx.rescue = TRUE]

(* update_evolution_campaign_after_task.  The transaction of the task is the *)
(* active one, or else the one in its metadata, if it names the task.        *)
TxOf(f, id, meta) == IF IsActive(f, id) \/ meta = id THEN id ELSE 0

(* A seeded bug: a terminal event that is delivered again is tallied again.  *)
NoReplay(f, id, meta) == FALSE

Replayed(f, id, meta) ==
    \E i \in DOMAIN f.history :
        /\ f.history[i].task = id
        /\ TxOf(f, id, meta) \in {0, f.history[i].tx}

TallyTx(f, id) ==
    IF ~IsActive(f, id) THEN f
    ELSE IF f.tx.commit # 0 /\ f.tx.verified
        THEN [f EXCEPT !.absorbed = Append(f.absorbed, f.tx.commit), !.tx = NoTx]
    ELSE IF f.tx.rescue THEN [f EXCEPT !.tx = NoTx]
    ELSE [f EXCEPT !.tx.required = f.tx.required \/ f.tx.commit # 0]

Tallied(f, id, meta) ==
    IF f.status = "none" \/ Replayed(f, id, meta) THEN f
    ELSE [TallyTx(f, id) EXCEPT
              !.history = Append(f.history, [task |-> id, tx |-> TxOf(f, id, meta)])]

(* Seeded bugs: a cycle that committed nothing is absorbed too; the verified *)
(* transaction stays active.                                                 *)
AbsorbsNothing(f, expected, observed) ==
    IF f.tx # NoTx /\ expected = observed /\ f.tx.commit \in {0, expected}
        THEN [f EXCEPT !.absorbed = Append(f.absorbed, f.tx.commit), !.tx = NoTx]
        ELSE f

KeptVerified(f, expected, observed) ==
    IF f.tx # NoTx /\ f.tx.commit = expected /\ expected = observed /\ expected # 0
        THEN [f EXCEPT !.absorbed = Append(f.absorbed, expected), !.tx.required = FALSE]
        ELSE f

(* _mark_campaign_restart_verified                                           *)
Verified(f, expected, observed) ==
    LET ok == expected = observed
    IN  IF f.tx = NoTx THEN f
        ELSE IF f.tx.commit # 0 /\ f.tx.commit # expected
            THEN [f EXCEPT !.tx.required = TRUE, !.tx.verified = FALSE]
        ELSE IF ok /\ f.tx.commit # 0
            THEN [f EXCEPT !.absorbed = Append(f.absorbed, f.tx.commit), !.tx = NoTx]
        ELSE IF ok THEN [f EXCEPT !.tx = NoTx]
        ELSE [f EXCEPT !.tx.required = TRUE, !.tx.verified = FALSE]

(* The next cycle waits: a commit's restart is still to be verified.         *)
AwaitsRestart(f) ==
    f.tx # NoTx /\ f.tx.commit # 0 /\ (f.tx.required \/ ~f.tx.verified)

(* _has_active_evolution_transaction: edits of an unfinished cycle.          *)
UnfinishedCycle(f) ==
    f.status \in {"active", "paused"} /\ f.tx # NoTx /\ f.tx.commit = 0
-----------------------------------------------------------------------------
Drafted(f, then, id) == [kind |-> "draft", file |-> f, then |-> then, id |-> id]

Prepare(a, f, then, id) == draft' = [draft EXCEPT ![a] = Drafted(f, then, id)]

(* The supervisor's next step is its own: no write of it is outstanding.     *)
In(p) == life = "up" /\ phase = p /\ draft["supervisor"] = None

Done(id, meta, ok) == [type |-> "done", id |-> id, meta |-> meta, ok |-> ok]

Running == task # NoTask /\ task.at # "pending"

(* Killing the worker takes the write it was about to make with it.          *)
WithoutWorker == [draft EXCEPT !["worker"] = None]
-----------------------------------------------------------------------------
(* The launcher starts the server.  _bootstrap_supervisor_repo resets a dirty *)
(* tree after a rescue, unless a cycle without a commit is active: then it is *)
(* left alone and evolution is paused.  kill_workers then writes the (still   *)
(* empty) queue to the snapshot that restore_pending_from_snapshot reads.     *)
Blocked(f) == repo.dirty /\ UnfinishedCycle(f)

(* A seeded bug: the dirty tree is reset whatever cycle is active.            *)
NeverBlocked(f) == FALSE

Protected(f) == Blocked(f)

BootedCampaign ==
    IF Protected(campaign) THEN Paused(Linked(campaign))
    ELSE IF repo.dirty THEN Linked(campaign)
    ELSE campaign

(* checkout_and_reset of the dev branch, or of the stable one when dev cannot *)
(* be imported (safe_restart).                                                *)
CheckedOut ==
    \E onStable \in BOOLEAN :
        /\ onStable => repo.dev > 0
        /\ repo' = [repo EXCEPT !.dirty = FALSE, !.stable = onStable]

Boot ==
    /\ life = "down"
    /\ lives < MaxLives
    /\ life' = "up"
    /\ lives' = lives + 1
    /\ phase' = "drain"
    /\ campaign' = BootedCampaign
    /\ st' = [st EXCEPT !.enabled = st.enabled /\ ~Protected(campaign)]
    /\ IF Protected(campaign) THEN UNCHANGED repo ELSE CheckedOut
    /\ booting' = TRUE
    /\ snapshot' = NoTask
    /\ UNCHANGED <<asking, draft, claim, task, events, madeIn, bounds>>

(* The process group of the server goes: queues, workers, unwritten copies.  *)
Down(next) ==
    /\ life' = next
    /\ phase' = "drain"
    /\ task' = NoTask
    /\ events' = <<>>
    /\ booting' = FALSE
    /\ asking' = FALSE
    /\ draft' = [a \in Actors |-> None]

(* The server crashes.                                                       *)
Crash ==
    /\ life = "up"
    /\ Down("down")
    /\ UNCHANGED <<lives, st, campaign, claim, repo, snapshot, madeIn, bounds>>

(* agent_lifecycle_loop gives up after too many crashes in its window.       *)
GiveUp ==
    /\ life = "down"
    /\ lives > 0
    /\ life' = "stopped"
    /\ UNCHANGED <<asking, lives, phase, st, campaign, draft, claim, repo,
                   task, booting, events, snapshot, madeIn, bounds>>
-----------------------------------------------------------------------------
(* A worker process boots: verify_restart claims the file by renaming it, so *)
(* that one process alone verifies, and marks the campaign.                  *)
BootClaims ==
    /\ life = "up"
    /\ booting
    /\ draft["boot"] = None
    /\ claim # NoClaim
    /\ claim' = NoClaim
    /\ IF campaign.tx = NoTx
           THEN booting' = FALSE /\ UNCHANGED draft
           ELSE /\ Prepare("boot", Verified(campaign, claim, HeadCommit), "proceed", 0)
                /\ UNCHANGED booting
    /\ UNCHANGED <<asking, life, lives, phase, st, campaign, repo, task,
                   events, snapshot, madeIn, bounds>>

BootFindsNothing ==
    /\ life = "up"
    /\ booting
    /\ draft["boot"] = None
    /\ claim = NoClaim
    /\ booting' = FALSE
    /\ UNCHANGED <<asking, life, lives, phase, st, campaign, draft, claim,
                   repo, task, events, snapshot, madeIn, bounds>>

BootWrites ==
    /\ draft["boot"] # None
    /\ campaign' = draft["boot"].file
    /\ draft' = [draft EXCEPT !["boot"] = None]
    /\ booting' = FALSE
    /\ UNCHANGED <<asking, life, lives, phase, st, claim, repo, task, events,
                   snapshot, madeIn, bounds>>
-----------------------------------------------------------------------------
(* The worker that executes the evolution task.                              *)
Working == life = "up" /\ task # NoTask /\ task.at = "working" /\ draft["worker"] = None

Edit ==
    /\ Working
    /\ ~repo.dirty
    /\ repo' = [repo EXCEPT !.dirty = TRUE]
    /\ UNCHANGED <<asking, life, lives, phase, st, campaign, draft, claim,
                   task, booting, events, snapshot, madeIn, bounds>>

(* commit_reviewed: onto the dev branch, then the transaction is told.       *)
Commit ==
    /\ Working
    /\ repo.dirty
    /\ repo.dev < MaxCommits
    /\ repo' = [dev |-> repo.dev + 1, dirty |-> FALSE, stable |-> FALSE]
    /\ madeIn' = [madeIn EXCEPT ![repo.dev + 1] = lives]
    /\ task' = [task EXCEPT !.reviewed = repo.dev + 1]
    /\ IF IsActive(campaign, task.id)
           THEN Prepare("worker", Committed(campaign, task.id, repo.dev + 1), "proceed", 0)
           ELSE UNCHANGED draft
    /\ UNCHANGED <<asking, life, lives, phase, st, campaign, claim, booting,
                   events, snapshot, bounds>>

(* request_restart, unless _evolution_restart_block_reason refuses it: HEAD  *)
(* is the last reviewed commit, if there is one, and the tree is clean.      *)
RequestRestart ==
    /\ Working
    /\ ~repo.dirty
    /\ task.reviewed \in {0, HeadCommit}
    /\ claim' = HeadCommit
    /\ task' = [task EXCEPT !.reviewed = 0, !.wants = TRUE]
    /\ IF IsActive(campaign, task.id)
           THEN Prepare("worker", RestartAsked(campaign, task.id), "proceed", 0)
           ELSE UNCHANGED draft
    /\ UNCHANGED <<asking, life, lives, phase, st, campaign, repo, booting,
                   events, snapshot, madeIn, bounds>>

WorkerWrites ==
    /\ draft["worker"] # None
    /\ campaign' = draft["worker"].file
    /\ draft' = [draft EXCEPT !["worker"] = None]
    /\ UNCHANGED <<asking, life, lives, phase, st, claim, repo, task, booting,
                   events, snapshot, madeIn, bounds>>

(* emit_task_results: task_done, and then the restart that was asked for.    *)
Report ==
    /\ Working
    /\ task' = [task EXCEPT !.at = "reported"]
    /\ \E ok \in BOOLEAN : events' = Append(events, Done(task.id, 0, ok))
    /\ asking' = (asking \/ task.wants)
    /\ UNCHANGED <<life, lives, phase, st, campaign, draft, claim, repo,
                   booting, snapshot, madeIn, bounds>>

AskRestart ==
    /\ asking
    /\ asking' = FALSE
    /\ events' = Append(events, [type |-> "restart"])
    /\ UNCHANGED <<life, lives, phase, st, campaign, draft, claim, repo, task,
                   booting, snapshot, madeIn, bounds>>

WorkerDies ==
    /\ life = "up"
    /\ task # NoTask
    /\ task.at = "working"
    /\ bounds.faults > 0
    /\ bounds' = [bounds EXCEPT !.faults = @ - 1]
    /\ task' = [task EXCEPT !.at = "dead"]
    /\ draft' = WithoutWorker
    /\ UNCHANGED <<asking, life, lives, phase, st, campaign, claim, repo,
                   booting, events, snapshot, madeIn>>
-----------------------------------------------------------------------------
(* ensure_workers_healthy: the task of a dead worker fails (killed by a      *)
(* signal, or no attempt left), is cancelled when evolution was stopped, or  *)
(* is queued again under its id.                                             *)
MayRetry == task.attempt <= MaxRetries /\ st.enabled

(* A seeded bug: stopped or not, the task is tried again.                    *)
RetriedAnyway == task.attempt <= MaxRetries

WillRetry == MayRetry

ReapFails ==
    /\ In("act")
    /\ task # NoTask
    /\ task.at = "dead"
    /\ events' = Append(events, Done(task.id, 0, FALSE))
    /\ task' = NoTask
    /\ booting' = TRUE
    /\ UNCHANGED <<asking, life, lives, phase, st, campaign, draft, claim,
                   repo, snapshot, madeIn, bounds>>

ReapRetries ==
    /\ In("act")
    /\ task # NoTask
    /\ task.at = "dead"
    /\ WillRetry
    /\ task' = [task EXCEPT !.at = "pending", !.attempt = @ + 1,
                            !.reviewed = 0, !.wants = FALSE]
    /\ snapshot' = task'
    /\ booting' = TRUE
    /\ UNCHANGED <<asking, life, lives, phase, st, campaign, draft, claim,
                   repo, events, madeIn, bounds>>

(* _handle_task_done: the cycle is tallied with the metadata of its RUNNING  *)
(* entry, or of the event; a task that failed counts towards the pause.      *)
DrainDone ==
    /\ In("drain")
    /\ events # <<>>
    /\ Head(events).type = "done"
    /\ events' = Tail(events)
    /\ LET e == Head(events)
           mine == Running /\ task.id = e.id
           meta == IF mine THEN task.tx ELSE e.meta
       IN  /\ task' = IF mine THEN NoTask ELSE task
           /\ Prepare("supervisor", Tallied(campaign, e.id, meta),
                      IF Replayed(campaign, e.id, meta) THEN "replayed"
                      ELSE IF e.ok THEN "succeeded" ELSE "failed", 0)
    /\ UNCHANGED <<asking, life, lives, phase, st, campaign, claim, repo,
                   booting, snapshot, madeIn, bounds>>

(* The campaign is written, then the failures are counted.                   *)
TallyWrites ==
    /\ draft["supervisor"] # None
    /\ draft["supervisor"].then \in {"replayed", "succeeded", "failed"}
    /\ campaign' = draft["supervisor"].file
    /\ st' = CASE draft["supervisor"].then = "replayed" -> st
               [] draft["supervisor"].then = "succeeded" -> [st EXCEPT !.failures = 0]
               [] OTHER -> [st EXCEPT !.failures = @ + 1]
    /\ draft' = [draft EXCEPT !["supervisor"] = None]
    /\ UNCHANGED <<asking, life, lives, phase, claim, repo, task, booting,
                   events, snapshot, madeIn, bounds>>

(* _handle_restart_in_supervisor.  A dirty tree, or branches that cannot be  *)
(* imported, keep the server up and pause evolution; otherwise the workers   *)
(* are killed, the (emptied) queue is saved and the process exits with 42.   *)
RestartGoes ==
    /\ In("drain")
    /\ events # <<>>
    /\ Head(events).type = "restart"
    /\ ~repo.dirty
    /\ CheckedOut
    /\ snapshot' = NoTask
    /\ Down("down")
    /\ UNCHANGED <<lives, st, campaign, claim, madeIn, bounds>>

RestartBlocked ==
    /\ In("drain")
    /\ events # <<>>
    /\ Head(events).type = "restart"
    /\ events' = Tail(events)
    /\ \/ /\ repo.dirty
          /\ Prepare("supervisor", Linked(campaign), "pause", 0)
       \/ ~repo.dirty /\ Prepare("supervisor", campaign, "pause", 0)
    /\ UNCHANGED <<asking, life, lives, phase, st, campaign, claim, repo, task,
                   booting, snapshot, madeIn, bounds>>

(* The rescue is linked; now evolution is disabled and the campaign paused.  *)
PauseAfterRescue ==
    /\ draft["supervisor"] # None
    /\ draft["supervisor"].then = "pause"
    /\ campaign' = draft["supervisor"].file
    /\ st' = [st EXCEPT !.enabled = FALSE]
    /\ Prepare("supervisor", Paused(draft["supervisor"].file), "proceed", 0)
    /\ UNCHANGED <<asking, life, lives, phase, claim, repo, task, booting,
                   events, snapshot, madeIn, bounds>>

DrainEnd ==
    /\ In("drain")
    /\ events = <<>>
    /\ phase' = "act"
    /\ UNCHANGED <<asking, life, lives, st, campaign, draft, claim, repo, task,
                   booting, events, snapshot, madeIn, bounds>>

(* enforce_task_timeouts: the worker is killed and replaced; the task fails  *)
(* or is queued again, under a new id but with the metadata it had.          *)
TimeoutFails ==
    /\ In("act")
    /\ Running
    /\ ~WillRetry
    /\ events' = Append(events, Done(task.id, task.tx, FALSE))
    /\ task' = NoTask
    /\ draft' = WithoutWorker
    /\ booting' = TRUE
    /\ UNCHANGED <<asking, life, lives, phase, st, campaign, claim, repo,
                   snapshot, madeIn, bounds>>

TimeoutRetries ==
    /\ In("act")
    /\ Running
    /\ WillRetry
    /\ bounds.nextId \in Ids
    /\ task' = [task EXCEPT !.id = bounds.nextId, !.at = "pending", !.attempt = @ + 1,
                            !.reviewed = 0, !.wants = FALSE]
    /\ bounds' = [bounds EXCEPT !.nextId = @ + 1]
    /\ snapshot' = task'
    /\ draft' = WithoutWorker
    /\ booting' = TRUE
    /\ UNCHANGED <<asking, life, lives, phase, st, campaign, claim, repo,
                   events, madeIn>>

(* enqueue_evolution_task_if_needed: idle, enabled, no commit to verify.     *)
(* Three failures, light mode or the budget reserve pause the campaign;      *)
(* otherwise it is started, a transaction begun, the task queued.            *)
MayEvolve ==
    /\ In("act")
    /\ task = NoTask
    /\ st.enabled
    /\ ~AwaitsRestart(campaign)

EvolveRefused ==
    /\ MayEvolve
    /\ st' = [st EXCEPT !.enabled = FALSE]
    /\ Prepare("supervisor", Paused(campaign), "proceed", 0)
    /\ UNCHANGED <<asking, life, lives, phase, campaign, claim, repo, task,
                   booting, events, snapshot, madeIn, bounds>>

EvolveStarts ==
    /\ MayEvolve
    /\ st.failures < MaxFailures
    /\ bounds.nextId \in Ids
    /\ Prepare("supervisor", Started(campaign), "begin", bounds.nextId)
    /\ bounds' = [bounds EXCEPT !.nextId = @ + 1]
    /\ UNCHANGED <<asking, life, lives, phase, st, campaign, claim, repo, task,
                   booting, events, snapshot, madeIn>>

(* begin_evolution_transaction reads the file that was just written.         *)
EvolveBegins ==
    /\ draft["supervisor"] # None
    /\ draft["supervisor"].then = "begin"
    /\ campaign' = draft["supervisor"].file
    /\ Prepare("supervisor", Begun(campaign', draft["supervisor"].id), "enqueue",
               draft["supervisor"].id)
    /\ UNCHANGED <<asking, life, lives, phase, st, claim, repo, task, booting,
                   events, snapshot, madeIn, bounds>>

EvolveEnqueues ==
    /\ draft["supervisor"] # None
    /\ draft["supervisor"].then = "enqueue"
    /\ campaign' = draft["supervisor"].file
    /\ task' = [id |-> draft["supervisor"].id, tx |-> draft["supervisor"].id,
                attempt |-> 1, at |-> "pending", reviewed |-> 0, wants |-> FALSE]
    /\ draft' = [draft EXCEPT !["supervisor"] = None]
    /\ UNCHANGED <<asking, life, lives, phase, st, claim, repo, booting,
                   events, snapshot, madeIn, bounds>>

(* assign_tasks: to an idle worker, or, in light mode and below the reserve, *)
(* out of PENDING without a task_done.                                       *)
Assign ==
    /\ In("act")
    /\ task # NoTask
    /\ task.at = "pending"
    /\ task' = [task EXCEPT !.at = "working"]
    /\ snapshot' = NoTask
    /\ UNCHANGED <<asking, life, lives, phase, st, campaign, draft, claim,
                   repo, booting, events, madeIn, bounds>>

AssignDrops ==
    /\ In("act")
    /\ task # NoTask
    /\ task.at = "pending"
    /\ task' = NoTask
    /\ snapshot' = NoTask
    /\ UNCHANGED <<asking, life, lives, phase, st, campaign, draft, claim,
                   repo, booting, events, madeIn, bounds>>

(* persist_queue_snapshot at the end of the tick.                            *)
TickEnd ==
    /\ In("act")
    /\ snapshot' = IF task # NoTask /\ task.at = "pending" THEN task ELSE NoTask
    /\ phase' = "drain"
    /\ UNCHANGED <<asking, life, lives, st, campaign, draft, claim, repo, task,
                   booting, events, madeIn, bounds>>
-----------------------------------------------------------------------------
(* The owner: /evolve on and off (toggle_evolution does the same), /restart, *)
(* /panic.                                                                   *)
EvolveOn ==
    /\ In("act")
    /\ bounds.faults > 0
    /\ bounds' = [bounds EXCEPT !.faults = @ - 1]
    /\ st' = [enabled |-> TRUE, failures |-> 0]
    /\ Prepare("supervisor", Started(campaign), "proceed", 0)
    /\ UNCHANGED <<asking, life, lives, phase, campaign, claim, repo, task,
                   booting, events, snapshot, madeIn>>

EvolveOff ==
    /\ In("act")
    /\ bounds.faults > 0
    /\ bounds' = [bounds EXCEPT !.faults = @ - 1]
    /\ st' = [st EXCEPT !.enabled = FALSE]
    /\ Prepare("supervisor", Paused(campaign), "cancel", 0)
    /\ UNCHANGED <<asking, life, lives, phase, campaign, claim, repo, task,
                   booting, events, snapshot, madeIn>>

(* cancel_running_evolution_tasks kills the worker of a running cycle; a     *)
(* pending one is filtered out of PENDING.                                   *)
OffCancels ==
    /\ draft["supervisor"] # None
    /\ draft["supervisor"].then = "cancel"
    /\ campaign' = draft["supervisor"].file
    /\ draft' = [WithoutWorker EXCEPT !["supervisor"] = None]
    /\ task' = NoTask
    /\ events' = IF Running THEN Append(events, Done(task.id, task.tx, FALSE)) ELSE events
    /\ booting' = (booting \/ Running)
    /\ snapshot' = NoTask
    /\ UNCHANGED <<asking, life, lives, phase, st, claim, repo, madeIn,
                   bounds>>

(* A write after which the loop goes on where it is.                         *)
Proceed ==
    /\ draft["supervisor"] # None
    /\ draft["supervisor"].then = "proceed"
    /\ campaign' = draft["supervisor"].file
    /\ draft' = [draft EXCEPT !["supervisor"] = None]
    /\ UNCHANGED <<asking, life, lives, phase, st, claim, repo, task, booting,
                   events, snapshot, madeIn, bounds>>

OwnerRestart ==
    /\ In("act")
    /\ CheckedOut
    /\ campaign' = IF repo.dirty THEN Linked(campaign) ELSE campaign
    /\ snapshot' = NoTask
    /\ Down("down")
    /\ UNCHANGED <<lives, st, claim, madeIn, bounds>>

Panic ==
    /\ In("act")
    /\ st' = [st EXCEPT !.enabled = FALSE]
    /\ snapshot' = NoTask
    /\ Down("stopped")
    /\ UNCHANGED <<lives, campaign, claim, repo, madeIn, bounds>>

Loop ==
    \/ ReapFails \/ ReapRetries
    \/ DrainDone \/ TallyWrites \/ RestartGoes \/ RestartBlocked
    \/ PauseAfterRescue \/ DrainEnd
    \/ TimeoutFails \/ TimeoutRetries
    \/ EvolveRefused \/ EvolveStarts \/ EvolveBegins \/ EvolveEnqueues
    \/ Assign \/ AssignDrops \/ TickEnd
    \/ EvolveOn \/ EvolveOff \/ OffCancels \/ Proceed
    \/ OwnerRestart \/ Panic

Worker ==
    \/ Edit \/ Commit \/ RequestRestart \/ WorkerWrites
    \/ Report \/ AskRestart \/ WorkerDies

BootingWorker == BootClaims \/ BootFindsNothing \/ BootWrites

Launcher == Boot \/ Crash \/ GiveUp

Next == Loop \/ Worker \/ BootingWorker \/ Launcher

Spec == Init /\ [][Next]_vars
-----------------------------------------------------------------------------
(* A terminal event of a cycle may come twice (its worker's own, and that of *)
(* the cancel or timeout that killed the worker); the campaign's history     *)
(* never has the same row of a task and its transaction twice.               *)
RowsDistinct(f) ==
    \A i, j \in DOMAIN f.history : f.history[i] = f.history[j] => i = j
TalliedOncePerTransaction == RowsDistinct(campaign)

(* A replayed task_done leaves one row and one cycle                         *)
(* (tests/test_evolution_redesign.py): each task is tallied once.            *)
TalliedOnce ==
    \A i, j \in DOMAIN campaign.history :
        campaign.history[i].task = campaign.history[j].task => i = j

(* However the writes of the three processes overwrite each other, no commit *)
(* is counted as absorbed twice.                                             *)
AbsorbedOnceIn(f) ==
    \A i, j \in DOMAIN f.absorbed : f.absorbed[i] = f.absorbed[j] => i = j
AbsorbedOnce == AbsorbedOnceIn(campaign)

(* After evolution was switched off, by whatever path, nothing queues a      *)
(* cycle again: no new one and no retry of a killed or dead one.             *)
StopIsFinal ==
    [][task' # task /\ task' # NoTask /\ task'.at = "pending" => st.enabled]_vars

(* An unfinished cycle's edits outlive a restart of the server that the      *)
(* owner did not ask for.                                                    *)
EditsSurviveBoot ==
    [][Boot /\ UnfinishedCycle(campaign) /\ repo.dirty => repo'.dirty]_vars

(* "an absorbed cycle requires a reviewed self-mod commit plus successful    *)
(* startup restart verification of that commit" (docs/ARCHITECTURE.md).      *)
AbsorbedAfterRestart ==
    [][\A c \in Commits :
          (\E i \in DOMAIN campaign'.absorbed : campaign'.absorbed[i] = c)
             /\ ~(\E i \in DOMAIN campaign.absorbed : campaign.absorbed[i] = c)
          => madeIn[c] < lives]_vars

(* "save queue state for crash recovery" (docs/ARCHITECTURE.md): what was    *)
(* pending when the server went down is pending when it is up again.         *)
PendingSurvivesRestart ==
    [][life = "down" /\ life' = "up" /\ snapshot # NoTask => task' # NoTask]_vars
=============================================================================
