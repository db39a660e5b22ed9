----------------------------- MODULE TaskQueue ------------------------------
(* The supervisor's task queue: PENDING, RUNNING and the worker slots        *)
(* (supervisor/queue.py, workers.py, events.py), the worker processes that   *)
(* execute tasks, the durable result files, and the two threads of the       *)
(* server that touch the queue: the supervisor's main loop and the HTTP      *)
(* event loop.                                                               *)
(*                                                                           *)
(* _queue_lock is taken by assign_tasks, cancel_task_by_id, kill_workers and *)
(* check_scheduled_tasks; enqueue_task, enforce_task_timeouts,               *)
(* ensure_workers_healthy and the event handlers change the same structures  *)
(* without it.  A handler is one action where every other actor's steps      *)
(* commute with it or the lock keeps them out, and is split where another    *)
(* thread's step in between changes the outcome.  A guarded write of a       *)
(* result is one step here (TaskResults splits it).                          *)
(*                                                                           *)
(* Time is abstract: a timeout may be reached at any scan, a grace period    *)
(* may end at any later one, crashes may age out of the storm window at any  *)
(* time.  Evolution tasks are not among Ids.                                 *)
EXTENDS TaskStatus, SequencesExt

CONSTANTS
    Ids,            \* task ids
    RetryIds,       \* the ids uuid4 gives to timeout retries
    Workers,        \* worker slots
    None,           \* no id, no worker
    HttpIds,        \* ids posted to POST /api/tasks
    CronIds,        \* ids of due scheduled tasks
    OwnerIds,       \* ids queued for the owner with no result written first
    Subagents,      \* ids a running agent schedules as subagents
    Forked,         \* ids with a child drive of their own
    ChatIds,        \* ids with a chat_id, whose teardown emits task_done
    Deadlined,      \* ids with a deadline_at
    HttpCancels,    \* ids cancelled by POST /api/tasks/{id}/cancel
    AgentCancels,   \* ids cancelled by the cancel_task tool
    Priority,       \* Priority[id]: the task's priority, smaller is sooner
    MaxRetries,     \* QUEUE_MAX_RETRIES
    MaxSubagents,   \* get_max_active_subagents_per_root()
    StormSize,      \* crashes within the window that make a storm
    MaxDeaths,      \* bound: how many worker processes die by themselves
    MaxCancels,     \* bound: how many cancels are requested
    BudgetEnds      \* whether the budget may run out

ASSUME TaskQueueAssumption ==
    /\ None \notin Ids \cup Workers
    /\ RetryIds \cup HttpIds \cup CronIds \cup OwnerIds \cup Subagents \subseteq Ids
    /\ Subagents \subseteq Forked \cap ChatIds
    /\ Forked \cup ChatIds \cup Deadlined \cup HttpCancels \cup AgentCancels \subseteq Ids
    /\ Priority \in [Ids -> Nat]
    /\ {MaxRetries, MaxSubagents, MaxDeaths, MaxCancels} \subseteq Nat
    /\ StormSize \in Nat \ {0}
    /\ BudgetEnds \in BOOLEAN

VARIABLES
    pending,    \* PENDING, sorted
    running,    \* RUNNING: an entry per running task id
    slot,       \* WORKERS[w].busy_task_id
    pool,       \* FALSE once kill_workers has cleared WORKERS
    proc,       \* the process in each worker slot
    events,     \* EVENT_Q: what the workers put there
    notices,    \* EVENT_Q: the ids of the supervisor's own task_done events
    result,     \* the status in task_results/<id>.json of the data root
    child,      \* the status in the child drive's result file
    successor,  \* the retry whose supersedes_task_id names the task
    phase,      \* where the main loop is
    todo,       \* enforce_task_timeouts: what is left of its list of RUNNING
    sweep,      \* _drop_cancelled_pending: its loop and the survivors so far
    storm,      \* dead workers seen in this health pass, CRASH_TS
    cancel,     \* the call of cancel_task_by_id that holds the lock
    http,       \* the HTTP task between its result and its enqueue
    spent,      \* the budget is exhausted
    starts,     \* history: how often a task, with its retries, was started
    bounds      \* what MaxDeaths, MaxCancels and OwnerIds have left

queueVars == <<pending, running, slot, pool>>
fileVars == <<result, child, successor>>
loopVars == <<phase, todo, sweep, storm>>
eventVars == <<events, notices>>
vars == <<queueVars, proc, eventVars, fileVars, loopVars, cancel, http, spent,
          starts, bounds>>

Tasks == [id : Ids, origin : Ids, attempt : Nat]

NotRunning == [kind |-> "none"]
Entries == [kind : {"entry"}, task : Tasks, worker : Workers, grace : BOOLEAN]

Idle == [kind |-> "idle"]
Busy == [kind : {"working", "stored"}, task : Tasks]
Fresh == [state |-> "up", inbox |-> <<>>, does |-> Idle]
Processes ==
    [state : {"up", "exited", "signalled"}, inbox : Seq(Tasks),
     does : Busy \cup {Idle}]

Events == [kind : {"task_done", "schedule", "cancel"}, id : Ids, by : Workers]

NoCancel == [by |-> "nobody", id |-> None, at |-> 0, worker |-> None]
Cancels ==
    [by : {"main", "http"}, id : Ids, at : Nat, worker : Workers \cup {None}]

NoSweep == [at |-> 0, keep |-> <<>>, dropped |-> FALSE]

TypeOK ==
    /\ pending \in Seq(Tasks)
    /\ running \in [Ids -> Entries \cup {NotRunning}]
    /\ slot \in [Workers -> Ids \cup {None}]
    /\ pool \in BOOLEAN
    /\ proc \in [Workers -> Processes]
    /\ events \in Seq(Events)
    /\ notices \in SUBSET Ids
    /\ result \in [Ids -> Files]
    /\ child \in [Ids -> Files]
    /\ successor \in [Ids -> Ids \cup {None}]
    /\ phase \in {"health", "drain", "timeouts", "produce", "drop", "assign"}
    /\ todo \in [Ids -> Entries \cup {NotRunning}]
    /\ sweep \in [at : Nat, keep : Seq(Tasks), dropped : BOOLEAN]
    /\ storm \in [dead : Nat, busy : BOOLEAN, recent : Nat]
    /\ cancel \in Cancels \cup {NoCancel}
    /\ http \in Ids \cup {None}
    /\ spent \in BOOLEAN
    /\ starts \in [Ids -> Nat]
    /\ bounds \in [deaths : Nat, cancels : Nat, owner : SUBSET Ids]

Init ==
    /\ pending = <<>>
    /\ running = [id \in Ids |-> NotRunning]
    /\ slot = [w \in Workers |-> None]
    /\ pool = TRUE
    /\ proc = [w \in Workers |-> Fresh]
    /\ events = <<>>
    /\ notices = {}
    /\ result = [id \in Ids |-> NoResult]
    /\ child = [id \in Ids |-> NoResult]
    /\ successor = [id \in Ids |-> None]
    /\ phase = "health"
    /\ todo = [id \in Ids |-> NotRunning]
    /\ sweep = NoSweep
    /\ storm = [dead |-> 0, busy |-> FALSE, recent |-> 0]
    /\ cancel = NoCancel
    /\ http = None
    /\ spent = FALSE
    /\ starts = [id \in Ids |-> 0]
    /\ bounds = [deaths |-> MaxDeaths, cancels |-> MaxCancels, owner |-> OwnerIds]
-----------------------------------------------------------------------------
IsRunning(id) == running[id] # NotRunning

Queued(id) == \E i \in DOMAIN pending : pending[i].id = id

(* A task as it is first queued. *)
New(id) == [id |-> id, origin |-> id, attempt |-> 1]

(* enqueue_task and sort_pending: the slot the (priority, sequence) key      *)
(* gives the new task; front takes a negative sequence number.               *)
Enqueued(queue, task, front) ==
    LET Sooner(t) == \/ Priority[t.origin] < Priority[task.origin]
                     \/ ~front /\ Priority[t.origin] = Priority[task.origin]
    IN  InsertAt(queue,
                 Cardinality({i \in DOMAIN queue : Sooner(queue[i])}) + 1, task)

(* write_task_result on the data root, guarded. *)
Written(id, status) ==
    [result EXCEPT ![id] = Guarded(result[id], status)]

(* _emit_task_done_terminal and _emit_cancel_task_done: only tasks with a    *)
(* chat have one emitted.                                                    *)
Notified(tasks) == notices \cup {t.id : t \in {u \in tasks : u.origin \in ChatIds}}

(* Seeded bugs, each named for what is wrong, stand before the definition    *)
(* they would replace; no action uses them.                                  *)
NeverPopped(id) == running
Blanked(id) == [running EXCEPT ![id] = None]

(* RUNNING.pop(id, None) *)
Without(id) == [running EXCEPT ![id] = NotRunning]

NotTerminated(w) == proc

(* The process of the slot is terminated and a new one started. *)
Respawned(w) == [proc EXCEPT ![w] = Fresh]

NotCounted(task, id) == [task EXCEPT !.id = id]

(* The task of one more attempt, under the same id or another. *)
Again(task, id) == [task EXCEPT !.id = id, !.attempt = @ + 1]

OnlyCompleted(id) == result[id] = "completed"

(* Its durable status is terminal. *)
Finished(id) == result[id] \in TrulyTerminal

NoLock == FALSE

(* A thread holds _queue_lock. *)
Locked == cancel # NoCancel \/ phase \in {"drop", "assign"}

(* The main loop is in phase p and not inside cancel_task_by_id. *)
In(p) == phase = p /\ cancel.by # "main"
-----------------------------------------------------------------------------
(* ensure_workers_healthy: the process of slot w is dead.  The four cases    *)
(* below settle the task it was busy with; the slot gets a fresh process.    *)
Reap(w) ==
    /\ In("health") /\ pool
    /\ proc[w].state # "up"
    /\ slot' = [slot EXCEPT ![w] = None]
    /\ proc' = Respawned(w)
    /\ storm' = [storm EXCEPT !.dead = @ + 1, !.busy = @ \/ slot[w] # None]
    /\ UNCHANGED <<pool, events, child, successor, phase, todo, sweep, cancel,
                   http, spent, starts, bounds>>

(* The slot is busy with a task that RUNNING has an entry for. *)
Tracked(w) == slot[w] # None /\ IsRunning(slot[w])

(* The entry goes. *)
ReapTask(w) ==
    /\ Reap(w)
    /\ Tracked(w)
    /\ running' = Without(slot[w])

ReapUntracked(w) ==
    /\ Reap(w)
    /\ ~Tracked(w)
    /\ UNCHANGED <<pending, running, notices, result>>

(* "Already terminal": nothing is requeued, task_done is emitted again. *)
ReapFinished(w) ==
    /\ ReapTask(w)
    /\ Finished(slot[w])
    /\ notices' = Notified({running[slot[w]].task})
    /\ UNCHANGED <<pending, result>>

(* A crash by a signal, or one crash too many: failed for good. *)
ReapFailed(w) ==
    /\ ReapTask(w)
    /\ ~Finished(slot[w])
    /\ \/ proc[w].state = "signalled"
       \/ running[slot[w]].task.attempt > MaxRetries
    /\ result' = Written(slot[w], "failed")
    /\ notices' = notices \cup {slot[w]}
    /\ UNCHANGED pending

ReapRetry(w) ==
    /\ ReapTask(w)
    /\ ~Finished(slot[w])
    /\ proc[w].state = "exited"
    /\ running[slot[w]].task.attempt <= MaxRetries
    /\ result' = Written(slot[w], "interrupted")
    /\ pending' = Enqueued(pending, Again(running[slot[w]].task, slot[w]), TRUE)
    /\ UNCHANGED notices

(* The crashes in the window once this pass has added its own; the others    *)
(* may have aged out.  (Every dead worker has been replaced, so the          *)
(* alternative that none is alive adds nothing.)                             *)
Crashes ==
    0 .. (IF storm.dead = 0 THEN storm.recent
          ELSE IF storm.busy THEN storm.recent + storm.dead ELSE 0)

HealthEnd ==
    /\ In("health")
    /\ pool => \A w \in Workers : proc[w].state = "up"
    /\ \E n \in Crashes :
          /\ n < StormSize
          /\ storm' = [dead |-> 0, busy |-> FALSE, recent |-> n]
    /\ phase' = "drain"
    /\ UNCHANGED <<queueVars, proc, eventVars, fileVars, todo, sweep, cancel,
                   http, spent, starts, bounds>>

(* A crash storm: kill_workers fails every running and pending task and      *)
(* leaves no worker.                                                         *)
CrashStorm ==
    /\ In("health") /\ ~Locked
    /\ pool => \A w \in Workers : proc[w].state = "up"
    /\ \E n \in Crashes : n >= StormSize
    /\ storm' = [dead |-> 0, busy |-> FALSE, recent |-> 0]
    /\ result' = [id \in Ids |->
            IF IsRunning(id) \/ Queued(id) THEN Guarded(result[id], "failed")
            ELSE result[id]]
    /\ notices' = Notified({running[id].task : id \in {i \in Ids : IsRunning(i)}}
                              \cup ToSet(pending))
    /\ pending' = <<>>
    /\ running' = [id \in Ids |-> NotRunning]
    /\ slot' = [w \in Workers |-> None]
    /\ pool' = FALSE
    /\ proc' = [w \in Workers |-> Fresh]
    /\ phase' = "drain"
    /\ UNCHANGED <<events, child, successor, todo, sweep, cancel, http, spent,
                   starts, bounds>>
-----------------------------------------------------------------------------
AnyTask(w, id, by) == w = by

(* The slot w to free for the task_done event of id that worker by sent. *)
Freed(w, id, by) == w = by /\ slot[w] = id

(* _handle_task_done: the child drive's result is copied back if the task is *)
(* in RUNNING, its entry goes, the slot the event names is freed if it is    *)
(* busy with the task, and a task without any result is failed.              *)
TaskDone(id, by) ==
    LET copied == IF /\ IsRunning(id)
                     /\ running[id].task.origin \in Forked
                     /\ child[id] # NoResult
                  THEN Guarded(result[id], child[id])
                  ELSE result[id]
    IN  /\ In("drain")
        /\ result' = [result EXCEPT ![id] =
                IF copied = NoResult THEN "failed" ELSE copied]
        /\ running' = Without(id)
        /\ slot' = [w \in Workers |-> IF Freed(w, id, by) THEN None ELSE slot[w]]
        /\ UNCHANGED <<pending, pool, proc, child, successor, loopVars, cancel,
                       http, spent, starts, bounds>>

DrainTaskDone ==
    /\ events # <<>> /\ Head(events).kind = "task_done"
    /\ TaskDone(Head(events).id, Head(events).by)
    /\ events' = Tail(events)
    /\ UNCHANGED notices

DrainNotice(id) ==
    /\ id \in notices
    /\ TaskDone(id, None)
    /\ notices' = notices \ {id}
    /\ UNCHANGED events

PendingSubagents == {i \in DOMAIN pending : pending[i].origin \in Subagents}
RunningSubagents == {id \in Ids : IsRunning(id) /\ running[id].task.origin \in Subagents}

(* A seeded bug: the loop over PENDING is missing. *)
OnlyRunning == Cardinality(RunningSubagents)

(* _active_subagent_count: those in PENDING and those in RUNNING (they all   *)
(* have the same root task here).                                            *)
ActiveSubagents == Cardinality(PendingSubagents) + Cardinality(RunningSubagents)

(* _handle_schedule_task refuses: no pool, too many active children, or the  *)
(* task is judged a duplicate of an active one.                              *)
DrainReject ==
    /\ In("drain")
    /\ events # <<>> /\ Head(events).kind = "schedule"
    /\ \/ /\ ~pool \/ ActiveSubagents >= MaxSubagents
          /\ result' = Written(Head(events).id, "failed")
       \/ /\ pool /\ ActiveSubagents \in 1 .. MaxSubagents - 1
          /\ result' = Written(Head(events).id, "rejected_duplicate")
    /\ events' = Tail(events)
    /\ UNCHANGED <<queueVars, proc, notices, child, successor, loopVars, cancel,
                   http, spent, starts, bounds>>

(* _handle_schedule_task accepts: queue first, then the scheduled status.    *)
DrainSchedule ==
    /\ In("drain")
    /\ events # <<>> /\ Head(events).kind = "schedule"
    /\ pool /\ ActiveSubagents < MaxSubagents
    /\ pending' = Enqueued(pending, New(Head(events).id), FALSE)
    /\ result' = Written(Head(events).id, "scheduled")
    /\ events' = Tail(events)
    /\ UNCHANGED <<running, slot, pool, proc, notices, child, successor, loopVars,
                   cancel, http, spent, starts, bounds>>

(* The first place of the task in PENDING, 0 if it has none. *)
FirstAt(id, i) ==
    IF Queued(id)
    THEN /\ i \in DOMAIN pending /\ pending[i].id = id
         /\ \A j \in 1 .. i - 1 : pending[j].id # id
    ELSE i = 0

(* cancel_task_by_id takes the lock and looks for the task in a copy of      *)
(* PENDING.                                                                  *)
CancelBegin(by, id) ==
    /\ ~Locked
    /\ \E i \in 0 .. Len(pending) :
          /\ FirstAt(id, i)
          /\ cancel' = [by |-> by, id |-> id, worker |-> None, at |-> i]
    /\ UNCHANGED <<queueVars, proc, notices, fileVars, loopVars, http, spent,
                   starts>>

DrainCancel ==
    /\ In("drain")
    /\ events # <<>> /\ Head(events).kind = "cancel"
    /\ CancelBegin("main", Head(events).id)
    /\ events' = Tail(events)
    /\ UNCHANGED bounds

(* The queue is drained; enforce_task_timeouts copies RUNNING. *)
DrainEnd ==
    /\ In("drain")
    /\ events = <<>> /\ notices = {}
    /\ phase' = "timeouts"
    /\ todo' = running
    /\ UNCHANGED <<queueVars, proc, eventVars, fileVars, sweep, storm, cancel,
                   http, spent, starts, bounds>>
-----------------------------------------------------------------------------
(* PENDING.pop(i), with the index found in the copy; the result of the task  *)
(* that was found there becomes cancelled.                                   *)
CancelPending ==
    /\ cancel.at # 0
    /\ pending' = RemoveAt(pending, cancel.at)
    /\ result' = Written(cancel.id, "cancelled")
    /\ notices' = Notified({t \in ToSet(pending) : t.id = cancel.id})
    /\ cancel' = NoCancel
    /\ UNCHANGED <<running, slot, pool, proc, events, child, successor, loopVars,
                   http, spent, starts, bounds>>

(* A worker is busy with the task: its entry goes, the result becomes        *)
(* cancelled and the process tree is killed.                                 *)
CancelRunning(w) ==
    /\ cancel # NoCancel /\ cancel.at = 0 /\ cancel.worker = None
    /\ pool /\ slot[w] = cancel.id
    /\ running' = Without(cancel.id)
    /\ result' = Written(cancel.id, "cancelled")
    /\ notices' = Notified({running[i].task :
                               i \in {j \in {cancel.id} : IsRunning(j)}})
    /\ proc' = [proc EXCEPT ![w] = [Fresh EXCEPT !.state = "signalled"]]
    /\ cancel' = [cancel EXCEPT !.worker = w]
    /\ UNCHANGED <<pending, slot, pool, events, child, successor, loopVars, http,
                   spent, starts, bounds>>

CancelRespawn ==
    /\ cancel # NoCancel /\ cancel.worker # None
    /\ slot' = [slot EXCEPT ![cancel.worker] = None]
    /\ proc' = Respawned(cancel.worker)
    /\ cancel' = NoCancel
    /\ UNCHANGED <<pending, running, pool, eventVars, fileVars, loopVars, http,
                   spent, starts, bounds>>

Forgotten(id) == FALSE

(* A cancel was requested and nobody has made it final. *)
Lingering(id) == result[id] = "cancel_requested"

(* The task is neither pending nor running: a lingering cancel request is    *)
(* made final, anything else is left alone.                                  *)
CancelMiss ==
    /\ cancel # NoCancel /\ cancel.at = 0 /\ cancel.worker = None
    /\ pool => \A w \in Workers : slot[w] # cancel.id
    /\ IF Lingering(cancel.id)
       THEN /\ result' = Written(cancel.id, "cancelled")
            /\ notices' = Notified({New(cancel.id)})
       ELSE UNCHANGED <<result, notices>>
    /\ cancel' = NoCancel
    /\ UNCHANGED <<queueVars, proc, events, child, successor, loopVars, http,
                   spent, starts, bounds>>

CancelStep ==
    CancelPending \/ (\E w \in Workers : CancelRunning(w)) \/ CancelRespawn \/ CancelMiss
-----------------------------------------------------------------------------
(* enforce_task_timeouts at an entry of its copy of RUNNING.                 *)
At(id) == In("timeouts") /\ todo[id] # NotRunning

(* Within its time, or within the grace period. *)
TimeoutPass(id) ==
    /\ At(id)
    /\ todo' = [todo EXCEPT ![id] = NotRunning]
    /\ UNCHANGED <<queueVars, proc, eventVars, fileVars, phase, sweep, storm,
                   cancel, http, spent, starts, bounds>>

Unrecorded(entry) == entry

(* finalization_requested_at, where the grace period starts, is recorded. *)
Graced(entry) == [entry EXCEPT !.grace = TRUE]

(* A limit is reached: the grace period starts, and RUNNING[task_id] = meta  *)
(* puts the copied entry (back) into RUNNING.                                *)
TimeoutGrace(id) ==
    /\ At(id)
    /\ ~todo[id].grace
    /\ running' = [running EXCEPT ![id] = Graced(todo[id])]
    /\ todo' = [todo EXCEPT ![id] = NotRunning]
    /\ UNCHANGED <<pending, slot, pool, proc, eventVars, fileVars, phase, sweep,
                   storm, cancel, http, spent, starts, bounds>>

(* The grace period is over: the entry goes and whatever process is in the   *)
(* slot the entry names is killed and replaced.                              *)
TimeoutStop(id) ==
    /\ At(id)
    /\ todo[id].grace
    /\ running' = Without(id)
    /\ slot' = [slot EXCEPT ![todo[id].worker] = None]
    /\ proc' = Respawned(todo[id].worker)
    /\ todo' = [todo EXCEPT ![id] = NotRunning]
    /\ UNCHANGED <<pool, events, child, phase, sweep, storm, cancel, http, spent,
                   starts, bounds>>

(* The deadline was reached or the retries are used up: failed. *)
TimeoutFail(id) ==
    /\ TimeoutStop(id)
    /\ \/ todo[id].task.origin \in Deadlined
       \/ todo[id].task.attempt > MaxRetries
    /\ result' = Written(id, "failed")
    /\ notices' = Notified({todo[id].task})
    /\ UNCHANGED <<pending, successor>>

(* A hard timeout with a retry left: a subagent keeps its id, any other task *)
(* gets a new one.                                                           *)
TimeoutRetry(id, retry) ==
    /\ TimeoutStop(id)
    /\ todo[id].task.attempt <= MaxRetries
    /\ IF todo[id].task.origin \in Subagents
       THEN retry = id /\ UNCHANGED successor
       ELSE /\ retry \in RetryIds /\ result[retry] = NoResult
            /\ successor' = [successor EXCEPT ![id] = retry]
    /\ result' = [result EXCEPT ![retry] = Guarded(@, "scheduled"),
                                ![id] = Guarded(result[id], "interrupted")]
    /\ pending' = Enqueued(pending, Again(todo[id].task, retry), TRUE)
    /\ UNCHANGED notices

TimeoutsEnd ==
    /\ In("timeouts")
    /\ \A id \in Ids : todo[id] = NotRunning
    /\ phase' = "produce"
    /\ UNCHANGED <<queueVars, proc, eventVars, fileVars, todo, sweep, storm,
                   cancel, http, spent, starts, bounds>>
-----------------------------------------------------------------------------
(* check_scheduled_tasks: a due task gets its result, then its place.        *)
CronDue(id) ==
    /\ In("produce") /\ ~Locked
    /\ id \in CronIds /\ result[id] = NoResult
    /\ result' = Written(id, "scheduled")
    /\ pending' = Enqueued(pending, New(id), FALSE)
    /\ UNCHANGED <<running, slot, pool, proc, eventVars, child, successor, loopVars,
                   cancel, http, spent, starts, bounds>>

(* queue_deep_self_review_task, on an owner's command at the end of the      *)
(* previous iteration: queued with no result file.                           *)
OwnerQueues(id) ==
    /\ In("health")
    /\ id \in bounds.owner
    /\ pending' = Enqueued(pending, New(id), FALSE)
    /\ bounds' = [bounds EXCEPT !.owner = @ \ {id}]
    /\ UNCHANGED <<running, slot, pool, proc, eventVars, fileVars, loopVars,
                   cancel, http, spent, starts>>

(* assign_tasks without budget: nothing is assigned. *)
AssignNothing ==
    /\ In("produce") /\ ~Locked
    /\ spent
    /\ phase' = "health"
    /\ UNCHANGED <<queueVars, proc, eventVars, fileVars, todo, sweep, storm,
                   cancel, http, spent, starts, bounds>>

(* assign_tasks takes the lock and goes into _drop_cancelled_pending. *)
AssignBegin ==
    /\ In("produce") /\ ~Locked
    /\ ~spent
    /\ phase' = "drop"
    /\ sweep' = [at |-> 1, keep |-> <<>>, dropped |-> FALSE]
    /\ UNCHANGED <<queueVars, proc, eventVars, fileVars, todo, storm, cancel,
                   http, spent, starts, bounds>>

AnyEnded(status) == status \in TrulyTerminal \cup {"cancel_requested", "interrupted"}
OnlyEnded(status) == status \in TrulyTerminal

(* The statuses that keep a pending task from being assigned. *)
Droppable(status) == status \in TrulyTerminal \cup {"cancel_requested"}

(* One step of its loop over PENDING: a cancelled task is made final and     *)
(* dropped, a finished one is dropped, any other survives.                   *)
DropStep ==
    /\ phase = "drop"
    /\ sweep.at \in DOMAIN pending
    /\ LET task == pending[sweep.at] IN
       /\ IF Lingering(task.id)
          THEN /\ result' = Written(task.id, "cancelled")
               /\ notices' = Notified({task})
          ELSE UNCHANGED <<result, notices>>
       /\ sweep' = IF Droppable(result[task.id])
                   THEN [sweep EXCEPT !.at = @ + 1, !.dropped = TRUE]
                   ELSE [sweep EXCEPT !.at = @ + 1, !.keep = Append(@, task)]
    /\ UNCHANGED <<queueVars, proc, events, child, successor, phase, todo, storm,
                   cancel, http, spent, starts, bounds>>

(* The loop is over. *)
DropDone ==
    /\ phase = "drop"
    /\ sweep.at > Len(pending)
    /\ sweep' = [sweep EXCEPT !.at = 0]
    /\ UNCHANGED <<queueVars, proc, eventVars, fileVars, phase, todo, storm,
                   cancel, http, spent, starts, bounds>>

(* PENDING[:] = survivors, if anything was dropped. *)
DropEnd ==
    /\ phase = "drop"
    /\ sweep.at = 0
    /\ pending' = IF sweep.dropped THEN sweep.keep ELSE pending
    /\ sweep' = NoSweep
    /\ phase' = "assign"
    /\ UNCHANGED <<running, slot, pool, proc, eventVars, fileVars, todo, storm,
                   cancel, http, spent, starts, bounds>>

(* The first pending task goes to a free worker. *)
Assign(w) ==
    /\ phase = "assign" /\ pool
    /\ slot[w] = None /\ pending # <<>>
    /\ LET task == Head(pending) IN
       /\ pending' = Tail(pending)
       /\ slot' = [slot EXCEPT ![w] = task.id]
       /\ proc' = [proc EXCEPT ![w].inbox = Append(@, task)]
       /\ running' = [running EXCEPT ![task.id] =
               [kind |-> "entry", task |-> task, worker |-> w, grace |-> FALSE]]
       /\ result' = IF task.origin \in Subagents
                    THEN Written(task.id, "running") ELSE result
       /\ starts' = [starts EXCEPT ![task.origin] = @ + 1]
    /\ UNCHANGED <<pool, eventVars, child, successor, loopVars, cancel, http, spent,
                   bounds>>

AssignEnd ==
    /\ phase = "assign"
    /\ pool => pending = <<>> \/ \A w \in Workers : slot[w] # None
    /\ phase' = "health"
    /\ UNCHANGED <<queueVars, proc, eventVars, fileVars, todo, sweep, storm,
                   cancel, http, spent, starts, bounds>>
-----------------------------------------------------------------------------
(* api_tasks_create: the result is written, then the task is enqueued on the *)
(* HTTP thread, which holds no lock.                                         *)
HttpCreate(id) ==
    /\ http = None /\ cancel.by # "http"
    /\ id \in HttpIds /\ result[id] = NoResult
    /\ result' = Written(id, "scheduled")
    /\ http' = id
    /\ UNCHANGED <<queueVars, proc, eventVars, child, successor, loopVars, cancel,
                   spent, starts, bounds>>

HttpEnqueue ==
    /\ http # None
    /\ pending' = Enqueued(pending, New(http), FALSE)
    /\ http' = None
    /\ UNCHANGED <<running, slot, pool, proc, eventVars, fileVars, loopVars, cancel,
                   spent, starts, bounds>>

(* api_task_cancel *)
HttpCancel(id) ==
    /\ http = None
    /\ id \in HttpCancels /\ bounds.cancels > 0
    /\ CancelBegin("http", id)
    /\ bounds' = [bounds EXCEPT !.cancels = @ - 1]
    /\ UNCHANGED events
-----------------------------------------------------------------------------
(* A worker process.  It reports to the drive of its task: the child drive   *)
(* of a forked task, the data root of any other.                             *)
Up(w) == pool /\ proc[w].state = "up"

Working(w) == Up(w) /\ proc[w].does # Idle /\ proc[w].does.kind = "working"

Report(task, status) ==
    IF task.origin \in Forked
    THEN child' = [child EXCEPT ![task.id] = Guarded(@, status)] /\ UNCHANGED result
    ELSE result' = Written(task.id, status) /\ UNCHANGED child

WorkerOnly ==
    UNCHANGED <<queueVars, notices, successor, loopVars, cancel, http, spent, starts>>

(* in_q.get, and the running status handle_task starts with. *)
Take(w) ==
    /\ Up(w) /\ proc[w].does = Idle /\ proc[w].inbox # <<>>
    /\ proc' = [proc EXCEPT ![w].inbox = Tail(@),
                            ![w].does = [kind |-> "working",
                                         task |-> Head(proc[w].inbox)]]
    /\ Report(Head(proc[w].inbox), "running")
    /\ WorkerOnly /\ UNCHANGED <<events, bounds>>

(* _store_task_result: the task is over; the events are not sent yet. *)
Store(w, status) ==
    /\ Working(w)
    /\ status \in {"completed", "failed"}
    /\ proc' = [proc EXCEPT ![w].does.kind = "stored"]
    /\ Report(proc[w].does.task, status)
    /\ WorkerOnly /\ UNCHANGED <<events, bounds>>

(* The task_done event reaches the queue. *)
Emit(w) ==
    /\ Up(w) /\ proc[w].does # Idle /\ proc[w].does.kind = "stored"
    /\ events' = Append(events, [kind |-> "task_done", by |-> w,
                                 id |-> proc[w].does.task.id])
    /\ proc' = [proc EXCEPT ![w].does = Idle]
    /\ WorkerOnly /\ UNCHANGED <<result, child, bounds>>

(* An exception out of handle_task: worker_main logs it and takes the next   *)
(* task; nothing is emitted.                                                 *)
Break(w) ==
    /\ Up(w) /\ proc[w].does # Idle
    /\ proc' = [proc EXCEPT ![w].does = Idle]
    /\ WorkerOnly /\ UNCHANGED <<events, result, child, bounds>>

(* The process dies by itself, with an exit code or from a signal. *)
Die(w, how) ==
    /\ Up(w) /\ bounds.deaths > 0
    /\ how \in {"exited", "signalled"}
    /\ proc' = [proc EXCEPT ![w] = [Fresh EXCEPT !.state = how]]
    /\ bounds' = [bounds EXCEPT !.deaths = @ - 1]
    /\ WorkerOnly /\ UNCHANGED <<events, result, child>>

(* schedule_subagent: requested, and a schedule event. *)
ScheduleSubagent(w, id) ==
    /\ Working(w)
    /\ id \in Subagents /\ result[id] = NoResult
    /\ result' = Written(id, "requested")
    /\ events' = Append(events, [kind |-> "schedule", id |-> id, by |-> w])
    /\ WorkerOnly /\ UNCHANGED <<proc, child, bounds>>

(* cancel_task: the cancel intent is latched, and a cancel event sent. *)
RequestCancel(w, id) ==
    /\ Working(w) /\ bounds.cancels > 0
    /\ id \in AgentCancels /\ result[id] # NoResult
    /\ result' = Written(id, "cancel_requested")
    /\ events' = Append(events, [kind |-> "cancel", id |-> id, by |-> w])
    /\ bounds' = [bounds EXCEPT !.cancels = @ - 1]
    /\ WorkerOnly /\ UNCHANGED <<proc, child>>

(* The costs the workers report exhaust the budget. *)
BudgetExhausted ==
    /\ BudgetEnds /\ ~spent
    /\ spent' = TRUE
    /\ UNCHANGED <<queueVars, proc, eventVars, fileVars, loopVars, cancel, http,
                   starts, bounds>>
-----------------------------------------------------------------------------
Health ==
    \/ \E w \in Workers : ReapUntracked(w) \/ ReapFinished(w) \/ ReapFailed(w)
                              \/ ReapRetry(w)
    \/ HealthEnd
    \/ CrashStorm

Drain ==
    \/ DrainTaskDone
    \/ \E id \in Ids : DrainNotice(id)
    \/ DrainReject
    \/ DrainSchedule
    \/ DrainCancel
    \/ DrainEnd

Timeouts ==
    \/ \E id \in Ids :
          \/ TimeoutPass(id) \/ TimeoutGrace(id) \/ TimeoutFail(id)
          \/ \E retry \in Ids : TimeoutRetry(id, retry)
    \/ TimeoutsEnd

AssignTasks ==
    \/ AssignNothing \/ AssignBegin \/ DropStep \/ DropDone \/ DropEnd
    \/ \E w \in Workers : Assign(w)
    \/ AssignEnd

Produce == \E id \in Ids : CronDue(id) \/ OwnerQueues(id)

MainLoop == Health \/ Drain \/ Timeouts \/ AssignTasks

Http ==
    \/ \E id \in Ids : HttpCreate(id) \/ HttpCancel(id)
    \/ HttpEnqueue

Worker(w) ==
    \/ Take(w) \/ Emit(w) \/ Break(w)
    \/ \E status \in {"completed", "failed"} : Store(w, status)
    \/ \E how \in {"exited", "signalled"} : Die(w, how)
    \/ \E id \in Ids : ScheduleSubagent(w, id) \/ RequestCancel(w, id)

Next ==
    \/ MainLoop \/ Produce \/ CancelStep \/ Http \/ BudgetExhausted
    \/ \E w \in Workers : Worker(w)

Spec == Init /\ [][Next]_vars
-----------------------------------------------------------------------------
(* The live process in slot w executes the task or has it in its inbox. *)
Holds(w, id) ==
    /\ Up(w)
    /\ \/ proc[w].does # Idle /\ proc[w].does.task.id = id
       \/ \E i \in DOMAIN proc[w].inbox : proc[w].inbox[i].id = id

(* No task id is in the hands of two worker processes at a time, whatever    *)
(* was retried, cancelled, crashed or reported late in between.              *)
SingleExecution ==
    \A id \in Ids, v, w \in Workers : Holds(v, id) /\ Holds(w, id) => v = w

(* _queue_lock has one holder: cancel_task_by_id never runs while            *)
(* assign_tasks drops and assigns.                                           *)
OneHolder == cancel # NoCancel => phase \notin {"drop", "assign"}

(* The index cancel_task_by_id found in its copy of PENDING exists in        *)
(* PENDING when it pops it, whatever was enqueued without the lock.          *)
PopInRange == cancel.at <= Len(pending)

(* get_max_active_subagents_per_root(): retries, late events and refusals    *)
(* never leave more of a root's subagents in the queue than the limit.       *)
SubagentsCapped ==
    Cardinality({id \in Subagents : Queued(id) \/ IsRunning(id)}) <= MaxSubagents

(* A RUNNING entry names a worker slot that is busy with that very task: it  *)
(* is what enforce_task_timeouts relies on when it kills the process in the  *)
(* slot, and ensure_workers_healthy when it looks the task up by the slot.   *)
RunningIsBusy ==
    \A id \in Ids : IsRunning(id) => pool /\ slot[running[id].worker] = id

(* QUEUE_MAX_RETRIES: crashes and timeouts together give a task no more than *)
(* its first start and the retries, under whatever ids.                      *)
StartsBounded == \A id \in Ids : starts[id] <= MaxRetries + 1

(* A task whose durable status says it will go on is somewhere the           *)
(* supervisor will find it: pending, in a worker slot, about to be enqueued, *)
(* or continued under another id.                                            *)
NothingIsLost ==
    \A id \in Ids :
        result[id] \in {"scheduled", "running", "interrupted"} =>
            \/ Queued(id)
            \/ \E w \in Workers : slot[w] = id
            \/ http = id
            \/ successor[id] # None

(* A task that is already terminal is never handed to a worker               *)
(* (_drop_cancelled_pending).                                                *)
TerminalNeverStarts ==
    [][\A id \in Ids, w \in Workers :
          slot[w] # id /\ slot'[w] = id => result[id] \notin TrulyTerminal]_vars

(* A timeout kills the process of the task that timed out and no other's.    *)
TimeoutsKillTheirOwn ==
    [][\A id \in Ids, w \in Workers :
          /\ phase = "timeouts" /\ todo' # todo
          /\ Holds(w, id) /\ proc'[w] = Fresh
          => todo[id] # NotRunning /\ todo'[id] = NotRunning]_vars

(* A cancelled task is not continued under another id. *)
CancelledNotRetried ==
    [][\A id \in Ids :
          result[id] = "cancelled" => successor'[id] = successor[id]]_vars

(* After a worker crash a task that already reached a terminal state is not  *)
(* requeued.                                                                 *)
FinishedNotRequeued ==
    [][\A id \in Ids :
          /\ phase = "health" /\ IsRunning(id) /\ Queued(id)' /\ ~Queued(id)
          => {result[id], child[id]} \cap TrulyTerminal = {}]_vars

(* The main loop runs, and time passes: a task that is running whenever the  *)
(* timeouts are looked at exceeds its limit, and later its grace period.     *)
(* Nothing is assumed of the workers.                                        *)
FairSpec ==
    /\ Spec
    /\ WF_vars(MainLoop) /\ WF_vars(CancelStep) /\ WF_vars(HttpEnqueue)
    /\ \A id \in Ids :
          /\ SF_vars(TimeoutGrace(id))
          /\ SF_vars(TimeoutFail(id) \/ \E retry \in Ids : TimeoutRetry(id, retry))

(* Every task whose result says scheduled ends in a terminal status or is    *)
(* superseded by its retry, however the workers behave.                      *)
EveryTaskSettles ==
    \A id \in Ids :
        result[id] = "scheduled" ~>
            result[id] \in TrulyTerminal \/ successor[id] # None

(* A cancel request is carried out or overtaken by the task's failure.       *)
CancelSettles ==
    \A id \in Ids :
        result[id] = "cancel_requested" ~> result[id] \in TrulyTerminal
=============================================================================
