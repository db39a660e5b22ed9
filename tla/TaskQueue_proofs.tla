-------------------------- MODULE TaskQueue_proofs --------------------------
(* Machine-checked facts about the task queue, for every set of tasks and    *)
(* workers, every number of retries, deaths and cancels.                     *)
EXTENDS TaskQueue, TLAPS, FiniteSetTheorems, SequenceTheorems

(* The entries of a queue that sort before a new one are some of its own. *)
LEMMA SlotInRange ==
    ASSUME NEW S, NEW q \in Seq(S), NEW I \in SUBSET DOMAIN q
    PROVE  Cardinality(I) \in 0 .. Len(q)
  <1>1. DOMAIN q = 1 .. Len(q) /\ Len(q) \in Nat
    BY LenProperties
  <1>2. IsFiniteSet(1 .. Len(q)) /\ Cardinality(1 .. Len(q)) = Len(q)
    <2>1. 1 \in Int /\ Len(q) \in Int
      BY <1>1
    <2>2. /\ IsFiniteSet(1 .. Len(q))
          /\ Cardinality(1 .. Len(q)) = IF 1 > Len(q) THEN 0 ELSE Len(q) - 1 + 1
      BY ONLY <2>1, FS_Interval
    <2>3. QED
      BY <1>1, <2>2
  <1>3. IsFiniteSet(I) /\ Cardinality(I) <= Len(q)
    BY <1>1, <1>2, FS_Subset
  <1>4. QED
    BY <1>1, <1>3, FS_CardinalityType

LEMMA ConcatType ==
    ASSUME NEW S, NEW s \in Seq(S), NEW t \in Seq(S)
    PROVE  s \o t \in Seq(S) /\ Len(s \o t) = Len(s) + Len(t)
  BY ConcatProperties

LEMMA InsertAtType ==
    ASSUME NEW S, NEW q \in Seq(S), NEW e \in S, NEW i \in 1 .. Len(q) + 1
    PROVE  InsertAt(q, i, e) \in Seq(S) /\ Len(InsertAt(q, i, e)) = Len(q) + 1
  <1>1. Len(q) \in Nat /\ \A j \in 1 .. Len(q) : q[j] \in S
    BY LenProperties, ElementOfSeq
  <1> DEFINE before == SubSeq(q, 1, i-1)
             after == SubSeq(q, i, Len(q))
             middle == before \o <<e>>
  <1>2. before \in Seq(S) /\ Len(before) = i-1
    <2>1. \A j \in 1 .. i-1 : q[j] \in S
      BY <1>1
    <2>2. QED
      BY <1>1, <2>1, SubSeqProperties
  <1>3. after \in Seq(S) /\ Len(after) = Len(q) - i + 1
    <2>1. \A j \in i .. Len(q) : q[j] \in S
      BY <1>1
    <2>2. QED
      BY <1>1, <2>1, SubSeqProperties
  <1>4. <<e>> \in Seq(S) /\ Len(<<e>>) = 1
    OBVIOUS
  <1>5. InsertAt(q, i, e) = middle \o after
    BY DEF InsertAt
  <1> HIDE DEF before, after
  <1>6. middle \in Seq(S) /\ Len(middle) = i
    BY <1>1, <1>2, <1>4, ConcatType
  <1> HIDE DEF middle
  <1>7. middle \o after \in Seq(S) /\ Len(middle \o after) = i + (Len(q) - i + 1)
    BY <1>3, <1>6, ConcatType
  <1>8. QED
    BY <1>1, <1>5, <1>7

(* enqueue_task adds one task to PENDING. *)
LEMMA EnqueuedType ==
    ASSUME NEW q \in Seq(Tasks), NEW t \in Tasks, NEW front \in BOOLEAN
    PROVE  Enqueued(q, t, front) \in Seq(Tasks) /\ Len(Enqueued(q, t, front)) = Len(q) + 1
  <1> DEFINE Sooner(u) == \/ Priority[u.origin] < Priority[t.origin]
                          \/ ~front /\ Priority[u.origin] = Priority[t.origin]
             I == {i \in DOMAIN q : Sooner(q[i])}
  <1>1. Cardinality(I) \in 0 .. Len(q)
    <2>1. I \in SUBSET DOMAIN q
      OBVIOUS
    <2>2. QED
      BY <2>1, SlotInRange
  <1>2. Cardinality(I) + 1 \in 1 .. Len(q) + 1
    BY <1>1, LenProperties
  <1>3. QED
    BY <1>2, InsertAtType DEF Enqueued

LEMMA RemoveAtType ==
    ASSUME NEW S, NEW q \in Seq(S), NEW i \in 1 .. Len(q)
    PROVE  RemoveAt(q, i) \in Seq(S) /\ Len(RemoveAt(q, i)) = Len(q) - 1
  <1>1. Len(q) \in Nat /\ \A j \in 1 .. Len(q) : q[j] \in S
    BY LenProperties, ElementOfSeq
  <1> DEFINE before == SubSeq(q, 1, i-1)
             after == SubSeq(q, i+1, Len(q))
  <1>2. before \in Seq(S) /\ Len(before) = i-1
    <2>1. \A j \in 1 .. i-1 : q[j] \in S
      BY <1>1
    <2>2. QED
      BY <1>1, <2>1, SubSeqProperties
  <1>3. after \in Seq(S) /\ Len(after) = Len(q) - i
    <2>1. \A j \in i+1 .. Len(q) : q[j] \in S
      BY <1>1
    <2>2. QED
      BY <1>1, <2>1, SubSeqProperties
  <1>4. RemoveAt(q, i) = before \o after
    BY DEF RemoveAt
  <1> HIDE DEF before, after
  <1>5. before \o after \in Seq(S) /\ Len(before \o after) = (i-1) + (Len(q) - i)
    BY <1>2, <1>3, ConcatType
  <1>6. QED
    BY <1>1, <1>4, <1>5

(* A guarded write leaves a file status. *)
LEMMA GuardedType ==
    ASSUME NEW old \in Files, NEW new \in Files
    PROVE  Guarded(old, new) \in Files
  BY DEF Guarded

LEMMA StatusTypes ==
    /\ {"none", "requested", "scheduled", "running", "interrupted", "cancel_requested",
        "completed", "failed", "cancelled", "rejected_duplicate"} \subseteq Files
    /\ NoResult = "none"
  BY DEF Files, Statuses, Ranked, TrulyTerminal, NoResult

LEMMA WrittenType ==
    ASSUME TypeOK, NEW id \in Ids, NEW s \in Files
    PROVE  Written(id, s) \in [Ids -> Files]
  BY GuardedType DEF Written, TypeOK
(* The task_done events of a set of tasks name ids. *)
LEMMA NotifiedType ==
    ASSUME TypeOK, NEW T \in SUBSET Tasks
    PROVE  Notified(T) \in SUBSET Ids
  BY DEF Notified, TypeOK, Tasks

LEMMA EntryType ==
    ASSUME TypeOK, NEW id \in Ids, IsRunning(id)
    PROVE  /\ running[id] \in Entries
           /\ running[id].task \in Tasks
           /\ running[id].worker \in Workers
  BY DEF TypeOK, IsRunning, Entries

(* RUNNING.pop leaves a well-formed RUNNING. *)
LEMMA WithoutType ==
    ASSUME TypeOK, NEW id \in Ids
    PROVE  Without(id) \in [Ids -> Entries \cup {NotRunning}]
  BY DEF TypeOK, Without

LEMMA FreshType ==
    /\ Fresh \in Processes
    /\ \A how \in {"exited", "signalled"} : [Fresh EXCEPT !.state = how] \in Processes
  BY EmptySeq DEF Fresh, Processes

LEMMA RespawnedType ==
    ASSUME TypeOK, NEW w \in Workers
    PROVE  Respawned(w) \in [Workers -> Processes]
  BY FreshType DEF TypeOK, Respawned

LEMMA QueuedType ==
    ASSUME TypeOK
    PROVE  ToSet(pending) \in SUBSET Tasks
  BY ElementOfSeq, LenProperties DEF TypeOK, ToSet

LEMMA NewType ==
    ASSUME NEW id \in Ids
    PROVE  New(id) \in Tasks
  BY DEF New, Tasks

LEMMA AgainType ==
    ASSUME NEW task \in Tasks, NEW id \in Ids
    PROVE  Again(task, id) \in Tasks
  <1>1. task.attempt + 1 \in Nat
    BY DEF Tasks
  <1>2. QED
    BY <1>1 DEF Again, Tasks

LEMMA HeadType ==
    ASSUME TypeOK, events # <<>>
    PROVE  /\ Head(events) \in Events
           /\ Tail(events) \in Seq(Events)
           /\ Head(events).id \in Ids
  <1>1. Head(events) \in Events /\ Tail(events) \in Seq(Events)
    BY HeadTailProperties DEF TypeOK
  <1>2. QED
    BY <1>1 DEF Events

LEMMA CancelType ==
    ASSUME TypeOK, cancel # NoCancel
    PROVE  /\ cancel \in Cancels
           /\ cancel.id \in Ids
           /\ cancel.by \in {"main", "http"}
           /\ cancel.at \in Nat
           /\ cancel.worker \in Workers \cup {None}
  BY DEF TypeOK, Cancels

LEMMA TodoType ==
    ASSUME TypeOK, NEW id \in Ids, At(id)
    PROVE  /\ todo[id] \in Entries
           /\ todo[id].task \in Tasks
           /\ todo[id].worker \in Workers
  BY DEF TypeOK, At, Entries

LEMMA TodoGone ==
    ASSUME TypeOK, NEW id \in Ids
    PROVE  [todo EXCEPT ![id] = NotRunning] \in [Ids -> Entries \cup {NotRunning}]
  BY DEF TypeOK

LEMMA ProcessType ==
    ASSUME NEW p \in Processes
    PROVE  /\ p.inbox \in Seq(Tasks)
           /\ p.does # Idle => p.does \in Busy
           /\ \A q \in Seq(Tasks), d \in Busy \cup {Idle} :
                 /\ [p EXCEPT !.inbox = q] \in Processes
                 /\ [p EXCEPT !.does = d] \in Processes
                 /\ [p EXCEPT !.inbox = q, !.does = d] \in Processes
  BY DEF Processes

LEMMA DoesType ==
    ASSUME TypeOK, NEW w \in Workers, proc[w].does # Idle
    PROVE  /\ proc[w].does \in Busy
           /\ proc[w].does.task \in Tasks
           /\ proc[w].does.task.id \in Ids
  <1>1. proc[w] \in Processes
    BY DEF TypeOK
  <1>2. proc[w].does \in Busy
    BY <1>1, ProcessType
  <1>3. QED
    BY <1>2 DEF Busy, Tasks

LEMMA IdleType ==
    ASSUME TypeOK, NEW w \in Workers
    PROVE  [proc EXCEPT ![w].does = Idle] \in [Workers -> Processes]
  <1>1. proc[w] \in Processes
    BY DEF TypeOK
  <1>2. [proc[w] EXCEPT !.does = Idle] \in Processes
    BY <1>1, ProcessType
  <1>3. QED
    BY <1>2 DEF TypeOK

Limits == [deaths : Nat, cancels : Nat, owner : SUBSET Ids]

LEMMA BoundsType ==
    ASSUME TypeOK
    PROVE  /\ bounds.cancels > 0 => [bounds EXCEPT !.cancels = @ - 1] \in Limits
           /\ bounds.deaths > 0 => [bounds EXCEPT !.deaths = @ - 1] \in Limits
           /\ \A id \in Ids : [bounds EXCEPT !.owner = @ \ {id}] \in Limits
  <1>1. /\ bounds.cancels > 0 => bounds.cancels - 1 \in Nat
        /\ bounds.deaths > 0 => bounds.deaths - 1 \in Nat
    BY DEF TypeOK
  <1>2. QED
    BY <1>1 DEF TypeOK, Limits

(* What an agent reports reaches one of the two drives. *)
LEMMA ReportType ==
    ASSUME TypeOK, NEW task \in Tasks, NEW s \in Files, Report(task, s)
    PROVE  result' \in [Ids -> Files] /\ child' \in [Ids -> Files]
  <1>1. task.id \in Ids
    BY DEF Tasks
  <1>2. result \in [Ids -> Files] /\ child \in [Ids -> Files]
    BY DEF TypeOK
  <1>3. Guarded(child[task.id], s) \in Files
    BY <1>1, <1>2, GuardedType
  <1>4. Written(task.id, s) \in [Ids -> Files]
    BY <1>1, WrittenType
  <1>5. CASE task.origin \in Forked
    <2>1. child' = [child EXCEPT ![task.id] = Guarded(@, s)] /\ result' = result
      BY <1>5 DEF Report
    <2>2. QED
      BY <2>1, <1>2, <1>3
  <1>6. CASE task.origin \notin Forked
    <2>1. child' = child /\ result' = Written(task.id, s)
      BY <1>6 DEF Report
    <2>2. QED
      BY <2>1, <1>2, <1>4
  <1>7. QED
    BY <1>5, <1>6
-----------------------------------------------------------------------------
(* Every action keeps the variables well typed. *)
LEMMA InitTyped == Init => TypeOK
  <1> SUFFICES ASSUME Init
               PROVE  TypeOK
    OBVIOUS
  <1>1. pending \in Seq(Tasks) /\ events \in Seq(Events) /\ sweep.keep \in Seq(Tasks)
    BY EmptySeq DEF Init, NoSweep
  <1>2. proc \in [Workers -> Processes]
    BY FreshType DEF Init
  <1>3. result \in [Ids -> Files] /\ child \in [Ids -> Files]
    BY StatusTypes DEF Init
  <1>4. bounds \in Limits
    BY TaskQueueAssumption DEF Init, Limits
  <1>5. QED
    BY <1>1, <1>2, <1>3, <1>4 DEF Init, TypeOK, Limits, NoSweep

LEMMA ReapType ==
    ASSUME TypeOK, NEW w \in Workers, Reap(w)
    PROVE  /\ slot' \in [Workers -> Ids \cup {None}]
           /\ proc' \in [Workers -> Processes]
           /\ storm' \in [dead : Nat, busy : BOOLEAN, recent : Nat]
  <1>1. slot' \in [Workers -> Ids \cup {None}]
    BY DEF TypeOK, Reap
  <1>2. proc' \in [Workers -> Processes]
    BY RespawnedType DEF Reap
  <1>3. storm' \in [dead : Nat, busy : BOOLEAN, recent : Nat]
    <2>1. storm.dead + 1 \in Nat /\ (storm.busy \/ slot[w] # None) \in BOOLEAN
      BY DEF TypeOK
    <2>2. QED
      BY <2>1 DEF TypeOK, Reap
  <1>4. QED
    BY <1>1, <1>2, <1>3

LEMMA ReapTaskType ==
    ASSUME TypeOK, NEW w \in Workers, ReapTask(w)
    PROVE  /\ slot[w] \in Ids
           /\ running[slot[w]].task \in Tasks
           /\ running' \in [Ids -> Entries \cup {NotRunning}]
  <1>1. slot[w] \in Ids /\ IsRunning(slot[w])
    BY DEF ReapTask, Tracked, TypeOK
  <1>2. QED
    BY <1>1, EntryType, WithoutType DEF ReapTask

LEMMA ReapTyped ==
    ASSUME TypeOK, NEW w \in Workers,
           ReapUntracked(w) \/ ReapFinished(w) \/ ReapFailed(w) \/ ReapRetry(w)
    PROVE  TypeOK'
  <1>1. CASE ReapUntracked(w)
    BY <1>1, ReapType DEF TypeOK, ReapUntracked, Reap
  <1>2. CASE ReapFinished(w)
    <2>1. ReapTask(w) /\ Reap(w)
      BY <1>2 DEF ReapFinished, ReapTask
    <2>2. notices' \in SUBSET Ids
      BY <1>2, <2>1, ReapTaskType, NotifiedType DEF ReapFinished
    <2>3. QED
      BY <1>2, <2>1, <2>2, ReapType, ReapTaskType DEF TypeOK, ReapFinished, Reap
  <1>3. CASE ReapFailed(w)
    <2>1. ReapTask(w) /\ Reap(w)
      BY <1>3 DEF ReapFailed, ReapTask
    <2>2. result' \in [Ids -> Files]
      BY <1>3, <2>1, ReapTaskType, WrittenType, StatusTypes DEF ReapFailed
    <2>3. notices' \in SUBSET Ids
      BY <1>3, <2>1, ReapTaskType DEF ReapFailed, TypeOK
    <2>4. UNCHANGED <<pending, pool, events, child, successor, phase, todo, sweep,
                      cancel, http, spent, starts, bounds>>
      BY <1>3, <2>1 DEF ReapFailed, Reap
    <2>5. QED
      BY <2>1, <2>2, <2>3, <2>4, ReapType, ReapTaskType DEF TypeOK
  <1>4. CASE ReapRetry(w)
    <2>1. ReapTask(w) /\ Reap(w)
      BY <1>4 DEF ReapRetry, ReapTask
    <2>2. result' \in [Ids -> Files]
      BY <1>4, <2>1, ReapTaskType, WrittenType, StatusTypes DEF ReapRetry
    <2>3. Again(running[slot[w]].task, slot[w]) \in Tasks
      BY <2>1, ReapTaskType, AgainType
    <2>4. pending' \in Seq(Tasks)
      BY <1>4, <2>3, EnqueuedType DEF ReapRetry, TypeOK
    <2>5. QED
      BY <1>4, <2>1, <2>2, <2>4, ReapType, ReapTaskType DEF TypeOK, ReapRetry, Reap
  <1>5. QED
    BY <1>1, <1>2, <1>3, <1>4

LEMMA HealthEndTyped ==
    ASSUME TypeOK, HealthEnd
    PROVE  TypeOK'
  <1>1. Crashes \subseteq Nat
    BY DEF Crashes, TypeOK
  <1>2. storm' \in [dead : Nat, busy : BOOLEAN, recent : Nat]
    BY <1>1 DEF HealthEnd
  <1>3. QED
    BY <1>2 DEF HealthEnd, TypeOK, queueVars, eventVars, fileVars

LEMMA CrashStormTyped ==
    ASSUME TypeOK, CrashStorm
    PROVE  TypeOK'
  <1>1. notices' \in SUBSET Ids
    <2>1. {running[id].task : id \in {i \in Ids : IsRunning(i)}} \subseteq Tasks
      BY EntryType
    <2>2. QED
      BY <2>1, QueuedType, NotifiedType DEF CrashStorm
  <1>2. result' \in [Ids -> Files]
    BY GuardedType, StatusTypes DEF CrashStorm, TypeOK
  <1>3. QED
    BY <1>1, <1>2, FreshType, EmptySeq DEF TypeOK, CrashStorm

LEMMA TaskDoneTyped ==
    ASSUME TypeOK, NEW id \in Ids, NEW by, TaskDone(id, by),
           events' \in Seq(Events), notices' \in SUBSET Ids
    PROVE  TypeOK'
  <1>1. result' \in [Ids -> Files]
    BY GuardedType, StatusTypes DEF TypeOK, TaskDone
  <1>2. running' \in [Ids -> Entries \cup {NotRunning}]
    BY WithoutType DEF TaskDone
  <1>3. QED
    BY <1>1, <1>2 DEF TypeOK, TaskDone, loopVars

LEMMA DrainRejectTyped ==
    ASSUME TypeOK, DrainReject
    PROVE  TypeOK'
  <1>1. result' \in [Ids -> Files]
    BY HeadType, WrittenType, StatusTypes DEF DrainReject
  <1>2. QED
    BY <1>1, HeadType DEF DrainReject, TypeOK, queueVars, loopVars

LEMMA DrainScheduleTyped ==
    ASSUME TypeOK, DrainSchedule
    PROVE  TypeOK'
  <1>1. result' \in [Ids -> Files]
    BY HeadType, WrittenType, StatusTypes DEF DrainSchedule
  <1>2. pending' \in Seq(Tasks)
    BY HeadType, NewType, EnqueuedType DEF DrainSchedule, TypeOK
  <1>3. QED
    BY <1>1, <1>2, HeadType DEF DrainSchedule, TypeOK, loopVars

LEMMA CancelBeginTyped ==
    ASSUME TypeOK, NEW by \in {"main", "http"}, NEW id \in Ids, CancelBegin(by, id),
           events' \in Seq(Events), bounds' \in Limits
    PROVE  TypeOK'
  <1>1. cancel' \in Cancels
    BY LenProperties DEF CancelBegin, Cancels, TypeOK
  <1>2. QED
    BY <1>1 DEF CancelBegin, TypeOK, Limits, queueVars, fileVars, loopVars

LEMMA DrainTyped ==
    ASSUME TypeOK, Drain
    PROVE  TypeOK'
  <1>1. CASE DrainTaskDone
    BY <1>1, HeadType, TaskDoneTyped DEF DrainTaskDone, TypeOK
  <1>2. ASSUME NEW id \in Ids, DrainNotice(id)
        PROVE  TypeOK'
    BY <1>2, TaskDoneTyped DEF DrainNotice, TypeOK
  <1>3. CASE DrainReject \/ DrainSchedule
    BY <1>3, DrainRejectTyped, DrainScheduleTyped
  <1>4. CASE DrainCancel
    BY <1>4, CancelBeginTyped, HeadType DEF DrainCancel, TypeOK, Limits
  <1>5. CASE DrainEnd
    BY <1>5 DEF DrainEnd, TypeOK, queueVars, eventVars, fileVars
  <1>6. QED
    BY <1>1, <1>2, <1>3, <1>4, <1>5 DEF Drain

(* Here the index has to exist: PENDING.pop(i) would raise. *)
LEMMA CancelPendingTyped ==
    ASSUME TypeOK, CancelPending, PopInRange
    PROVE  TypeOK'
  <1>1. cancel # NoCancel
    BY DEF CancelPending, NoCancel
  <1>2. result' \in [Ids -> Files]
    BY <1>1, CancelType, WrittenType, StatusTypes DEF CancelPending
  <1>3. pending' \in Seq(Tasks)
    <2>1. Len(pending) \in Nat
      BY LenProperties DEF TypeOK
    <2>2. cancel.at \in 1 .. Len(pending)
      BY <1>1, <2>1, CancelType DEF CancelPending, PopInRange
    <2>3. QED
      BY <2>2, RemoveAtType DEF CancelPending, TypeOK
  <1>4. notices' \in SUBSET Ids
    BY QueuedType, NotifiedType DEF CancelPending
  <1>5. QED
    BY <1>2, <1>3, <1>4 DEF CancelPending, TypeOK, loopVars

LEMMA CancelRunningTyped ==
    ASSUME TypeOK, NEW w \in Workers, CancelRunning(w)
    PROVE  TypeOK'
  <1>1. cancel # NoCancel /\ cancel.id \in Ids
    BY CancelType DEF CancelRunning
  <1>2. result' \in [Ids -> Files]
    BY <1>1, WrittenType, StatusTypes DEF CancelRunning
  <1>3. notices' \in SUBSET Ids
    <2>1. {running[i].task : i \in {j \in {cancel.id} : IsRunning(j)}} \in SUBSET Tasks
      BY <1>1, EntryType
    <2>2. QED
      BY <2>1, NotifiedType DEF CancelRunning
  <1>4. proc' \in [Workers -> Processes]
    BY FreshType DEF CancelRunning, TypeOK
  <1>5. cancel' \in Cancels
    BY <1>1 DEF CancelRunning, Cancels, TypeOK
  <1>6. running' \in [Ids -> Entries \cup {NotRunning}]
    BY <1>1, WithoutType DEF CancelRunning
  <1>7. QED
    BY <1>2, <1>3, <1>4, <1>5, <1>6 DEF CancelRunning, TypeOK, loopVars

LEMMA CancelMissTyped ==
    ASSUME TypeOK, CancelMiss
    PROVE  TypeOK'
  <1>1. cancel # NoCancel /\ cancel.id \in Ids
    BY CancelType DEF CancelMiss
  <1>2. result' \in [Ids -> Files]
    BY <1>1, WrittenType, StatusTypes DEF CancelMiss, TypeOK
  <1>3. notices' \in SUBSET Ids
    <2>1. {New(cancel.id)} \in SUBSET Tasks
      BY <1>1, NewType
    <2>2. Notified({New(cancel.id)}) \in SUBSET Ids
      BY <2>1, NotifiedType
    <2>3. QED
      BY <2>2 DEF CancelMiss, TypeOK
  <1>4. QED
    BY <1>2, <1>3 DEF CancelMiss, TypeOK, queueVars, loopVars

LEMMA CancelTyped ==
    ASSUME TypeOK, PopInRange, CancelStep
    PROVE  TypeOK'
  <1>1. CASE CancelPending
    BY <1>1, CancelPendingTyped
  <1>2. ASSUME NEW w \in Workers, CancelRunning(w)
        PROVE  TypeOK'
    BY <1>2, CancelRunningTyped
  <1>3. CASE CancelRespawn
    <2>1. cancel.worker \in Workers
      BY <1>3, CancelType DEF CancelRespawn
    <2>2. proc' \in [Workers -> Processes]
      BY <1>3, <2>1, RespawnedType DEF CancelRespawn
    <2>3. QED
      BY <1>3, <2>2 DEF CancelRespawn, TypeOK, eventVars, fileVars, loopVars
  <1>4. CASE CancelMiss
    BY <1>4, CancelMissTyped
  <1>5. QED
    BY <1>1, <1>2, <1>3, <1>4 DEF CancelStep

LEMMA StopType ==
    ASSUME TypeOK, NEW id \in Ids, TimeoutStop(id)
    PROVE  /\ running' \in [Ids -> Entries \cup {NotRunning}]
           /\ slot' \in [Workers -> Ids \cup {None}]
           /\ proc' \in [Workers -> Processes]
           /\ todo' \in [Ids -> Entries \cup {NotRunning}]
           /\ todo[id].task \in Tasks
  <1>1. todo[id].worker \in Workers /\ todo[id].task \in Tasks
    BY TodoType DEF TimeoutStop
  <1>2. QED
    BY <1>1, TodoGone, RespawnedType, WithoutType DEF TimeoutStop, TypeOK

LEMMA TimeoutGraceTyped ==
    ASSUME TypeOK, NEW id \in Ids, TimeoutGrace(id)
    PROVE  TypeOK'
  <1>1. Graced(todo[id]) \in Entries
    BY TodoType DEF TimeoutGrace, Graced, Entries
  <1>2. running' \in [Ids -> Entries \cup {NotRunning}]
    BY <1>1 DEF TimeoutGrace, TypeOK
  <1>3. QED
    BY <1>2, TodoGone DEF TimeoutGrace, TypeOK, eventVars, fileVars

LEMMA TimeoutFailTyped ==
    ASSUME TypeOK, NEW id \in Ids, TimeoutFail(id)
    PROVE  TypeOK'
  <1>1. TimeoutStop(id)
    BY DEF TimeoutFail
  <1>2. result' \in [Ids -> Files]
    BY WrittenType, StatusTypes DEF TimeoutFail
  <1>3. notices' \in SUBSET Ids
    BY <1>1, StopType, NotifiedType DEF TimeoutFail
  <1>4. QED
    BY <1>1, <1>2, <1>3, StopType DEF TimeoutFail, TimeoutStop, TypeOK

LEMMA TimeoutRetryTyped ==
    ASSUME TypeOK, NEW id \in Ids, NEW retry \in Ids, TimeoutRetry(id, retry)
    PROVE  TypeOK'
  <1>1. TimeoutStop(id)
    BY DEF TimeoutRetry
  <1>2. result' \in [Ids -> Files]
    BY GuardedType, StatusTypes DEF TimeoutRetry, TypeOK
  <1>3. pending' \in Seq(Tasks)
    BY <1>1, StopType, AgainType, EnqueuedType DEF TimeoutRetry, TypeOK
  <1>4. successor' \in [Ids -> Ids \cup {None}]
    BY DEF TimeoutRetry, TypeOK
  <1>5. QED
    BY <1>1, <1>2, <1>3, <1>4, StopType DEF TimeoutRetry, TimeoutStop, TypeOK

LEMMA TimeoutsTyped ==
    ASSUME TypeOK, Timeouts
    PROVE  TypeOK'
  <1>1. ASSUME NEW id \in Ids, TimeoutPass(id)
        PROVE  TypeOK'
    BY <1>1, TodoGone DEF TimeoutPass, TypeOK, queueVars, eventVars, fileVars
  <1>2. CASE TimeoutsEnd
    BY <1>2 DEF TimeoutsEnd, TypeOK, queueVars, eventVars, fileVars
  <1>3. QED
    BY <1>1, <1>2, TimeoutGraceTyped, TimeoutFailTyped, TimeoutRetryTyped DEF Timeouts

LEMMA ProduceTyped ==
    ASSUME TypeOK, NEW id \in Ids, CronDue(id) \/ OwnerQueues(id)
    PROVE  TypeOK'
  <1>1. pending' \in Seq(Tasks)
    <2>1. pending' = Enqueued(pending, New(id), FALSE)
      BY DEF CronDue, OwnerQueues
    <2>2. QED
      BY <2>1, NewType, EnqueuedType DEF TypeOK
  <1>2. CASE CronDue(id)
    <2>1. result' \in [Ids -> Files]
      BY <1>2, WrittenType, StatusTypes DEF CronDue
    <2>2. QED
      BY <1>1, <1>2, <2>1 DEF CronDue, TypeOK, eventVars, loopVars
  <1>3. CASE OwnerQueues(id)
    <2>1. bounds' \in Limits
      BY <1>3, BoundsType DEF OwnerQueues
    <2>2. QED
      BY <1>1, <1>3, <2>1 DEF OwnerQueues, TypeOK, Limits, eventVars, loopVars, fileVars
  <1>4. QED
    BY <1>2, <1>3

LEMMA DropStepTyped ==
    ASSUME TypeOK, DropStep
    PROVE  TypeOK'
  <1> DEFINE task == pending[sweep.at]
  <1>1. task \in Tasks
    BY LenProperties, ElementOfSeq DEF DropStep, TypeOK
  <1>2. task.id \in Ids
    BY <1>1 DEF Tasks
  <1>3. result' \in [Ids -> Files]
    BY <1>2, WrittenType, StatusTypes DEF DropStep, TypeOK
  <1>4. notices' \in SUBSET Ids
    <2>1. {task} \in SUBSET Tasks
      BY <1>1
    <2>2. Notified({task}) \in SUBSET Ids
      BY <2>1, NotifiedType
    <2>3. QED
      BY <2>2 DEF DropStep, TypeOK
  <1>5. sweep' \in [at : Nat, keep : Seq(Tasks), dropped : BOOLEAN]
    <2>1. Append(sweep.keep, task) \in Seq(Tasks) /\ sweep.at + 1 \in Nat
      BY <1>1, AppendProperties DEF TypeOK
    <2>2. QED
      BY <2>1 DEF DropStep, TypeOK
  <1>6. QED
    BY <1>3, <1>4, <1>5 DEF DropStep, TypeOK, queueVars

LEMMA AssignTyped ==
    ASSUME TypeOK, NEW w \in Workers, Assign(w)
    PROVE  TypeOK'
  <1> DEFINE task == Head(pending)
  <1>1. task \in Tasks /\ pending' \in Seq(Tasks)
    BY HeadTailProperties DEF Assign, TypeOK
  <1>2. task.id \in Ids /\ task.origin \in Ids
    BY <1>1 DEF Tasks
  <1>3. result' \in [Ids -> Files]
    BY <1>2, WrittenType, StatusTypes DEF Assign, TypeOK
  <1>4. slot' \in [Workers -> Ids \cup {None}]
    BY <1>2 DEF Assign, TypeOK
  <1>5. proc' \in [Workers -> Processes]
    <2>1. proc[w] \in Processes
      BY DEF TypeOK
    <2>2. Append(proc[w].inbox, task) \in Seq(Tasks)
      BY <1>1, <2>1, ProcessType, AppendProperties
    <2>3. [proc[w] EXCEPT !.inbox = Append(@, task)] \in Processes
      BY <2>1, <2>2, ProcessType
    <2>4. QED
      BY <2>3 DEF Assign, TypeOK
  <1>6. running' \in [Ids -> Entries \cup {NotRunning}]
    BY <1>1, <1>2 DEF Assign, TypeOK, Entries
  <1>7. starts' \in [Ids -> Nat]
    <2>1. starts' = [starts EXCEPT ![task.origin] = @ + 1]
      BY DEF Assign
    <2>2. starts \in [Ids -> Nat]
      BY DEF TypeOK
    <2>3. QED
      BY <1>2, <2>1, <2>2
  <1>8. UNCHANGED <<pool, events, notices, child, successor, phase, todo, sweep, storm,
                    cancel, http, spent, bounds>>
    BY DEF Assign, eventVars, loopVars
  <1>9. QED
    BY <1>1, <1>3, <1>4, <1>5, <1>6, <1>7, <1>8 DEF TypeOK

LEMMA AssignTasksTyped ==
    ASSUME TypeOK, AssignTasks
    PROVE  TypeOK'
  <1>1. CASE AssignNothing \/ AssignEnd
    BY <1>1 DEF AssignNothing, AssignEnd, TypeOK, queueVars, eventVars, fileVars
  <1>2. CASE AssignBegin
    BY <1>2, EmptySeq DEF AssignBegin, TypeOK, queueVars, eventVars, fileVars
  <1>3. CASE DropEnd
    BY <1>3, EmptySeq DEF DropEnd, TypeOK, NoSweep, eventVars, fileVars
  <1>4. CASE DropDone
    BY <1>4 DEF DropDone, TypeOK, queueVars, eventVars, fileVars
  <1>5. QED
    BY <1>1, <1>2, <1>3, <1>4, DropStepTyped, AssignTyped DEF AssignTasks

LEMMA HttpTyped ==
    ASSUME TypeOK, Http
    PROVE  TypeOK'
  <1>1. ASSUME NEW id \in Ids, HttpCreate(id)
        PROVE  TypeOK'
    BY <1>1, WrittenType, StatusTypes DEF HttpCreate, TypeOK, queueVars, eventVars, loopVars
  <1>2. ASSUME NEW id \in Ids, HttpCancel(id)
        PROVE  TypeOK'
    <2>1. bounds' \in Limits
      BY <1>2, BoundsType DEF HttpCancel
    <2>2. QED
      BY <1>2, <2>1, CancelBeginTyped DEF HttpCancel, TypeOK
  <1>3. CASE HttpEnqueue
    <2>1. pending' \in Seq(Tasks)
      BY <1>3, NewType, EnqueuedType DEF HttpEnqueue, TypeOK
    <2>2. QED
      BY <1>3, <2>1 DEF HttpEnqueue, TypeOK, eventVars, loopVars, fileVars
  <1>4. QED
    BY <1>1, <1>2, <1>3 DEF Http

LEMMA WorkerOnlyTyped ==
    ASSUME TypeOK, WorkerOnly,
           proc' \in [Workers -> Processes], events' \in Seq(Events),
           result' \in [Ids -> Files], child' \in [Ids -> Files], bounds' \in Limits
    PROVE  TypeOK'
  BY DEF TypeOK, WorkerOnly, Limits, queueVars, loopVars

LEMMA TakeTyped ==
    ASSUME TypeOK, NEW w \in Workers, Take(w)
    PROVE  TypeOK'
  <1> DEFINE task == Head(proc[w].inbox)
             does == [kind |-> "working", task |-> task]
  <1>1. proc[w] \in Processes
    BY DEF TypeOK
  <1>2. task \in Tasks /\ Tail(proc[w].inbox) \in Seq(Tasks)
    BY <1>1, ProcessType, HeadTailProperties DEF Take
  <1>3. does \in Busy
    BY <1>2 DEF Busy
  <1>4. [proc[w] EXCEPT !.inbox = Tail(@), !.does = does] \in Processes
    BY <1>1, <1>2, <1>3, ProcessType
  <1>5. proc' \in [Workers -> Processes]
    BY <1>4 DEF Take, TypeOK
  <1>6. result' \in [Ids -> Files] /\ child' \in [Ids -> Files]
    BY <1>2, ReportType, StatusTypes DEF Take
  <1>7. QED
    BY <1>5, <1>6, WorkerOnlyTyped DEF Take, TypeOK, Limits

LEMMA StoreTyped ==
    ASSUME TypeOK, NEW w \in Workers, NEW status \in {"completed", "failed"},
           Store(w, status)
    PROVE  TypeOK'
  <1>1. proc[w] \in Processes /\ proc[w].does \in Busy /\ proc[w].does.task \in Tasks
    BY DoesType DEF Store, Working, TypeOK
  <1>2. [proc[w].does EXCEPT !.kind = "stored"] \in Busy
    BY <1>1 DEF Busy
  <1>3. [proc[w] EXCEPT !.does = [proc[w].does EXCEPT !.kind = "stored"]] \in Processes
    BY <1>1, <1>2, ProcessType
  <1>4. proc' \in [Workers -> Processes]
    BY <1>3 DEF Store, TypeOK
  <1>5. result' \in [Ids -> Files] /\ child' \in [Ids -> Files]
    BY <1>1, ReportType, StatusTypes DEF Store
  <1>6. QED
    BY <1>4, <1>5, WorkerOnlyTyped DEF Store, TypeOK, Limits

LEMMA EmitTyped ==
    ASSUME TypeOK, NEW w \in Workers, Emit(w)
    PROVE  TypeOK'
  <1>1. [kind |-> "task_done", by |-> w, id |-> proc[w].does.task.id] \in Events
    BY DoesType DEF Emit, Events
  <1>2. events' \in Seq(Events)
    BY <1>1, AppendProperties DEF Emit, TypeOK
  <1>3. QED
    BY <1>2, IdleType, WorkerOnlyTyped DEF Emit, TypeOK, Limits

LEMMA DieTyped ==
    ASSUME TypeOK, NEW w \in Workers, NEW how \in {"exited", "signalled"}, Die(w, how)
    PROVE  TypeOK'
  <1>1. proc' \in [Workers -> Processes]
    BY FreshType DEF Die, TypeOK
  <1>2. bounds' \in Limits
    BY BoundsType DEF Die
  <1>3. QED
    BY <1>1, <1>2, WorkerOnlyTyped DEF Die, TypeOK

LEMMA ScheduleSubagentTyped ==
    ASSUME TypeOK, NEW w \in Workers, NEW id \in Ids, ScheduleSubagent(w, id)
    PROVE  TypeOK'
  <1>1. [kind |-> "schedule", id |-> id, by |-> w] \in Events
    BY DEF Events
  <1>2. events' \in Seq(Events)
    BY <1>1, AppendProperties DEF ScheduleSubagent, TypeOK
  <1>3. result' \in [Ids -> Files]
    BY WrittenType, StatusTypes DEF ScheduleSubagent
  <1>4. QED
    BY <1>2, <1>3, WorkerOnlyTyped DEF ScheduleSubagent, TypeOK, Limits

LEMMA RequestCancelTyped ==
    ASSUME TypeOK, NEW w \in Workers, NEW id \in Ids, RequestCancel(w, id)
    PROVE  TypeOK'
  <1>1. [kind |-> "cancel", id |-> id, by |-> w] \in Events
    BY DEF Events
  <1>2. events' \in Seq(Events)
    BY <1>1, AppendProperties DEF RequestCancel, TypeOK
  <1>3. result' \in [Ids -> Files]
    BY WrittenType, StatusTypes DEF RequestCancel
  <1>4. bounds' \in Limits
    BY BoundsType DEF RequestCancel
  <1>5. QED
    BY <1>2, <1>3, <1>4, WorkerOnlyTyped DEF RequestCancel, TypeOK

LEMMA WorkerTyped ==
    ASSUME TypeOK, NEW w \in Workers, Worker(w)
    PROVE  TypeOK'
  <1>1. CASE Break(w)
    BY <1>1, IdleType, WorkerOnlyTyped DEF Break, TypeOK, Limits
  <1>2. QED
    BY <1>1, TakeTyped, StoreTyped, EmitTyped, DieTyped, ScheduleSubagentTyped,
       RequestCancelTyped DEF Worker

LEMMA StepTyped ==
    ASSUME TypeOK, PopInRange, [Next]_vars
    PROVE  TypeOK'
  <1>1. CASE Health
    BY <1>1, ReapTyped, HealthEndTyped, CrashStormTyped DEF Health
  <1>2. CASE Drain
    BY <1>2, DrainTyped
  <1>3. CASE Timeouts
    BY <1>3, TimeoutsTyped
  <1>4. CASE AssignTasks
    BY <1>4, AssignTasksTyped
  <1>5. CASE Produce
    BY <1>5, ProduceTyped DEF Produce
  <1>6. CASE CancelStep
    BY <1>6, CancelTyped
  <1>7. CASE Http
    BY <1>7, HttpTyped
  <1>8. CASE BudgetExhausted
    BY <1>8 DEF BudgetExhausted, TypeOK, queueVars, eventVars, fileVars, loopVars
  <1>9. ASSUME NEW w \in Workers, Worker(w)
        PROVE  TypeOK'
    BY <1>9, WorkerTyped
  <1>10. CASE UNCHANGED vars
    BY <1>10 DEF vars, TypeOK, queueVars, eventVars, fileVars, loopVars
  <1>11. QED
    BY <1>1, <1>2, <1>3, <1>4, <1>5, <1>6, <1>7, <1>8, <1>9, <1>10 DEF Next, MainLoop
-----------------------------------------------------------------------------
(* cancel_task_by_id keeps the index it found valid because everything that  *)
(* shortens PENDING takes the lock too, and what does not take the lock only *)
(* adds to PENDING.                                                          *)
LockInv == OneHolder /\ PopInRange

LEMMA InitLock == Init => LockInv
  BY EmptySeq DEF Init, LockInv, OneHolder, PopInRange, NoCancel

LEMMA KeepsLock ==
    ASSUME LockInv, UNCHANGED <<pending, cancel, phase>>
    PROVE  LockInv'
  BY DEF LockInv, OneHolder, PopInRange

LEMMA EnqueueKeepsLock ==
    ASSUME TypeOK, LockInv, NEW t \in Tasks, NEW front \in BOOLEAN,
           pending' = Enqueued(pending, t, front), UNCHANGED <<cancel, phase>>
    PROVE  LockInv'
  <1>1. Len(pending') = Len(pending) + 1 /\ Len(pending) \in Nat
    BY EnqueuedType, LenProperties DEF TypeOK
  <1>2. cancel.at \in Nat
    BY DEF TypeOK, Cancels, NoCancel
  <1>3. QED
    BY <1>1, <1>2 DEF LockInv, OneHolder, PopInRange

LEMMA ReleasedLock ==
    ASSUME TypeOK', cancel' = NoCancel
    PROVE  LockInv'
  <1>1. Len(pending') \in Nat
    BY LenProperties DEF TypeOK
  <1>2. QED
    BY <1>1 DEF LockInv, OneHolder, PopInRange, NoCancel

LEMMA TakenLock ==
    ASSUME TypeOK, LockInv, NEW by, NEW id, CancelBegin(by, id)
    PROVE  LockInv'
  <1>1. phase' \notin {"drop", "assign"}
    BY DEF CancelBegin, Locked, loopVars
  <1>2. cancel'.at \in 0 .. Len(pending) /\ pending' = pending
    BY DEF CancelBegin, queueVars
  <1>3. QED
    BY <1>1, <1>2, LenProperties DEF LockInv, OneHolder, PopInRange, TypeOK

(* A step of the main loop that stays or ends outside assign_tasks. *)
LEMMA OutsideLock ==
    ASSUME LockInv, UNCHANGED <<cancel, pending>>, phase' \notin {"drop", "assign"}
    PROVE  LockInv'
  BY DEF LockInv, OneHolder, PopInRange

(* A step inside assign_tasks. *)
LEMMA InsideLock ==
    ASSUME LockInv, TypeOK', phase \in {"drop", "assign"}, UNCHANGED cancel
    PROVE  LockInv'
  <1>1. cancel = NoCancel
    BY DEF LockInv, OneHolder
  <1>2. QED
    BY <1>1, ReleasedLock

LEMMA HealthLock ==
    ASSUME TypeOK, TypeOK', LockInv, Health
    PROVE  LockInv'
  <1>1. ASSUME NEW w \in Workers, ReapUntracked(w) \/ ReapFinished(w) \/ ReapFailed(w)
        PROVE  LockInv'
    BY <1>1, KeepsLock DEF ReapUntracked, ReapFinished, ReapFailed, ReapTask, Reap
  <1>2. ASSUME NEW w \in Workers, ReapRetry(w)
        PROVE  LockInv'
    <2>1. Again(running[slot[w]].task, slot[w]) \in Tasks
      BY <1>2, ReapTaskType, AgainType DEF ReapRetry
    <2>2. QED
      BY <1>2, <2>1, EnqueueKeepsLock DEF ReapRetry, ReapTask, Reap
  <1>3. CASE HealthEnd
    BY <1>3, OutsideLock DEF HealthEnd, queueVars
  <1>4. CASE CrashStorm
    BY <1>4, ReleasedLock DEF CrashStorm, Locked
  <1>5. QED
    BY <1>1, <1>2, <1>3, <1>4 DEF Health

LEMMA DrainLock ==
    ASSUME TypeOK, LockInv, Drain
    PROVE  LockInv'
  <1>1. CASE DrainTaskDone \/ DrainReject \/ \E id \in Ids : DrainNotice(id)
    BY <1>1, KeepsLock DEF DrainTaskDone, DrainReject, DrainNotice, TaskDone, queueVars, loopVars
  <1>2. CASE DrainSchedule
    <2>1. New(Head(events).id) \in Tasks
      BY <1>2, HeadType, NewType DEF DrainSchedule
    <2>2. QED
      BY <1>2, <2>1, EnqueueKeepsLock DEF DrainSchedule, loopVars
  <1>3. CASE DrainCancel
    BY <1>3, TakenLock DEF DrainCancel
  <1>4. CASE DrainEnd
    BY <1>4, OutsideLock DEF DrainEnd, queueVars
  <1>5. QED
    BY <1>1, <1>2, <1>3, <1>4 DEF Drain

LEMMA CancelLock ==
    ASSUME TypeOK, TypeOK', LockInv, CancelStep
    PROVE  LockInv'
  <1>1. CASE CancelPending \/ CancelRespawn \/ CancelMiss
    BY <1>1, ReleasedLock DEF CancelPending, CancelRespawn, CancelMiss
  <1>2. ASSUME NEW w \in Workers, CancelRunning(w)
        PROVE  LockInv'
    <2>1. /\ cancel # NoCancel /\ cancel'.at = 0
          /\ phase' = phase /\ pending' = pending
      BY <1>2, CancelType DEF CancelRunning, Cancels, loopVars
    <2>2. Len(pending) \in Nat
      BY LenProperties DEF TypeOK
    <2>3. QED
      BY <2>1, <2>2 DEF LockInv, OneHolder, PopInRange
  <1>3. QED
    BY <1>1, <1>2 DEF CancelStep

LEMMA TimeoutsLock ==
    ASSUME TypeOK, LockInv, Timeouts
    PROVE  LockInv'
  <1>1. CASE \E id \in Ids : TimeoutPass(id) \/ TimeoutGrace(id) \/ TimeoutFail(id)
    BY <1>1, KeepsLock DEF TimeoutPass, TimeoutGrace, TimeoutFail, TimeoutStop, queueVars
  <1>2. ASSUME NEW id \in Ids, NEW retry \in Ids, TimeoutRetry(id, retry)
        PROVE  LockInv'
    <2>1. Again(todo[id].task, retry) \in Tasks
      BY <1>2, StopType, AgainType DEF TimeoutRetry
    <2>2. QED
      BY <1>2, <2>1, EnqueueKeepsLock DEF TimeoutRetry, TimeoutStop
  <1>3. CASE TimeoutsEnd
    BY <1>3, OutsideLock DEF TimeoutsEnd, queueVars
  <1>4. QED
    BY <1>1, <1>2, <1>3 DEF Timeouts

LEMMA AssignLock ==
    ASSUME TypeOK', LockInv, AssignTasks
    PROVE  LockInv'
  <1>1. CASE AssignNothing \/ AssignEnd
    BY <1>1, OutsideLock DEF AssignNothing, AssignEnd, queueVars
  <1>2. CASE AssignBegin
    BY <1>2, ReleasedLock DEF AssignBegin, Locked
  <1>3. CASE DropStep \/ DropDone \/ DropEnd \/ \E w \in Workers : Assign(w)
    BY <1>3, InsideLock DEF DropStep, DropDone, DropEnd, Assign, loopVars
  <1>4. QED
    BY <1>1, <1>2, <1>3 DEF AssignTasks

LEMMA ProduceLock ==
    ASSUME TypeOK, LockInv, NEW id \in Ids, CronDue(id) \/ OwnerQueues(id)
    PROVE  LockInv'
  <1>1. pending' = Enqueued(pending, New(id), FALSE) /\ UNCHANGED <<cancel, phase>>
    BY DEF CronDue, OwnerQueues, loopVars
  <1>2. QED
    BY <1>1, NewType, EnqueueKeepsLock

LEMMA HttpLock ==
    ASSUME TypeOK, LockInv, Http
    PROVE  LockInv'
  <1>1. ASSUME NEW id \in Ids, HttpCreate(id)
        PROVE  LockInv'
    BY <1>1, KeepsLock DEF HttpCreate, queueVars, loopVars
  <1>2. ASSUME NEW id \in Ids, HttpCancel(id)
        PROVE  LockInv'
    BY <1>2, TakenLock DEF HttpCancel
  <1>3. CASE HttpEnqueue
    <2>1. New(http) \in Tasks
      BY <1>3, NewType DEF HttpEnqueue, TypeOK
    <2>2. QED
      BY <1>3, <2>1, EnqueueKeepsLock DEF HttpEnqueue, loopVars
  <1>4. QED
    BY <1>1, <1>2, <1>3 DEF Http

LEMMA WorkerLock ==
    ASSUME LockInv, NEW w \in Workers, Worker(w)
    PROVE  LockInv'
  BY KeepsLock DEF Worker, Take, Emit, Break, Store, Die, ScheduleSubagent, RequestCancel,
     WorkerOnly, loopVars, queueVars

LEMMA StepLock ==
    ASSUME TypeOK, TypeOK', LockInv, [Next]_vars
    PROVE  LockInv'
  <1>1. CASE BudgetExhausted
    BY <1>1, KeepsLock DEF BudgetExhausted, queueVars, loopVars
  <1>2. CASE UNCHANGED vars
    BY <1>2, KeepsLock DEF vars, queueVars, loopVars
  <1>3. QED
    BY <1>1, <1>2, HealthLock, DrainLock, CancelLock, TimeoutsLock, AssignLock, ProduceLock,
       HttpLock, WorkerLock DEF Next, MainLoop, Produce

(* The inductive invariant: typing needs the lock facts where                *)
(* cancel_task_by_id pops, and the lock facts need the typing.               *)
QueueInv == TypeOK /\ LockInv

LEMMA QueueInvariant == Spec => []QueueInv
  <1>1. Init => QueueInv
    BY InitTyped, InitLock DEF QueueInv
  <1>2. QueueInv /\ [Next]_vars => QueueInv'
    <2>1. SUFFICES ASSUME QueueInv, [Next]_vars
                   PROVE  QueueInv'
      OBVIOUS
    <2>2. TypeOK'
      BY <2>1, StepTyped DEF QueueInv, LockInv
    <2>3. LockInv'
      BY <2>1, <2>2, StepLock DEF QueueInv
    <2>4. QED
      BY <2>2, <2>3 DEF QueueInv
  <1>3. QED
    BY <1>1, <1>2, PTL DEF Spec

(* Every queue, entry, slot, process, event and result the supervisor and    *)
(* its workers produce is well formed, in every interleaving of the main     *)
(* loop, the HTTP thread and the workers.                                    *)
THEOREM QueueTyping == Spec => []TypeOK
  <1>1. QueueInv => TypeOK
    BY DEF QueueInv
  <1>2. QED
    BY <1>1, QueueInvariant, PTL

(* cancel_task_by_id never pops an index that PENDING no longer has, however *)
(* many threads enqueue in the meantime.                                     *)
THEOREM PopNeverFails == Spec => []PopInRange
  <1>1. QueueInv => PopInRange
    BY DEF QueueInv, LockInv
  <1>2. QED
    BY <1>1, QueueInvariant, PTL
-----------------------------------------------------------------------------
(* RUNNING and the worker slots agree, in a deployment where cancels reach   *)
(* the queue only through the main loop (HttpCancels = {}).  The premise is  *)
(* needed: a cancel on the HTTP thread between the copy of RUNNING that      *)
(* enforce_task_timeouts iterates over and its RUNNING[task_id] = meta puts  *)
(* an entry back whose slot is free.                                         *)

(* The copy enforce_task_timeouts iterates over is still true of RUNNING.    *)
TodoInv ==
    phase = "timeouts" =>
        \A id \in Ids : todo[id] # NotRunning =>
            IsRunning(id) /\ running[id].worker = todo[id].worker

(* Only the drain phase cancels; between the kill and the respawn the slot   *)
(* still names the cancelled task, whose entry is gone.                      *)
CancelInv ==
    cancel # NoCancel =>
        /\ cancel.by = "main" /\ phase = "drain"
        /\ cancel.worker # None =>
              slot[cancel.worker] = cancel.id /\ ~IsRunning(cancel.id)

SlotInv == RunningIsBusy /\ TodoInv /\ CancelInv

LEMMA InitSlots == Init => SlotInv
  BY DEF Init, SlotInv, RunningIsBusy, TodoInv, CancelInv, IsRunning

LEMMA KeepsSlots ==
    ASSUME SlotInv, UNCHANGED <<running, slot, pool, phase, todo, cancel>>
    PROVE  SlotInv'
  BY DEF SlotInv, RunningIsBusy, TodoInv, CancelInv, IsRunning

(* RUNNING without the task that slot w is busy with. *)
Vacated(w) == [id \in Ids |-> IF slot[w] = id THEN NotRunning ELSE running[id]]

(* A slot is freed together with the entry of its task. *)
LEMMA VacatedSlot ==
    ASSUME TypeOK, SlotInv, NEW w \in Workers,
           slot' = [slot EXCEPT ![w] = None], pool' = pool, running' = Vacated(w)
    PROVE  RunningIsBusy'
  <1>1. SUFFICES ASSUME NEW id \in Ids, IsRunning(id)'
                 PROVE  pool' /\ slot'[running'[id].worker] = id
    BY DEF RunningIsBusy
  <1>2. IsRunning(id) /\ running'[id] = running[id] /\ slot[w] # id
    BY <1>1 DEF IsRunning, Vacated
  <1>3. slot[running[id].worker] = id /\ pool
    BY <1>2 DEF SlotInv, RunningIsBusy
  <1>4. running[id].worker \in Workers
    BY <1>2, EntryType
  <1>5. QED
    BY <1>2, <1>3, <1>4 DEF TypeOK

LEMMA HealthSlots ==
    ASSUME TypeOK, SlotInv, Health
    PROVE  SlotInv'
  <1>1. ASSUME NEW w \in Workers, Reap(w), running' = Vacated(w)
        PROVE  SlotInv'
    <2>1. RunningIsBusy'
      BY <1>1, VacatedSlot DEF Reap
    <2>2. phase = "health" /\ phase' = phase /\ cancel' = cancel
      BY <1>1 DEF Reap, In
    <2>3. QED
      BY <2>1, <2>2 DEF SlotInv, TodoInv, CancelInv
  <1>2. ASSUME NEW w \in Workers, ReapUntracked(w)
        PROVE  SlotInv'
    <2>1. running' = Vacated(w)
      BY <1>2, TaskQueueAssumption DEF ReapUntracked, Tracked, IsRunning, TypeOK, Vacated
    <2>2. QED
      BY <1>1, <1>2, <2>1 DEF ReapUntracked
  <1>3. ASSUME NEW w \in Workers, ReapTask(w)
        PROVE  SlotInv'
    <2>1. running' = Vacated(w)
      BY <1>3 DEF ReapTask, Without, TypeOK, Vacated
    <2>2. QED
      BY <1>1, <1>3, <2>1 DEF ReapTask
  <1>4. CASE HealthEnd
    BY <1>4 DEF HealthEnd, In, SlotInv, RunningIsBusy, TodoInv, CancelInv, IsRunning, queueVars
  <1>5. CASE CrashStorm
    BY <1>5 DEF CrashStorm, In, Locked, SlotInv, RunningIsBusy, TodoInv, CancelInv, IsRunning
  <1>6. QED
    BY <1>2, <1>3, <1>4, <1>5 DEF Health, ReapFinished, ReapFailed, ReapRetry

LEMMA TaskDoneSlots ==
    ASSUME TypeOK, SlotInv, NEW id \in Ids, NEW by, TaskDone(id, by)
    PROVE  SlotInv'
  <1>1. /\ phase = "drain" /\ phase' = phase /\ todo' = todo
        /\ cancel = NoCancel /\ cancel' = cancel
    BY DEF TaskDone, loopVars, SlotInv, CancelInv, In
  <1>2. SUFFICES ASSUME NEW i \in Ids, IsRunning(i)'
                 PROVE  pool' /\ slot'[running'[i].worker] = i
    BY <1>1 DEF RunningIsBusy, SlotInv, TodoInv, CancelInv
  <1>3. i # id /\ IsRunning(i) /\ running'[i] = running[i]
    BY <1>2 DEF IsRunning, TaskDone, Without, TypeOK
  <1>4. slot[running[i].worker] = i /\ pool
    BY <1>3 DEF SlotInv, RunningIsBusy
  <1>5. running[i].worker \in Workers
    BY <1>3, EntryType
  <1>6. QED
    BY <1>3, <1>4, <1>5 DEF TypeOK, TaskDone, Freed

LEMMA DrainSlots ==
    ASSUME TypeOK, SlotInv, Drain
    PROVE  SlotInv'
  <1>1. CASE DrainTaskDone
    BY <1>1, HeadType, TaskDoneSlots DEF DrainTaskDone
  <1>2. ASSUME NEW id \in Ids, DrainNotice(id)
        PROVE  SlotInv'
    BY <1>2, TaskDoneSlots DEF DrainNotice
  <1>3. CASE DrainReject \/ DrainSchedule
    BY <1>3, KeepsSlots DEF DrainReject, DrainSchedule, queueVars, loopVars
  <1>4. CASE DrainCancel
    BY <1>4 DEF DrainCancel, CancelBegin, In, SlotInv, RunningIsBusy, TodoInv, CancelInv,
                IsRunning, queueVars, loopVars, Locked
  <1>5. CASE DrainEnd
    BY <1>5 DEF DrainEnd, In, SlotInv, RunningIsBusy, TodoInv, CancelInv, IsRunning, queueVars
  <1>6. QED
    BY <1>1, <1>2, <1>3, <1>4, <1>5 DEF Drain

LEMMA CancelSlots ==
    ASSUME TypeOK, SlotInv, CancelStep
    PROVE  SlotInv'
  <1>1. CASE CancelPending \/ CancelMiss
    BY <1>1 DEF CancelPending, CancelMiss, SlotInv, RunningIsBusy, TodoInv, CancelInv, IsRunning,
                queueVars, loopVars
  <1>2. ASSUME NEW w \in Workers, CancelRunning(w)
        PROVE  SlotInv'
    <2>1. /\ phase = "drain" /\ phase' = phase /\ todo' = todo
          /\ slot' = slot /\ pool' = pool /\ cancel.by = "main" /\ cancel.id \in Ids
      BY <1>2, CancelType DEF CancelRunning, loopVars, SlotInv, CancelInv
    <2>2. \A i \in Ids : IsRunning(i)' => IsRunning(i) /\ running'[i] = running[i]
      BY <1>2 DEF CancelRunning, Without, IsRunning, TypeOK
    <2>3. RunningIsBusy'
      BY <2>1, <2>2 DEF SlotInv, RunningIsBusy
    <2>4. /\ cancel'.worker = w /\ cancel'.by = "main" /\ cancel'.id = cancel.id
          /\ slot[w] = cancel.id /\ ~IsRunning(cancel.id)'
      BY <1>2, <2>1, CancelType DEF CancelRunning, Cancels, Without, TypeOK, IsRunning
    <2>5. QED
      BY <2>1, <2>3, <2>4 DEF SlotInv, TodoInv, CancelInv
  <1>3. CASE CancelRespawn
    <2>1. /\ phase = "drain" /\ phase' = phase /\ pool' = pool
          /\ running' = running /\ cancel' = NoCancel
          /\ cancel.worker \in Workers /\ slot[cancel.worker] = cancel.id
          /\ ~IsRunning(cancel.id)
      BY <1>3, CancelType DEF CancelRespawn, loopVars, SlotInv, CancelInv
    <2>2. running' = Vacated(cancel.worker)
      BY <2>1 DEF IsRunning, TypeOK, Vacated
    <2>3. RunningIsBusy'
      BY <1>3, <2>1, <2>2, VacatedSlot DEF CancelRespawn
    <2>4. QED
      BY <2>1, <2>3 DEF SlotInv, TodoInv, CancelInv
  <1>4. QED
    BY <1>1, <1>2, <1>3 DEF CancelStep

LEMMA TimeoutGraceSlots ==
    ASSUME TypeOK, SlotInv, NEW id \in Ids, TimeoutGrace(id)
    PROVE  SlotInv'
  <1>1. /\ phase = "timeouts" /\ phase' = phase /\ slot' = slot /\ pool' = pool
        /\ cancel = NoCancel /\ cancel' = cancel
    BY DEF TimeoutGrace, At, In, SlotInv, CancelInv
  <1>2. IsRunning(id) /\ running[id].worker = todo[id].worker
    BY <1>1 DEF TimeoutGrace, At, SlotInv, TodoInv
  <1>3. Graced(todo[id]).worker = running[id].worker /\ Graced(todo[id]) # NotRunning
    <2>1. todo[id] \in Entries
      BY TodoType DEF TimeoutGrace
    <2>2. QED
      BY <1>2, <2>1 DEF Entries, NotRunning, Graced
  <1>4. \A i \in Ids : /\ IsRunning(i)' <=> IsRunning(i)
                       /\ running'[i].worker = running[i].worker
    BY <1>2, <1>3 DEF TimeoutGrace, TypeOK, IsRunning
  <1>5. \A i \in Ids : todo'[i] # NotRunning => todo'[i] = todo[i]
    BY DEF TimeoutGrace, TypeOK
  <1>6. RunningIsBusy'
    BY <1>1, <1>4 DEF SlotInv, RunningIsBusy
  <1>7. TodoInv'
    BY <1>1, <1>4, <1>5 DEF SlotInv, TodoInv
  <1>8. QED
    BY <1>1, <1>6, <1>7 DEF SlotInv, CancelInv

LEMMA TimeoutStopSlots ==
    ASSUME TypeOK, SlotInv, NEW id \in Ids, TimeoutStop(id)
    PROVE  SlotInv'
  <1> DEFINE w == todo[id].worker
  <1>1. /\ phase = "timeouts" /\ phase' = phase /\ pool' = pool
        /\ cancel = NoCancel /\ cancel' = cancel
    BY DEF TimeoutStop, At, In, SlotInv, CancelInv
  <1>2. IsRunning(id) /\ running[id].worker = w /\ slot[w] = id /\ w \in Workers
    BY <1>1, TodoType DEF TimeoutStop, At, SlotInv, TodoInv, RunningIsBusy
  <1>3. running' = Vacated(w)
    BY <1>2 DEF TimeoutStop, Without, TypeOK, Vacated
  <1>4. RunningIsBusy'
    BY <1>2, <1>3, VacatedSlot DEF TimeoutStop
  <1>5. \A i \in Ids : todo'[i] # NotRunning =>
                          todo'[i] = todo[i] /\ running'[i] = running[i]
    BY <1>2, <1>3 DEF TimeoutStop, TypeOK, Vacated
  <1>6. TodoInv'
    BY <1>1, <1>5 DEF SlotInv, TodoInv, IsRunning
  <1>7. QED
    BY <1>1, <1>4, <1>6 DEF SlotInv, CancelInv

LEMMA TimeoutsSlots ==
    ASSUME TypeOK, SlotInv, Timeouts
    PROVE  SlotInv'
  <1>1. ASSUME NEW id \in Ids, TimeoutPass(id)
        PROVE  SlotInv'
    BY <1>1 DEF TimeoutPass, At, In, SlotInv, RunningIsBusy, TodoInv, CancelInv, IsRunning,
                queueVars, TypeOK
  <1>2. CASE TimeoutsEnd
    BY <1>2 DEF TimeoutsEnd, In, SlotInv, RunningIsBusy, TodoInv, CancelInv, IsRunning, queueVars
  <1>3. QED
    BY <1>1, <1>2, TimeoutGraceSlots, TimeoutStopSlots DEF Timeouts, TimeoutFail, TimeoutRetry

LEMMA AssignSlots ==
    ASSUME TypeOK, SlotInv, NEW w \in Workers, Assign(w)
    PROVE  SlotInv'
  <1> DEFINE task == Head(pending)
             entry == [kind |-> "entry", task |-> task, worker |-> w, grace |-> FALSE]
  <1>1. /\ phase = "assign" /\ phase' = phase /\ pool /\ pool' = pool
        /\ cancel = NoCancel /\ cancel' = cancel
    BY DEF Assign, SlotInv, CancelInv, loopVars
  <1>2. task.id \in Ids
    <2>1. task \in Tasks
      BY HeadTailProperties DEF Assign, TypeOK
    <2>2. QED
      BY <2>1 DEF Tasks
  <1>3. RunningIsBusy'
    <2>1. SUFFICES ASSUME NEW i \in Ids, IsRunning(i)'
                   PROVE  slot'[running'[i].worker] = i
      BY <1>1 DEF RunningIsBusy
    <2>2. CASE i = task.id
      <3>1. running'[i] = entry
        BY <2>2 DEF Assign, TypeOK
      <3>2. slot'[w] = i
        BY <2>2 DEF Assign, TypeOK
      <3>3. QED
        BY <3>1, <3>2
    <2>3. CASE i # task.id
      <3>1. running'[i] = running[i] /\ IsRunning(i)
        BY <2>1, <2>3 DEF Assign, TypeOK, IsRunning
      <3>2. slot[running[i].worker] = i /\ running[i].worker \in Workers
        BY <3>1, EntryType DEF SlotInv, RunningIsBusy
      <3>3. running[i].worker # w
        BY <3>2, TaskQueueAssumption DEF Assign
      <3>4. QED
        BY <3>1, <3>2, <3>3 DEF Assign, TypeOK
    <2>4. QED
      BY <2>2, <2>3
  <1>4. QED
    BY <1>1, <1>3 DEF SlotInv, CancelInv, TodoInv

LEMMA AssignTasksSlots ==
    ASSUME TypeOK, SlotInv, AssignTasks
    PROVE  SlotInv'
  <1>1. CASE AssignNothing \/ AssignBegin \/ AssignEnd
    BY <1>1 DEF AssignNothing, AssignBegin, AssignEnd, Locked, In, SlotInv, RunningIsBusy, TodoInv,
                CancelInv, IsRunning, queueVars
  <1>2. CASE DropStep \/ DropDone \/ DropEnd
    BY <1>2 DEF DropStep, DropDone, DropEnd, SlotInv, RunningIsBusy, TodoInv, CancelInv, IsRunning,
                queueVars
  <1>3. QED
    BY <1>1, <1>2, AssignSlots DEF AssignTasks

LEMMA OthersSlots ==
    ASSUME SlotInv,
           \/ Produce \/ BudgetExhausted \/ HttpEnqueue \/ UNCHANGED vars
           \/ \E id \in Ids : HttpCreate(id)
           \/ \E w \in Workers : Worker(w)
    PROVE  SlotInv'
  <1>1. CASE \E w \in Workers : Worker(w)
    BY <1>1, KeepsSlots DEF Worker, Take, Emit, Break, Store, Die, ScheduleSubagent,
                            RequestCancel, WorkerOnly, loopVars, queueVars
  <1>2. QED
    BY <1>1, KeepsSlots DEF Produce, CronDue, OwnerQueues, HttpCreate, HttpEnqueue,
                            BudgetExhausted, vars, loopVars, queueVars

LEMMA StepSlots ==
    ASSUME HttpCancels = {}, TypeOK, SlotInv, [Next]_vars
    PROVE  SlotInv'
  <1>1. \A id \in Ids : ~HttpCancel(id)
    BY DEF HttpCancel
  <1>2. CASE Http
    BY <1>1, <1>2, OthersSlots DEF Http
  <1>3. QED
    BY <1>2, HealthSlots, DrainSlots, CancelSlots, TimeoutsSlots, AssignTasksSlots, OthersSlots
       DEF Next, MainLoop

(* The entries, the copy of them and a cancel in progress agree throughout.  *)
LEMMA SlotInvariant ==
    ASSUME HttpCancels = {}
    PROVE  Spec => []SlotInv
  <1>1. Init => SlotInv
    BY InitSlots
  <1>2. TypeOK /\ SlotInv /\ [Next]_vars => SlotInv'
    BY StepSlots
  <1>3. QED
    BY <1>1, <1>2, QueueTyping, PTL DEF Spec

(* As long as nobody cancels over HTTP, an entry of RUNNING always names a   *)
(* worker slot that is busy with that very task: enforce_task_timeouts never *)
(* kills another task's process through a stale entry, and a dead worker's   *)
(* task is always found by its slot.                                         *)
THEOREM RunningAgrees ==
    ASSUME HttpCancels = {}
    PROVE  Spec => []RunningIsBusy
  <1>1. SlotInv => RunningIsBusy
    BY DEF SlotInv
  <1>2. QED
    BY <1>1, SlotInvariant, PTL
=============================================================================
