------------------------- MODULE TaskQueueLost_proofs -------------------------
(* What the supervisor owes is not lost, and subagents stay under their      *)
(* limit, in deployments where no task is posted.  The proofs follow         *)
(* what is over: a guarded write never takes a terminal status or a cancel   *)
(* request back, so that an event, a copy or a slot that was right about it  *)
(* stays right however late it is used.                                      *)
EXTENDS TaskQueueOnce_proofs

(* In the code only posted tasks and subagents have a child drive; without   *)
(* posted tasks those are the subagents.  A retry is never one of them: ids  *)
(* come from uuid4.                                                          *)
OwnDrives ==
    /\ NoHttp
    /\ Forked = Subagents
    /\ Subagents \cap (RetryIds \cup CronIds) = {}

Live(status) == status \in {"scheduled", "running", "interrupted"}

(* Over for the data root, and over for whoever reads both drives.           *)
Latched == TrulyTerminal \cup {"cancel_requested"}
Settled(id) == result[id] \in Latched
Over(id) == Settled(id) \/ (id \in Forked /\ child[id] \in TrulyTerminal)

(* A task and its origin are both subagents or neither is.                   *)
Agrees(t) == t.origin \in Subagents <=> t.id \in Subagents
AllAgree(q) == \A i \in DOMAIN q : Agrees(q[i])
HeldAgree(p) == AllAgree(p.inbox) /\ (p.does # Idle => Agrees(p.does.task))
EntryAgrees(entry, id) == entry # NotRunning => entry.task.id = id /\ Agrees(entry.task)

AgreeInv ==
    /\ AllAgree(pending)
    /\ \A id \in Ids : EntryAgrees(running[id], id) /\ EntryAgrees(todo[id], id)
    /\ \A w \in Workers : HeldAgree(proc[w])
-----------------------------------------------------------------------------
(* Sequences: who is in a queue after an insertion, a removal, a tail.       *)
Within(r, q) == \A i \in DOMAIN r : \E j \in DOMAIN q : r[i] = q[j]

LEMMA EnqueuedMembers ==
    ASSUME NEW q \in Seq(Tasks), NEW t \in Tasks, NEW front \in BOOLEAN
    PROVE  LET r == Enqueued(q, t, front)
           IN  /\ \A i \in DOMAIN r : r[i] = t \/ \E j \in DOMAIN q : r[i] = q[j]
               /\ \E i \in DOMAIN r : r[i] = t
               /\ Within(q, r)
  <1> DEFINE r == Enqueued(q, t, front)
             n == Len(q) + 1
  <1>1. PICK p \in 1 .. n : \A k \in 1 .. n :
            r[k] = IF k < p THEN q[k] ELSE IF k = p THEN t ELSE q[k - 1]
    BY EnqueuedEntries
  <1>2. r \in Seq(Tasks) /\ Len(r) = n
    BY EnqueuedEntries
  <1> HIDE DEF r
  <1>3. DOMAIN q = 1 .. Len(q) /\ DOMAIN r = 1 .. n /\ Len(q) \in Nat
    BY <1>2, LenProperties
  <1>4. \A k \in DOMAIN r : k # p => \E j \in DOMAIN q : r[k] = q[j]
    <2>1. SUFFICES ASSUME NEW k \in 1 .. n, k # p
                   PROVE  \E j \in DOMAIN q : r[k] = q[j]
      BY <1>3
    <2>2. CASE k < p
      BY <1>1, <1>3, <2>2
    <2>3. CASE k > p
      <3>1. k - 1 \in DOMAIN q /\ r[k] = q[k - 1]
        BY <1>1, <1>3, <2>3
      <3> QED
        BY <3>1
    <2> QED
      BY <1>3, <2>1, <2>2, <2>3
  <1>5. r[p] = t /\ p \in DOMAIN r
    BY <1>1, <1>3
  <1>6. \A j \in DOMAIN q : \E k \in DOMAIN r : q[j] = r[k]
    <2>1. SUFFICES ASSUME NEW j \in 1 .. Len(q)
                   PROVE  \E k \in DOMAIN r : q[j] = r[k]
      BY <1>3
    <2>2. CASE j < p
      <3>1. j \in DOMAIN r /\ r[j] = q[j]
        BY <1>1, <1>3, <2>2
      <3> QED
        BY <3>1
    <2>3. CASE ~(j < p)
      <3>1. j + 1 \in 1 .. n /\ ~(j + 1 < p) /\ j + 1 # p /\ j + 1 - 1 = j
        BY <1>3, <2>3
      <3>2. r[j + 1] = q[j]
        BY <1>1, <3>1
      <3> QED
        BY <1>3, <3>1, <3>2
    <2> QED
      BY <2>2, <2>3
  <1> QED
    BY <1>4, <1>5, <1>6 DEF r, Within

LEMMA RemovedMembers ==
    ASSUME NEW q \in Seq(Tasks), NEW i \in 1 .. Len(q)
    PROVE  /\ Within(RemoveAt(q, i), q)
           /\ \A j \in DOMAIN q : j # i => \E k \in DOMAIN RemoveAt(q, i) : RemoveAt(q, i)[k] = q[j]
  <1> DEFINE r == RemoveAt(q, i)
             n == Len(q) - 1
  <1>1. \A k \in 1 .. n : r[k] = IF k < i THEN q[k] ELSE q[k + 1]
    BY RemovedEntries
  <1>2. r \in Seq(Tasks) /\ Len(r) = n
    BY RemoveAtType
  <1> HIDE DEF r
  <1>3. DOMAIN q = 1 .. Len(q) /\ DOMAIN r = 1 .. n /\ Len(q) \in Nat
    BY <1>2, LenProperties
  <1>4. Within(r, q)
    <2>1. SUFFICES ASSUME NEW k \in 1 .. n
                   PROVE  \E j \in DOMAIN q : r[k] = q[j]
      BY <1>3 DEF Within
    <2>2. k \in DOMAIN q /\ k + 1 \in DOMAIN q
      BY <1>3
    <2> QED
      BY <1>1, <2>2
  <1>5. \A j \in DOMAIN q : j # i => \E k \in DOMAIN r : r[k] = q[j]
    <2>1. SUFFICES ASSUME NEW j \in 1 .. Len(q), j # i
                   PROVE  \E k \in DOMAIN r : r[k] = q[j]
      BY <1>3
    <2>2. CASE j < i
      <3>1. j \in 1 .. n /\ r[j] = q[j]
        BY <1>1, <1>3, <2>2
      <3> QED
        BY <1>3, <3>1
    <2>3. CASE j > i
      <3>1. j - 1 \in 1 .. n /\ ~(j - 1 < i) /\ j - 1 + 1 = j
        BY <1>3, <2>3
      <3>2. r[j - 1] = q[j]
        BY <1>1, <3>1
      <3> QED
        BY <1>3, <3>1, <3>2
    <2> QED
      BY <1>3, <2>1, <2>2, <2>3
  <1> QED
    BY <1>4, <1>5 DEF r

LEMMA TailMembers ==
    ASSUME NEW S, NEW q \in Seq(S), q # <<>>
    PROVE  /\ Within(Tail(q), q)
           /\ \E j \in DOMAIN q : Head(q) = q[j]
           /\ \A j \in DOMAIN q :
                 q[j] = Head(q) \/ \E k \in DOMAIN Tail(q) : Tail(q)[k] = q[j]
  <1>1. /\ Len(q) \in Nat /\ DOMAIN q = 1 .. Len(q) /\ DOMAIN Tail(q) = 1 .. Len(q) - 1
        /\ Head(q) = q[1] /\ 1 \in DOMAIN q
        /\ \A i \in DOMAIN Tail(q) : Tail(q)[i] = q[i + 1] /\ i + 1 \in DOMAIN q
    BY TailEntries
  <1>2. ASSUME NEW j \in DOMAIN q, j # 1
        PROVE  \E k \in DOMAIN Tail(q) : Tail(q)[k] = q[j]
    <2>1. j - 1 \in DOMAIN Tail(q) /\ j - 1 + 1 = j
      BY <1>1, <1>2
    <2> QED
      BY <1>1, <2>1
  <1> QED
    BY <1>1, <1>2 DEF Within

LEMMA AppendMembers ==
    ASSUME NEW S, NEW q \in Seq(S), NEW e \in S
    PROVE  /\ \A i \in DOMAIN Append(q, e) :
                 Append(q, e)[i] = e \/ \E j \in DOMAIN q : Append(q, e)[i] = q[j]
           /\ \E i \in DOMAIN Append(q, e) : Append(q, e)[i] = e
           /\ Within(q, Append(q, e))
  <1>1. /\ Len(q) \in Nat /\ DOMAIN q = 1 .. Len(q)
        /\ DOMAIN Append(q, e) = 1 .. Len(q) + 1
        /\ Append(q, e)[Len(q) + 1] = e
        /\ \A i \in DOMAIN q : Append(q, e)[i] = q[i]
    BY LongerEntries
  <1>2. \A i \in DOMAIN Append(q, e) : i \in DOMAIN q \/ i = Len(q) + 1
    BY <1>1
  <1>3. Len(q) + 1 \in DOMAIN Append(q, e) /\ \A i \in DOMAIN q : i \in DOMAIN Append(q, e)
    BY <1>1
  <1> QED
    BY <1>1, <1>2, <1>3 DEF Within

(* Who is in PENDING after the task t is queued.                             *)
LEMMA EnqueuedQueue ==
    ASSUME TypeOK, NEW t \in Tasks, NEW front \in BOOLEAN,
           pending' = Enqueued(pending, t, front)
    PROVE  /\ \A id \in Ids : Queued(id)' <=> Queued(id) \/ id = t.id
           /\ AllAgree(pending) /\ Agrees(t) => AllAgree(pending')
  <1>1. /\ \A i \in DOMAIN pending' :
              pending'[i] = t \/ \E j \in DOMAIN pending : pending'[i] = pending[j]
        /\ \E i \in DOMAIN pending' : pending'[i] = t
        /\ Within(pending, pending')
    BY EnqueuedMembers DEF TypeOK
  <1> QED
    BY <1>1 DEF Queued, AllAgree, Within
-----------------------------------------------------------------------------
(* What is over stays over.                                                  *)
LEMMA GuardedEnds ==
    ASSUME NEW old \in Files, NEW new \in Files, new # NoResult
    PROVE  /\ Guarded(old, new) \in {old, new}
           /\ old \in TrulyTerminal => Guarded(old, new) = old
           /\ old \in Latched => Guarded(old, new) \in Latched
           /\ new \in {"failed", "cancelled"} => Guarded(old, new) \in TrulyTerminal
           /\ new \in Latched => Guarded(old, new) \in Latched
           /\ new \in TrulyTerminal /\ old # "cancel_requested"
                  => Guarded(old, new) \in TrulyTerminal
           /\ old \notin Latched => Guarded(old, new) = new
  BY DEF Guarded, IsRegression, RegressionGuardFloor, StatusRank, Ranked, TrulyTerminal, Latched,
         Files, Statuses, Unranked, NoResult

LEMMA LiveStatuses ==
    \A s \in Files : /\ Live(s) => s \notin Latched /\ s # NoResult
                     /\ s \in TrulyTerminal => s \in Latched
  BY DEF Live, Latched, TrulyTerminal, NoResult

LEMMA WrittenSettles ==
    ASSUME TypeOK, NEW id \in Ids, NEW s \in Files, s # NoResult,
           result' = Written(id, s)
    PROVE  /\ \A i \in Ids : i # id => result'[i] = result[i]
           /\ result'[id] = Guarded(result[id], s)
           /\ \A i \in Ids : Settled(i) => Settled(i)'
           /\ s \in Latched => Settled(id)'
           /\ s \in {"failed", "cancelled"} => result'[id] \in TrulyTerminal
           /\ ~Settled(id) => result'[id] = s
  <1>1. result[id] \in Files
    BY DEF TypeOK
  <1>2. /\ \A i \in Ids : i # id => result'[i] = result[i]
        /\ result'[id] = Guarded(result[id], s)
    BY DEF Written, TypeOK
  <1> QED
    BY <1>1, <1>2, GuardedEnds DEF Settled, Latched

(* _handle_task_done leaves every settled task settled, and settles the task *)
(* if either drive says it is over and RUNNING still has the entry.          *)
LEMMA TaskDoneSettles ==
    ASSUME TypeOK, NEW id \in Ids, NEW by, TaskDone(id, by)
    PROVE  /\ \A i \in Ids : i # id => result'[i] = result[i]
           /\ \A i \in Ids : Settled(i) => Settled(i)'
           /\ /\ IsRunning(id) /\ running[id].task.origin \in Forked
              /\ child[id] \in TrulyTerminal
              => Settled(id)'
           /\ ~IsRunning(id) => result'[id] = IF result[id] = NoResult THEN "failed" ELSE result[id]
  <1> DEFINE copied == IF /\ IsRunning(id)
                          /\ running[id].task.origin \in Forked
                          /\ child[id] # NoResult
                       THEN Guarded(result[id], child[id])
                       ELSE result[id]
  <1>1. result' = [result EXCEPT ![id] = IF copied = NoResult THEN "failed" ELSE copied]
    BY DEF TaskDone
  <1>2. result[id] \in Files /\ child[id] \in Files
    BY DEF TypeOK
  <1>3. result'[id] = IF copied = NoResult THEN "failed" ELSE copied
    BY <1>1 DEF TypeOK
  <1>4. \A i \in Ids : i # id => result'[i] = result[i]
    BY <1>1 DEF TypeOK
  <1>5. NoResult \notin TrulyTerminal /\ NoResult \notin Latched /\ "failed" \in Latched
    BY DEF NoResult, TrulyTerminal, Latched
  <1>6. Settled(id) => copied \in Latched
    BY <1>2, GuardedEnds DEF Settled
  <1>7. /\ IsRunning(id) /\ running[id].task.origin \in Forked
        /\ child[id] \in TrulyTerminal
        => copied \in Latched
    BY <1>2, <1>5, GuardedEnds DEF Latched
  <1>8. ~IsRunning(id) => copied = result[id]
    OBVIOUS
  <1> HIDE DEF copied
  <1> QED
    BY <1>3, <1>4, <1>5, <1>6, <1>7, <1>8 DEF Settled

(* A report reaches one drive, and what it ends is over for its reader.      *)
LEMMA ReportSettles ==
    ASSUME TypeOK, NEW t \in Tasks, NEW s \in Files, s # NoResult, Report(t, s)
    PROVE  /\ \A i \in Ids : i # t.id => result'[i] = result[i] /\ child'[i] = child[i]
           /\ \A i \in Ids : Settled(i) => Settled(i)'
           /\ \A i \in Ids : child[i] \in TrulyTerminal => child'[i] \in TrulyTerminal
           /\ t.origin \in Forked => /\ result' = result
                                     /\ child'[t.id] = Guarded(child[t.id], s)
           /\ t.origin \notin Forked => /\ child' = child
                                        /\ result' = Written(t.id, s)
  <1>1. t.id \in Ids
    BY DEF Tasks
  <1>2. child[t.id] \in Files
    BY <1>1 DEF TypeOK
  <1>3. CASE t.origin \in Forked
    <2>1. child' = [child EXCEPT ![t.id] = Guarded(@, s)] /\ result' = result
      BY <1>3 DEF Report
    <2>2. /\ child'[t.id] = Guarded(child[t.id], s)
          /\ \A i \in Ids : i # t.id => child'[i] = child[i]
      BY <1>1, <2>1 DEF TypeOK
    <2> QED
      BY <1>2, <1>3, <2>1, <2>2, GuardedEnds DEF Settled
  <1>4. CASE t.origin \notin Forked
    <2>1. result' = Written(t.id, s) /\ child' = child
      BY <1>4 DEF Report
    <2> QED
      BY <1>1, <1>4, <2>1, WrittenSettles
  <1> QED
    BY <1>3, <1>4

LEMMA StatusFiles ==
    {"requested", "scheduled", "running", "interrupted", "cancel_requested", "completed",
     "failed", "cancelled", "rejected_duplicate"} \subseteq Files \ {NoResult}
  BY StatusTypes DEF NoResult

(* No step of anybody takes a terminal status or a cancel request back.      *)
LEMMA SettledStays ==
    ASSUME TypeOK, [Next]_vars, NEW id \in Ids, Settled(id)
    PROVE  Settled(id)'
  <1>1. ASSUME NEW i \in Ids, NEW s \in Files \ {NoResult}, result' = Written(i, s)
        PROVE  Settled(id)'
    BY <1>1, WrittenSettles
  <1>2. ASSUME result' = result
        PROVE  Settled(id)'
    BY <1>2 DEF Settled
  <1>3. CASE Health
    <2>1. ASSUME NEW w \in Workers, ReapFailed(w) \/ ReapRetry(w)
          PROVE  Settled(id)'
      <3>1. slot[w] \in Ids
        BY <2>1, ReapTaskType DEF ReapFailed, ReapRetry
      <3> QED
        BY <1>1, <2>1, <3>1, StatusFiles DEF ReapFailed, ReapRetry
    <2>2. CASE CrashStorm
      <3>1. result[id] \in Files
        BY DEF TypeOK
      <3>2. result'[id] \in {result[id], Guarded(result[id], "failed")}
        BY <2>2 DEF CrashStorm
      <3> QED
        BY <3>1, <3>2, GuardedEnds, StatusFiles DEF Settled
    <2> QED
      BY <1>2, <1>3, <2>1, <2>2 DEF Health, ReapUntracked, ReapFinished, HealthEnd, fileVars
  <1>4. CASE Drain
    <2>1. CASE DrainTaskDone
      BY <2>1, HeadType, TaskDoneSettles DEF DrainTaskDone
    <2>2. ASSUME NEW i \in Ids, DrainNotice(i)
          PROVE  Settled(id)'
      BY <2>2, TaskDoneSettles DEF DrainNotice
    <2>3. CASE DrainReject \/ DrainSchedule
      BY <1>1, <2>3, HeadType, StatusFiles DEF DrainReject, DrainSchedule
    <2> QED
      BY <1>2, <1>4, <2>1, <2>2, <2>3 DEF Drain, DrainCancel, CancelBegin, DrainEnd, fileVars
  <1>5. CASE CancelStep
    <2>1. CASE CancelPending \/ \E w \in Workers : CancelRunning(w)
      <3>0. NoCancel.at = 0
        BY DEF NoCancel
      <3>1. cancel # NoCancel
        BY <2>1, <3>0 DEF CancelPending, CancelRunning
      <3>2. cancel.id \in Ids
        BY <3>1, CancelType
      <3> QED
        BY <1>1, <2>1, <3>2, StatusFiles DEF CancelPending, CancelRunning
    <2>2. CASE CancelMiss
      BY <1>1, <1>2, <2>2, CancelType, StatusFiles DEF CancelMiss
    <2> QED
      BY <1>2, <1>5, <2>1, <2>2 DEF CancelStep, CancelRespawn, fileVars
  <1>6. CASE Timeouts
    <2>1. ASSUME NEW i \in Ids, NEW retry \in Ids, TimeoutRetry(i, retry)
          PROVE  Settled(id)'
      <3>1. /\ result[retry] \in Files /\ result[i] \in Files
            /\ result' = [result EXCEPT ![retry] = Guarded(@, "scheduled"),
                                        ![i] = Guarded(result[i], "interrupted")]
        BY <2>1 DEF TimeoutRetry, TypeOK
      <3>2. result'[id] \in {result[id], Guarded(result[id], "scheduled"),
                             Guarded(result[id], "interrupted")}
        BY <3>1 DEF TypeOK
      <3>3. result[id] \in Files /\ result[id] \in Latched
        BY DEF TypeOK, Settled
      <3> QED
        BY <3>2, <3>3, GuardedEnds, StatusFiles DEF Settled
    <2>2. ASSUME NEW i \in Ids, TimeoutFail(i)
          PROVE  Settled(id)'
      BY <1>1, <2>2, StatusFiles DEF TimeoutFail
    <2> QED
      BY <1>2, <1>6, <2>1, <2>2 DEF Timeouts, TimeoutPass, TimeoutGrace, TimeoutsEnd, fileVars
  <1>7. CASE AssignTasks
    <2>1. CASE DropStep
      <3>1. pending[sweep.at] \in Tasks
        BY <2>1, ElementOfSeq, LenProperties DEF DropStep, TypeOK
      <3>2. pending[sweep.at].id \in Ids
        BY <3>1 DEF Tasks
      <3> QED
        BY <1>1, <1>2, <2>1, <3>2, StatusFiles DEF DropStep
    <2>2. ASSUME NEW w \in Workers, Assign(w)
          PROVE  Settled(id)'
      <3>1. Head(pending) \in Tasks
        BY <2>2, HeadTailProperties DEF Assign, TypeOK
      <3>2. Head(pending).id \in Ids
        BY <3>1 DEF Tasks
      <3> QED
        BY <1>1, <1>2, <2>2, <3>2, StatusFiles DEF Assign
    <2> QED
      BY <1>2, <1>7, <2>1, <2>2 DEF AssignTasks, AssignNothing, AssignBegin, DropDone, DropEnd,
                                    AssignEnd, fileVars
  <1>8. CASE Produce \/ BudgetExhausted \/ Http
    BY <1>1, <1>2, <1>8, StatusFiles DEF Produce, CronDue, OwnerQueues, BudgetExhausted, Http,
                                         HttpCreate, HttpCancel, CancelBegin, HttpEnqueue, fileVars
  <1>9. ASSUME NEW w \in Workers, Worker(w)
        PROVE  Settled(id)'
    <2>1. ASSUME NEW t, t \in Tasks, NEW s \in Files \ {NoResult}, Report(t, s)
          PROVE  Settled(id)'
      BY <2>1, ReportSettles
    <2>2. CASE Take(w)
      <3>1. Head(proc[w].inbox) \in Tasks
        BY <2>2, ProcessType, HeadTailProperties DEF Take, TypeOK
      <3> QED
        BY <2>1, <2>2, <3>1, StatusFiles DEF Take
    <2>3. ASSUME NEW s \in {"completed", "failed"}, Store(w, s)
          PROVE  Settled(id)'
      BY <2>1, <2>3, DoesType, StatusFiles DEF Store, Working
    <2>4. ASSUME NEW i \in Ids, ScheduleSubagent(w, i) \/ RequestCancel(w, i)
          PROVE  Settled(id)'
      BY <1>1, <2>4, StatusFiles DEF ScheduleSubagent, RequestCancel
    <2> QED
      BY <1>2, <1>9, <2>2, <2>3, <2>4 DEF Worker, Emit, Break, Die
  <1> QED
    BY <1>2, <1>3, <1>4, <1>5, <1>6, <1>7, <1>8, <1>9 DEF Next, MainLoop, vars, fileVars

(* The child drives are written by the workers' reports only.                *)
LEMMA ChildUntouched ==
    ASSUME [Next]_vars, \A w \in Workers : ~Worker(w)
    PROVE  child' = child
  <1>1. CASE Health \/ Drain
    BY <1>1 DEF Health, ReapUntracked, ReapFinished, ReapFailed, ReapRetry, ReapTask, Reap,
                HealthEnd, CrashStorm, Drain, DrainTaskDone, DrainNotice, TaskDone, DrainReject,
                DrainSchedule, DrainCancel, CancelBegin, DrainEnd, fileVars
  <1>2. CASE Timeouts \/ AssignTasks
    BY <1>2 DEF Timeouts, TimeoutPass, TimeoutGrace, TimeoutFail, TimeoutRetry, TimeoutStop,
                TimeoutsEnd, AssignTasks, AssignNothing, AssignBegin, DropStep, DropDone, DropEnd,
                Assign, AssignEnd, fileVars
  <1>3. CASE Produce \/ CancelStep \/ Http \/ BudgetExhausted
    BY <1>3 DEF Produce, CronDue, OwnerQueues, CancelStep, CancelPending, CancelRunning,
                CancelRespawn, CancelMiss, Http, HttpCreate, HttpCancel, CancelBegin, HttpEnqueue,
                BudgetExhausted, fileVars
  <1> QED
    BY <1>1, <1>2, <1>3 DEF Next, MainLoop, vars, fileVars
-----------------------------------------------------------------------------
(* Tasks and origins: most steps carry fewer tasks.                          *)
LEMMA FewerAgree ==
    ASSUME AgreeInv, AllAgree(pending'),
           \A id \in Ids : /\ running'[id] \in {running[id], NotRunning}
                           /\ todo'[id] \in {todo[id], NotRunning},
           \A w \in Workers : HeldAgree(proc[w]) => HeldAgree(proc'[w])
    PROVE  AgreeInv'
  BY DEF AgreeInv, EntryAgrees

LEMMA FreshAgrees ==
    /\ HeldAgree(Fresh)
    /\ \A how \in {"exited", "signalled"} : HeldAgree([Fresh EXCEPT !.state = how])
  <1>1. Fresh.inbox = <<>> /\ Fresh.does = Idle /\ DOMAIN <<>> = {}
    BY EmptySeq, LenProperties DEF Fresh
  <1> QED
    BY <1>1 DEF HeldAgree, AllAgree, Fresh

LEMMA RespawnedAgrees ==
    ASSUME TypeOK, NEW w \in Workers, proc' = Respawned(w)
    PROVE  \A v \in Workers : HeldAgree(proc[v]) => HeldAgree(proc'[v])
  <1>1. \A v \in Workers : proc'[v] = IF v = w THEN Fresh ELSE proc[v]
    BY DEF TypeOK, Respawned
  <1> QED
    BY <1>1, FreshAgrees

LEMMA WithoutFewerEntries ==
    ASSUME TypeOK, NEW id, running' = Without(id)
    PROVE  \A i \in Ids : running'[i] = IF i = id THEN NotRunning ELSE running[i]
  BY DEF TypeOK, Without

LEMMA NewAgrees == \A id \in Ids : Agrees(New(id)) /\ New(id).id = id /\ New(id) \in Tasks
  BY NewType DEF Agrees, New

LEMMA HealthAgrees ==
    ASSUME TypeOK, AgreeInv, Health
    PROVE  AgreeInv'
  <1>1. ASSUME NEW w \in Workers, Reap(w), AllAgree(pending'),
               running' = running \/ \E id \in Ids : running' = Without(id)
        PROVE  AgreeInv'
    <2>1. \A v \in Workers : HeldAgree(proc[v]) => HeldAgree(proc'[v])
      BY <1>1, RespawnedAgrees DEF Reap
    <2>2. \A i \in Ids : running'[i] \in {running[i], NotRunning}
      BY <1>1, WithoutFewerEntries
    <2> QED
      BY <1>1, <2>1, <2>2, FewerAgree DEF Reap
  <1>2. ASSUME NEW w \in Workers, ReapUntracked(w) \/ ReapFinished(w) \/ ReapFailed(w)
        PROVE  AgreeInv'
    <2>1. Reap(w) /\ pending' = pending
      BY <1>2 DEF ReapUntracked, ReapFinished, ReapFailed, ReapTask
    <2>2. running' = running \/ \E id \in Ids : running' = Without(id)
      BY <1>2, ReapTaskType DEF ReapUntracked, ReapFinished, ReapFailed, ReapTask
    <2> QED
      BY <1>1, <2>1, <2>2 DEF AgreeInv, AllAgree
  <1>3. ASSUME NEW w \in Workers, ReapRetry(w)
        PROVE  AgreeInv'
    <2> DEFINE t == Again(running[slot[w]].task, slot[w])
    <2>1. /\ ReapTask(w) /\ slot[w] \in Ids /\ IsRunning(slot[w])
          /\ running[slot[w]].task \in Tasks
      BY <1>3, ReapTaskType DEF ReapRetry, ReapTask, Tracked
    <2>2. t \in Tasks /\ Agrees(t)
      <3>1. /\ running[slot[w]].task.id = slot[w]
            /\ Agrees(running[slot[w]].task)
        BY <2>1 DEF AgreeInv, EntryAgrees, IsRunning
      <3> QED
        BY <2>1, <3>1, AgainType DEF Again, Agrees, Tasks
    <2>3. pending' = Enqueued(pending, t, TRUE)
      BY <1>3 DEF ReapRetry
    <2> HIDE DEF t
    <2>4. AllAgree(pending')
      BY <2>2, <2>3, EnqueuedQueue DEF AgreeInv
    <2> QED
      BY <1>1, <2>1, <2>4 DEF ReapTask
  <1>4. CASE HealthEnd
    BY <1>4 DEF HealthEnd, queueVars, AgreeInv, EntryAgrees, AllAgree, HeldAgree
  <1>5. CASE CrashStorm
    <2>1. AllAgree(pending')
      BY <1>5, EmptySeq, LenProperties DEF CrashStorm, AllAgree
    <2>2. \A w \in Workers : HeldAgree(proc'[w])
      BY <1>5, FreshAgrees DEF CrashStorm
    <2> QED
      BY <1>5, <2>1, <2>2, FewerAgree DEF CrashStorm
  <1> QED
    BY <1>2, <1>3, <1>4, <1>5 DEF Health

LEMMA DrainAgrees ==
    ASSUME TypeOK, AgreeInv, Drain
    PROVE  AgreeInv'
  <1>1. ASSUME NEW id \in Ids, NEW by, TaskDone(id, by)
        PROVE  AgreeInv'
    <2>1. UNCHANGED <<pending, proc, todo>> /\ running' = Without(id)
      BY <1>1 DEF TaskDone, loopVars
    <2> QED
      BY <2>1, WithoutFewerEntries, FewerAgree DEF AgreeInv
  <1>2. CASE DrainTaskDone
    BY <1>1, <1>2, HeadType DEF DrainTaskDone
  <1>3. ASSUME NEW id \in Ids, DrainNotice(id)
        PROVE  AgreeInv'
    BY <1>1, <1>3 DEF DrainNotice
  <1>4. CASE DrainSchedule
    <2>1. /\ pending' = Enqueued(pending, New(Head(events).id), FALSE)
          /\ UNCHANGED <<running, proc, todo>> /\ Head(events).id \in Ids
      BY <1>4, HeadType DEF DrainSchedule, loopVars
    <2>2. AllAgree(pending')
      BY <2>1, NewAgrees, EnqueuedQueue DEF AgreeInv
    <2> QED
      BY <2>1, <2>2, FewerAgree
  <1>5. CASE DrainReject \/ DrainCancel
    BY <1>5, FewerAgree DEF DrainReject, DrainCancel, CancelBegin, queueVars, loopVars, AgreeInv
  <1>6. CASE DrainEnd
    BY <1>6 DEF DrainEnd, queueVars, AgreeInv, EntryAgrees, AllAgree, HeldAgree
  <1> QED
    BY <1>2, <1>3, <1>4, <1>5, <1>6 DEF Drain

LEMMA CancelAgrees ==
    ASSUME TypeOK, LockInv, AgreeInv, CancelStep
    PROVE  AgreeInv'
  <1>1. CASE CancelPending
    <2>1. cancel.at \in 1 .. Len(pending) /\ pending \in Seq(Tasks)
      <3>0. NoCancel.at = 0
        BY DEF NoCancel
      <3>1. cancel.at \in Nat
        BY <1>1, <3>0, CancelType DEF CancelPending
      <3> QED
        BY <1>1, <3>1, LenProperties DEF CancelPending, LockInv, PopInRange, TypeOK
    <2>2. AllAgree(pending')
      BY <1>1, <2>1, RemovedMembers DEF CancelPending, AllAgree, Within, AgreeInv
    <2> QED
      BY <1>1, <2>2, FewerAgree DEF CancelPending, loopVars
  <1>2. ASSUME NEW w \in Workers, CancelRunning(w)
        PROVE  AgreeInv'
    <2>1. /\ UNCHANGED <<pending, todo>> /\ running' = Without(cancel.id)
          /\ proc' = [proc EXCEPT ![w] = [Fresh EXCEPT !.state = "signalled"]]
      BY <1>2 DEF CancelRunning, loopVars
    <2>2. \A v \in Workers : proc'[v] = IF v = w THEN [Fresh EXCEPT !.state = "signalled"]
                                        ELSE proc[v]
      BY <2>1 DEF TypeOK
    <2> QED
      BY <2>1, <2>2, FreshAgrees, WithoutFewerEntries, FewerAgree DEF AgreeInv
  <1>3. CASE CancelRespawn
    <2>1. cancel.worker \in Workers
      BY <1>3, CancelType DEF CancelRespawn
    <2>2. \A v \in Workers : HeldAgree(proc[v]) => HeldAgree(proc'[v])
      BY <1>3, <2>1, RespawnedAgrees DEF CancelRespawn
    <2> QED
      BY <1>3, <2>2, FewerAgree DEF CancelRespawn, loopVars, AgreeInv
  <1>4. CASE CancelMiss
    BY <1>4, FewerAgree DEF CancelMiss, queueVars, loopVars, AgreeInv
  <1> QED
    BY <1>1, <1>2, <1>3, <1>4 DEF CancelStep

LEMMA TimeoutsAgree ==
    ASSUME OwnDrives, TypeOK, AgreeInv, Timeouts
    PROVE  AgreeInv'
  <1>1. ASSUME NEW id \in Ids, TimeoutPass(id)
        PROVE  AgreeInv'
    BY <1>1, FewerAgree DEF TimeoutPass, queueVars, AgreeInv, TypeOK
  <1>2. ASSUME NEW id \in Ids, TimeoutGrace(id)
        PROVE  AgreeInv'
    <2>1. todo[id] \in Entries /\ EntryAgrees(todo[id], id) /\ todo[id] # NotRunning
      BY <1>2, TodoType DEF TimeoutGrace, At, AgreeInv
    <2>2. Graced(todo[id]).task = todo[id].task
      BY <2>1 DEF Graced, Entries
    <2>3. EntryAgrees(Graced(todo[id]), id)
      BY <2>1, <2>2 DEF EntryAgrees
    <2>4. \A i \in Ids : /\ running'[i] = IF i = id THEN Graced(todo[id]) ELSE running[i]
                         /\ todo'[i] = IF i = id THEN NotRunning ELSE todo[i]
      BY <1>2 DEF TimeoutGrace, TypeOK
    <2>5. UNCHANGED <<pending, proc>>
      BY <1>2 DEF TimeoutGrace
    <2> QED
      BY <2>3, <2>4, <2>5 DEF AgreeInv, EntryAgrees, AllAgree, HeldAgree
  <1>3. ASSUME NEW id \in Ids, TimeoutStop(id), AllAgree(pending')
        PROVE  AgreeInv'
    <2>1. todo[id].worker \in Workers
      BY <1>3, TodoType DEF TimeoutStop
    <2>2. \A v \in Workers : HeldAgree(proc[v]) => HeldAgree(proc'[v])
      BY <1>3, <2>1, RespawnedAgrees DEF TimeoutStop
    <2>3. \A i \in Ids : todo'[i] \in {todo[i], NotRunning}
      BY <1>3 DEF TimeoutStop, TypeOK
    <2>4. \A i \in Ids : running'[i] \in {running[i], NotRunning}
      BY <1>3, WithoutFewerEntries DEF TimeoutStop
    <2> QED
      BY <1>3, <2>2, <2>3, <2>4, FewerAgree
  <1>4. ASSUME NEW id \in Ids, TimeoutFail(id)
        PROVE  AgreeInv'
    BY <1>3, <1>4 DEF TimeoutFail, AgreeInv
  <1>5. ASSUME NEW id \in Ids, NEW retry \in Ids, TimeoutRetry(id, retry)
        PROVE  AgreeInv'
    <2> DEFINE t == Again(todo[id].task, retry)
    <2>1. At(id) /\ pending' = Enqueued(pending, t, TRUE) /\ TimeoutStop(id)
          /\ IF todo[id].task.origin \in Subagents THEN retry = id ELSE retry \in RetryIds
      BY <1>5 DEF TimeoutRetry, TimeoutStop
    <2>2. todo[id].task \in Tasks /\ todo[id].task.id = id /\ Agrees(todo[id].task)
      BY <2>1, TodoType DEF At, AgreeInv, EntryAgrees
    <2>3. t \in Tasks /\ t.id = retry /\ t.origin = todo[id].task.origin
      BY <2>2, AgainType DEF Again, Tasks
    <2>4. Agrees(t)
      BY <2>1, <2>2, <2>3 DEF Agrees, OwnDrives
    <2> HIDE DEF t
    <2>5. AllAgree(pending')
      BY <2>1, <2>3, <2>4, EnqueuedQueue DEF AgreeInv
    <2> QED
      BY <1>3, <2>1, <2>5
  <1>6. CASE TimeoutsEnd
    BY <1>6, FewerAgree DEF TimeoutsEnd, queueVars, AgreeInv
  <1> QED
    BY <1>1, <1>2, <1>4, <1>5, <1>6 DEF Timeouts

LEMMA AssignAgrees ==
    ASSUME TypeOK, AgreeInv, NEW w \in Workers, Assign(w)
    PROVE  AgreeInv'
  <1> DEFINE t == Head(pending)
             entry == [kind |-> "entry", task |-> t, worker |-> w, grace |-> FALSE]
  <1>1. /\ pending \in Seq(Tasks) /\ pending # <<>> /\ pending' = Tail(pending)
        /\ running' = [running EXCEPT ![t.id] = entry]
        /\ proc' = [proc EXCEPT ![w].inbox = Append(@, t)] /\ todo' = todo
    BY DEF Assign, loopVars, TypeOK
  <1>2. t \in Tasks /\ t.id \in Ids
    <2>1. t \in Tasks
      BY <1>1, HeadTailProperties
    <2> QED
      BY <2>1 DEF Tasks
  <1>3. Agrees(t) /\ AllAgree(pending')
    BY <1>1, TailMembers DEF AgreeInv, AllAgree, Within
  <1>4. \A i \in Ids : running'[i] = IF i = t.id THEN entry ELSE running[i]
    BY <1>1 DEF TypeOK
  <1>5. EntryAgrees(entry, t.id)
    BY <1>3 DEF EntryAgrees
  <1>6. \A v \in Workers : HeldAgree(proc'[v])
    <2>1. /\ proc[w].inbox \in Seq(Tasks) /\ proc[w] \in Processes
      BY ProcessType DEF TypeOK
    <2>2. /\ proc'[w].inbox = Append(proc[w].inbox, t) /\ proc'[w].does = proc[w].does
          /\ \A v \in Workers : v # w => proc'[v] = proc[v]
      BY <1>1, <2>1 DEF TypeOK, Processes
    <2> HIDE DEF t
    <2>3. AllAgree(proc'[w].inbox)
      BY <1>2, <1>3, <2>1, <2>2, AppendMembers DEF AgreeInv, HeldAgree, AllAgree
    <2> QED
      BY <2>2, <2>3 DEF AgreeInv, HeldAgree
  <1> HIDE DEF entry
  <1> QED
    BY <1>1, <1>2, <1>3, <1>4, <1>5, <1>6 DEF AgreeInv

LEMMA AssignTasksAgree ==
    ASSUME TypeOK, OnceInv, AgreeInv, AssignTasks
    PROVE  AgreeInv'
  <1>1. ASSUME UNCHANGED <<running, todo, proc>>, Within(pending', pending)
        PROVE  AgreeInv'
    BY <1>1, FewerAgree DEF AgreeInv, AllAgree, Within
  <1>2. Within(pending, pending)
    BY DEF Within
  <1>3. CASE DropEnd
    <2>1. Within(sweep.keep, pending)
      BY <1>3 DEF DropEnd, OnceInv, KeepInv, Within
    <2> QED
      BY <1>1, <1>2, <1>3, <2>1 DEF DropEnd
  <1>4. CASE AssignNothing \/ AssignBegin \/ DropStep \/ DropDone \/ AssignEnd
    BY <1>1, <1>2, <1>4 DEF AssignNothing, AssignBegin, DropStep, DropDone, AssignEnd, queueVars
  <1> QED
    BY <1>3, <1>4, AssignAgrees DEF AssignTasks

LEMMA ProduceAgrees ==
    ASSUME TypeOK, AgreeInv, Produce
    PROVE  AgreeInv'
  <1>1. PICK id \in Ids : CronDue(id) \/ OwnerQueues(id)
    BY DEF Produce
  <1>2. pending' = Enqueued(pending, New(id), FALSE) /\ UNCHANGED <<running, todo, proc>>
    BY <1>1 DEF CronDue, OwnerQueues, loopVars
  <1>3. AllAgree(pending')
    BY <1>2, NewAgrees, EnqueuedQueue DEF AgreeInv
  <1> QED
    BY <1>2, <1>3, FewerAgree

(* What a worker's step leaves in its process.                               *)
LEMMA WorkerSteps ==
    ASSUME TypeOK, NEW w \in Workers, Worker(w)
    PROVE  /\ UNCHANGED <<queueVars, notices, successor, loopVars, cancel, http, spent, starts>>
           /\ \A v \in Workers : v # w => proc'[v] = proc[v]
           /\ \/ proc'[w] = proc[w]
              \/ proc'[w] = [proc[w] EXCEPT !.does = Idle]
              \/ /\ Working(w)
                 /\ proc'[w] = [proc[w] EXCEPT !.does.kind = "stored"]
              \/ \E how \in {"exited", "signalled"} : proc'[w] = [Fresh EXCEPT !.state = how]
              \/ /\ Up(w) /\ proc[w].does = Idle /\ proc[w].inbox # <<>>
                 /\ proc'[w] = [proc[w] EXCEPT !.inbox = Tail(@),
                                               !.does = [kind |-> "working",
                                                         task |-> Head(proc[w].inbox)]]
  <1>1. UNCHANGED <<queueVars, notices, successor, loopVars, cancel, http, spent, starts>>
    BY DEF Worker, Take, Store, Emit, Break, Die, ScheduleSubagent, RequestCancel, WorkerOnly
  <1>2. CASE Take(w)
    BY <1>1, <1>2 DEF Take, TypeOK
  <1>3. CASE \E status \in {"completed", "failed"} : Store(w, status)
    <2>1. Working(w) /\ proc' = [proc EXCEPT ![w].does.kind = "stored"]
      BY <1>3 DEF Store
    <2>2. /\ \A v \in Workers : v # w => proc'[v] = proc[v]
          /\ proc'[w] = [proc[w] EXCEPT !.does.kind = "stored"]
      BY <2>1 DEF TypeOK
    <2> QED
      BY <1>1, <2>1, <2>2
  <1>4. CASE Emit(w) \/ Break(w)
    BY <1>1, <1>4 DEF Emit, Break, TypeOK
  <1>5. CASE \E how \in {"exited", "signalled"} : Die(w, how)
    BY <1>1, <1>5 DEF Die, TypeOK
  <1>6. CASE \E id \in Ids : ScheduleSubagent(w, id) \/ RequestCancel(w, id)
    BY <1>1, <1>6 DEF ScheduleSubagent, RequestCancel
  <1> QED
    BY <1>2, <1>3, <1>4, <1>5, <1>6 DEF Worker

LEMMA WorkerAgrees ==
    ASSUME TypeOK, AgreeInv, NEW w \in Workers, Worker(w)
    PROVE  AgreeInv'
  <1>1. UNCHANGED <<pending, running, todo>>
    BY WorkerSteps DEF queueVars, loopVars
  <1>2. proc[w] \in Processes /\ proc[w].inbox \in Seq(Tasks) /\ HeldAgree(proc[w])
    BY ProcessType DEF TypeOK, AgreeInv
  <1>3. HeldAgree(proc'[w])
    <2>1. CASE proc'[w] = proc[w]
      BY <1>2, <2>1
    <2>2. CASE proc'[w] = [proc[w] EXCEPT !.does = Idle]
      <3>1. proc'[w].inbox = proc[w].inbox /\ proc'[w].does = Idle
        BY <1>2, <2>2 DEF Processes
      <3> QED
        BY <1>2, <3>1 DEF HeldAgree
    <2>3. CASE Working(w) /\ proc'[w] = [proc[w] EXCEPT !.does.kind = "stored"]
      <3>1. proc[w].does \in Busy
        BY <2>3, DoesType DEF Working
      <3>2. proc'[w].inbox = proc[w].inbox /\ proc'[w].does.task = proc[w].does.task
        BY <1>2, <2>3, <3>1 DEF Processes, Busy
      <3> QED
        BY <1>2, <2>3, <3>2 DEF HeldAgree, Working
    <2>4. CASE \E how \in {"exited", "signalled"} : proc'[w] = [Fresh EXCEPT !.state = how]
      BY <2>4, FreshAgrees
    <2>5. CASE /\ Up(w) /\ proc[w].does = Idle /\ proc[w].inbox # <<>>
               /\ proc'[w] = [proc[w] EXCEPT !.inbox = Tail(@),
                                             !.does = [kind |-> "working",
                                                       task |-> Head(proc[w].inbox)]]
      <3>1. /\ proc'[w].inbox = Tail(proc[w].inbox)
            /\ proc'[w].does.task = Head(proc[w].inbox)
        BY <1>2, <2>5 DEF Processes
      <3>2. AllAgree(Tail(proc[w].inbox)) /\ Agrees(Head(proc[w].inbox))
        BY <1>2, <2>5, TailMembers DEF HeldAgree, AllAgree, Within
      <3> QED
        BY <3>1, <3>2 DEF HeldAgree
    <2> QED
      BY <2>1, <2>2, <2>3, <2>4, <2>5, WorkerSteps
  <1>4. \A v \in Workers : HeldAgree(proc[v]) => HeldAgree(proc'[v])
    BY <1>3, WorkerSteps
  <1> QED
    BY <1>1, <1>4, FewerAgree DEF AgreeInv

LEMMA InitAgrees == Init => AgreeInv
  <1> SUFFICES ASSUME Init
               PROVE  AgreeInv
    OBVIOUS
  <1>1. AllAgree(pending)
    BY EmptySeq, LenProperties DEF Init, AllAgree
  <1> QED
    BY <1>1, FreshAgrees DEF Init, AgreeInv, EntryAgrees

LEMMA StepAgrees ==
    ASSUME OwnDrives, TypeOK, LockInv, OnceInv, Quiet, AgreeInv, [Next]_vars
    PROVE  AgreeInv'
  <1>1. ~Http
    BY DEF Http, HttpCreate, HttpCancel, HttpEnqueue, OwnDrives, NoHttp, Quiet
  <1>2. CASE BudgetExhausted \/ UNCHANGED vars
    BY <1>2, FewerAgree DEF BudgetExhausted, vars, queueVars, loopVars, AgreeInv
  <1> QED
    BY <1>1, <1>2, HealthAgrees, DrainAgrees, CancelAgrees, TimeoutsAgree, AssignTasksAgree,
       ProduceAgrees, WorkerAgrees
    DEF Next, MainLoop
-----------------------------------------------------------------------------
(* What says that a task is done says the truth: the events, the             *)
(* supervisor's own notices, and the worker that is about to report.         *)
ChildInv ==
    \A id \in Ids : /\ child[id] # "cancel_requested"
                    /\ id \notin Forked => child[id] = NoResult

Reported(id) == \E i \in DOMAIN events : events[i].kind = "task_done" /\ events[i].id = id
Stored(p) == p.does # Idle /\ p.does.kind = "stored"

OverInv ==
    /\ ChildInv
    /\ \A id \in Ids : Reported(id) => Over(id)
    /\ \A id \in notices : Settled(id)
    /\ \A w \in Workers : Stored(proc[w]) => Over(proc[w].does.task.id)

(* Who writes task_done: the agent that has stored its result.               *)
Emitted(w, e) ==
    /\ Up(w) /\ Stored(proc[w])
    /\ e.id = proc[w].does.task.id /\ e.by = w
    /\ proc' = [proc EXCEPT ![w].does = Idle]

LEMMA NewEvents ==
    ASSUME TypeOK, [Next]_vars
    PROVE  \/ events' = events
           \/ events # <<>> /\ events' = Tail(events)
           \/ \E w \in Workers, e \in Events :
                 /\ Worker(w) /\ events' = Append(events, e)
                 /\ e.kind = "task_done" => Emitted(w, e)
  <1>1. CASE Health \/ CancelStep
    BY <1>1 DEF Health, ReapUntracked, ReapFinished, ReapFailed, ReapRetry, ReapTask, Reap,
                HealthEnd, CrashStorm, CancelStep, CancelPending, CancelRunning, CancelRespawn,
                CancelMiss, eventVars
  <1>2. CASE Drain
    BY <1>2 DEF Drain, DrainTaskDone, DrainNotice, DrainReject, DrainSchedule, DrainCancel,
                DrainEnd, eventVars
  <1>3. CASE Timeouts \/ AssignTasks
    BY <1>3 DEF Timeouts, TimeoutPass, TimeoutGrace, TimeoutFail, TimeoutRetry, TimeoutStop,
                TimeoutsEnd, AssignTasks, AssignNothing, AssignBegin, DropStep, DropDone, DropEnd,
                Assign, AssignEnd, eventVars
  <1>4. CASE Produce \/ Http \/ BudgetExhausted
    BY <1>4 DEF Produce, CronDue, OwnerQueues, Http, HttpCreate, HttpCancel, HttpEnqueue,
                BudgetExhausted, eventVars
  <1>5. ASSUME NEW w \in Workers, Worker(w)
        PROVE  \/ events' = events
               \/ \E e \in Events : /\ events' = Append(events, e)
                                    /\ e.kind = "task_done" => Emitted(w, e)
    <2>1. CASE Emit(w)
      <3> DEFINE e == [kind |-> "task_done", by |-> w, id |-> proc[w].does.task.id]
      <3>1. events' = Append(events, e)
        BY <2>1 DEF Emit
      <3>2. e \in Events
        BY <2>1, DoesType DEF Emit, Events
      <3>3. Emitted(w, e)
        BY <2>1 DEF Emit, Emitted, Stored
      <3> HIDE DEF e
      <3> QED
        BY <3>1, <3>2, <3>3
    <2>2. ASSUME NEW id \in Ids, NEW kind \in {"schedule", "cancel"},
                 events' = Append(events, [kind |-> kind, id |-> id, by |-> w])
          PROVE  \E e \in Events : /\ events' = Append(events, e)
                                   /\ e.kind = "task_done" => Emitted(w, e)
      <3>1. [kind |-> kind, id |-> id, by |-> w] \in Events
        BY DEF Events
      <3> QED
        BY <2>2, <3>1
    <2> QED
      BY <1>5, <2>1, <2>2 DEF Worker, Take, Store, Break, Die, ScheduleSubagent, RequestCancel
  <1> QED
    BY <1>1, <1>2, <1>3, <1>4, <1>5 DEF Next, MainLoop, vars, eventVars

(* Steps that are no worker's leave no agent doing something new.            *)
LEMMA DoesKept ==
    ASSUME TypeOK, [Next]_vars, \A w \in Workers : ~Worker(w)
    PROVE  \A w \in Workers : proc'[w].does \in {proc[w].does, Idle}
  <1>1. ASSUME NEW w \in Workers,
               \/ proc' = Respawned(w)
               \/ proc' = [proc EXCEPT ![w] = [Fresh EXCEPT !.state = "signalled"]]
        PROVE  \A v \in Workers : proc'[v].does \in {proc[v].does, Idle}
    <2>1. Fresh.does = Idle /\ [Fresh EXCEPT !.state = "signalled"].does = Idle
      BY DEF Fresh
    <2>2. \A v \in Workers : v # w => proc'[v] = proc[v]
      BY <1>1 DEF Respawned, TypeOK
    <2>3. proc'[w] \in {Fresh, [Fresh EXCEPT !.state = "signalled"]}
      BY <1>1 DEF Respawned, TypeOK
    <2> QED
      BY <2>1, <2>2, <2>3
  <1>2. CASE proc' = proc
    BY <1>2
  <1>3. CASE Health
    <2>1. CASE CrashStorm
      BY <2>1 DEF CrashStorm, Fresh
    <2> QED
      BY <1>1, <1>2, <1>3, <2>1 DEF Health, ReapUntracked, ReapFinished, ReapFailed, ReapRetry,
                                    ReapTask, Reap, HealthEnd
  <1>4. CASE CancelStep
    <2>1. CancelRespawn => cancel.worker \in Workers
      BY CancelType DEF CancelRespawn
    <2> QED
      BY <1>1, <1>2, <1>4, <2>1 DEF CancelStep, CancelPending, CancelRunning, CancelRespawn,
                                    CancelMiss
  <1>5. CASE Timeouts
    <2>1. \A id \in Ids : TimeoutStop(id) => todo[id].worker \in Workers
      BY TodoType DEF TimeoutStop
    <2> QED
      BY <1>1, <1>2, <1>5, <2>1 DEF Timeouts, TimeoutPass, TimeoutGrace, TimeoutFail,
                                    TimeoutRetry, TimeoutStop, TimeoutsEnd
  <1>6. ASSUME NEW w \in Workers, Assign(w)
        PROVE  \A v \in Workers : proc'[v].does = proc[v].does
    <2>1. proc[w] \in Processes
      BY DEF TypeOK
    <2> QED
      BY <1>6, <2>1 DEF Assign, TypeOK, Processes
  <1>7. CASE AssignTasks
    BY <1>2, <1>6, <1>7 DEF AssignTasks, AssignNothing, AssignBegin, DropStep, DropDone, DropEnd,
                            AssignEnd
  <1>8. CASE Drain \/ Produce \/ Http \/ BudgetExhausted
    BY <1>2, <1>8 DEF Drain, DrainTaskDone, DrainNotice, TaskDone, DrainReject, DrainSchedule,
                      DrainCancel, CancelBegin, DrainEnd, Produce, CronDue, OwnerQueues, Http,
                      HttpCreate, HttpCancel, HttpEnqueue, BudgetExhausted
  <1> QED
    BY <1>2, <1>3, <1>4, <1>5, <1>7, <1>8 DEF Next, MainLoop, vars

(* The child drive of a subagent: its agent writes a status, never a cancel. *)
LEMMA ChildStays ==
    ASSUME OwnDrives, TypeOK, AgreeInv, ChildInv, [Next]_vars
    PROVE  /\ ChildInv'
           /\ \A id \in Ids : child[id] \in TrulyTerminal => child'[id] \in TrulyTerminal
  <1>1. CASE child' = child
    BY <1>1 DEF ChildInv
  <1>2. ASSUME NEW w \in Workers, NEW t, t \in Tasks, Agrees(t),
               NEW s \in {"running", "completed", "failed"}, Report(t, s)
        PROVE  /\ ChildInv'
               /\ \A id \in Ids : child[id] \in TrulyTerminal => child'[id] \in TrulyTerminal
    <2>1. s \in Files \ {NoResult} /\ s # "cancel_requested"
      BY StatusFiles
    <2>2. t.id \in Ids /\ (t.origin \in Forked <=> t.id \in Forked)
      BY <1>2 DEF Tasks, Agrees, OwnDrives
    <2>3. child[t.id] \in Files
      BY <2>2 DEF TypeOK
    <2>4. t.id \in Forked => child'[t.id] \in {child[t.id], s}
      BY <1>2, <2>1, <2>2, <2>3, ReportSettles, GuardedEnds
    <2>5. t.id \notin Forked => child' = child
      BY <1>2, <2>1, <2>2, ReportSettles
    <2> QED
      BY <1>2, <2>1, <2>2, <2>4, <2>5, ReportSettles DEF ChildInv
  <1>3. ASSUME NEW w \in Workers, Worker(w)
        PROVE  /\ ChildInv'
               /\ \A id \in Ids : child[id] \in TrulyTerminal => child'[id] \in TrulyTerminal
    <2>1. CASE Take(w)
      <3>1. proc[w].inbox \in Seq(Tasks) /\ proc[w].inbox # <<>> /\ AllAgree(proc[w].inbox)
        BY <2>1, ProcessType DEF Take, TypeOK, AgreeInv, HeldAgree
      <3>2. Head(proc[w].inbox) \in Tasks /\ Agrees(Head(proc[w].inbox))
        BY <3>1, HeadTailProperties, TailMembers DEF AllAgree
      <3> QED
        BY <1>2, <2>1, <3>2 DEF Take
    <2>2. ASSUME NEW s \in {"completed", "failed"}, Store(w, s)
          PROVE  /\ ChildInv'
                 /\ \A id \in Ids : child[id] \in TrulyTerminal => child'[id] \in TrulyTerminal
      <3>1. proc[w].does # Idle /\ Report(proc[w].does.task, s)
        BY <2>2 DEF Store, Working
      <3>2. proc[w].does.task \in Tasks /\ Agrees(proc[w].does.task)
        BY <3>1, DoesType DEF AgreeInv, HeldAgree
      <3> QED
        BY <1>2, <3>1, <3>2
    <2>3. CASE \/ Emit(w) \/ Break(w)
               \/ \E how \in {"exited", "signalled"} : Die(w, how)
               \/ \E id \in Ids : ScheduleSubagent(w, id) \/ RequestCancel(w, id)
      BY <1>1, <2>3 DEF Emit, Break, Die, ScheduleSubagent, RequestCancel
    <2> QED
      BY <1>3, <2>1, <2>2, <2>3 DEF Worker
  <1> QED
    BY <1>1, <1>3, ChildUntouched

LEMMA OverStays ==
    ASSUME OwnDrives, TypeOK, AgreeInv, ChildInv, [Next]_vars, NEW id \in Ids, Over(id)
    PROVE  Over(id)'
  BY ChildStays, SettledStays DEF Over

(* The supervisor announces the end of a task after it has written it.       *)
LEMMA NewNotices ==
    ASSUME TypeOK, AgreeInv, [Next]_vars, NEW id \in notices' \ notices
    PROVE  Settled(id)'
  <1>1. ASSUME NEW i \in Ids, NEW s \in {"failed", "cancelled"}, result' = Written(i, s), id = i
        PROVE  Settled(id)'
    BY <1>1, WrittenSettles, StatusFiles DEF TrulyTerminal, Latched
  <1>2. \A T : notices' = Notified(T) => \E t \in T : id = t.id
    BY DEF Notified
  <1>3. \A i \in Ids : IsRunning(i) => running[i].task.id = i
    BY DEF IsRunning, AgreeInv, EntryAgrees
  <1>4. ASSUME NEW w \in Workers, ReapFinished(w)
        PROVE  Settled(id)'
    <2>1. slot[w] \in Ids /\ IsRunning(slot[w]) /\ Finished(slot[w]) /\ result' = result
      BY <1>4, ReapTaskType DEF ReapFinished, ReapTask, Tracked
    <2> QED
      BY <1>2, <1>3, <1>4, <2>1 DEF ReapFinished, Finished, Settled, Latched
  <1>5. ASSUME NEW w \in Workers, ReapFailed(w)
        PROVE  Settled(id)'
    BY <1>1, <1>5, ReapTaskType DEF ReapFailed
  <1>6. CASE CrashStorm
    <2>1. PICK t \in {running[i].task : i \in {j \in Ids : IsRunning(j)}} \cup ToSet(pending) :
              id = t.id
      BY <1>2, <1>6 DEF CrashStorm
    <2>2. id \in Ids /\ (IsRunning(id) \/ Queued(id))
      <3>1. CASE t \in ToSet(pending)
        <4>1. t \in Tasks /\ \E i \in DOMAIN pending : pending[i] = t
          BY <3>1, QueuedType DEF ToSet
        <4> QED
          BY <2>1, <4>1 DEF Queued, Tasks
      <3>2. CASE t \notin ToSet(pending)
        BY <1>3, <2>1, <3>2
      <3> QED
        BY <3>1, <3>2
    <2>3. result'[id] = Guarded(result[id], "failed") /\ result[id] \in Files
      BY <1>6, <2>2 DEF CrashStorm, TypeOK
    <2> QED
      BY <2>3, GuardedEnds, StatusFiles DEF Settled, Latched
  <1>7. CASE CancelStep
    <2>0. NoCancel.at = 0
      BY DEF NoCancel
    <2>1. CASE CancelPending
      <3>1. cancel.id \in Ids /\ result' = Written(cancel.id, "cancelled")
        BY <2>0, <2>1, CancelType DEF CancelPending
      <3>2. id = cancel.id
        BY <1>2, <2>1 DEF CancelPending
      <3> QED
        BY <1>1, <3>1, <3>2
    <2>2. ASSUME NEW w \in Workers, CancelRunning(w)
          PROVE  Settled(id)'
      <3>1. cancel.id \in Ids /\ result' = Written(cancel.id, "cancelled")
        BY <2>2, CancelType DEF CancelRunning
      <3>2. id = cancel.id
        BY <1>2, <1>3, <2>2, <3>1 DEF CancelRunning
      <3> QED
        BY <1>1, <3>1, <3>2
    <2>3. CASE CancelMiss
      <3>1. cancel.id \in Ids /\ New(cancel.id).id = cancel.id
        BY <2>3, CancelType DEF CancelMiss, New
      <3>2. result' = Written(cancel.id, "cancelled") /\ id = cancel.id
        BY <1>2, <2>3, <3>1 DEF CancelMiss
      <3> QED
        BY <1>1, <3>1, <3>2
    <2> QED
      BY <1>7, <2>1, <2>2, <2>3 DEF CancelStep, CancelRespawn, eventVars
  <1>8. ASSUME NEW i \in Ids, TimeoutFail(i)
        PROVE  Settled(id)'
    <2>1. todo[i].task.id = i
      BY <1>8 DEF TimeoutFail, TimeoutStop, At, AgreeInv, EntryAgrees
    <2> QED
      BY <1>1, <1>2, <1>8, <2>1 DEF TimeoutFail
  <1>9. CASE DropStep
    <2>1. pending[sweep.at] \in Tasks
      BY <1>9, ElementOfSeq, LenProperties DEF DropStep, TypeOK
    <2>2. /\ result' = Written(pending[sweep.at].id, "cancelled")
          /\ notices' = Notified({pending[sweep.at]})
      BY <1>9 DEF DropStep
    <2> QED
      BY <1>1, <1>2, <2>1, <2>2 DEF Tasks
  <1>10. CASE Health
    BY <1>4, <1>5, <1>6, <1>10 DEF Health, ReapUntracked, ReapRetry, HealthEnd, eventVars
  <1>11. CASE Timeouts
    BY <1>8, <1>11 DEF Timeouts, TimeoutPass, TimeoutGrace, TimeoutRetry, TimeoutsEnd, eventVars
  <1>12. CASE AssignTasks
    BY <1>9, <1>12 DEF AssignTasks, AssignNothing, AssignBegin, DropDone, DropEnd, Assign,
                       AssignEnd, eventVars
  <1>13. ~(Drain \/ Produce \/ Http \/ BudgetExhausted \/ UNCHANGED vars)
    BY DEF Drain, DrainTaskDone, DrainNotice, DrainReject, DrainSchedule, DrainCancel,
           CancelBegin, DrainEnd, Produce, CronDue, OwnerQueues, Http, HttpCreate, HttpCancel,
           HttpEnqueue, BudgetExhausted, vars, eventVars
  <1>14. \A w \in Workers : ~Worker(w)
    BY WorkerSteps
  <1> QED
    BY <1>7, <1>10, <1>11, <1>12, <1>13, <1>14 DEF Next, MainLoop

(* An agent stores the end of its task before it says so.                    *)
LEMMA StoredIsOver ==
    ASSUME OwnDrives, TypeOK, AgreeInv, OverInv, [Next]_vars, NEW w \in Workers,
           Stored(proc'[w]), NEW id, id = proc'[w].does.task.id
    PROVE  Over(id)'
  <1>1. ASSUME proc'[w].does = proc[w].does
        PROVE  Over(id)'
    <2>1. Stored(proc[w]) /\ id = proc[w].does.task.id
      BY <1>1 DEF Stored
    <2>2. id \in Ids /\ Over(id)
      BY <2>1, DoesType DEF OverInv, Stored
    <2> QED
      BY <2>1, <2>2, OverStays DEF OverInv
  <1>2. CASE \A v \in Workers : ~Worker(v)
    BY <1>1, <1>2, DoesKept DEF Stored
  <1>3. ASSUME NEW v \in Workers, Worker(v), v # w
        PROVE  Over(id)'
    BY <1>1, <1>3, WorkerSteps
  <1>4. ASSUME Worker(w)
        PROVE  Over(id)'
    <2>1. proc[w] \in Processes
      BY DEF TypeOK
    <2>2. CASE Take(w)
      <3>1. proc'[w].does.kind = "working"
        BY <2>1, <2>2 DEF Take, TypeOK, Processes
      <3> QED
        BY <3>1 DEF Stored
    <2>3. ASSUME NEW s \in {"completed", "failed"}, Store(w, s)
          PROVE  Over(id)'
      <3>1. proc[w].does # Idle /\ Report(proc[w].does.task, s)
            /\ proc' = [proc EXCEPT ![w].does.kind = "stored"]
        BY <2>3 DEF Store, Working
      <3>2. proc[w].does \in Busy /\ proc[w].does.task \in Tasks /\ Agrees(proc[w].does.task)
        BY <3>1, DoesType DEF AgreeInv, HeldAgree
      <3>3. proc'[w].does.task = proc[w].does.task
        BY <2>1, <3>1, <3>2 DEF TypeOK, Processes, Busy
      <3>4. PICK t \in Tasks : t = proc[w].does.task
        BY <3>2
      <3>5. t.id \in Ids /\ (t.origin \in Forked <=> t.id \in Forked)
        BY <3>2, <3>4 DEF Tasks, Agrees, OwnDrives
      <3>6. s \in Files \ {NoResult} /\ s \in TrulyTerminal
        BY StatusFiles DEF TrulyTerminal
      <3>7. t.id = id
        BY <3>3, <3>4
      <3> QED
        <4>1. CASE t.id \in Forked
          <5>1. child'[t.id] = Guarded(child[t.id], s) /\ child[t.id] \in Files
            BY <3>1, <3>4, <3>5, <3>6, <4>1, ReportSettles DEF TypeOK
          <5>2. child[t.id] # "cancel_requested"
            BY <3>5 DEF OverInv, ChildInv
          <5> QED
            BY <3>6, <3>7, <4>1, <5>1, <5>2, GuardedEnds DEF Over
        <4>2. CASE t.id \notin Forked
          <5>1. result' = Written(t.id, s)
            BY <3>1, <3>4, <3>5, <3>6, <4>2, ReportSettles
          <5> QED
            BY <3>5, <3>6, <3>7, <5>1, WrittenSettles DEF Over, Latched
        <4> QED
          BY <4>1, <4>2
    <2>4. CASE Emit(w) \/ Break(w)
      <3>1. proc'[w].does = Idle
        BY <2>1, <2>4 DEF Emit, Break, TypeOK, Processes
      <3> QED
        BY <3>1 DEF Stored
    <2>5. ASSUME NEW how \in {"exited", "signalled"}, Die(w, how)
          PROVE  Over(id)'
      <3>1. proc'[w].does = Idle
        BY <2>5 DEF Die, TypeOK, Fresh
      <3> QED
        BY <3>1 DEF Stored
    <2>6. CASE \E i \in Ids : ScheduleSubagent(w, i) \/ RequestCancel(w, i)
      BY <1>1, <2>6 DEF ScheduleSubagent, RequestCancel
    <2> QED
      BY <1>4, <2>2, <2>3, <2>4, <2>5, <2>6 DEF Worker
  <1> QED
    BY <1>2, <1>3, <1>4

LEMMA StepOver ==
    ASSUME OwnDrives, TypeOK, AgreeInv, OverInv, [Next]_vars
    PROVE  OverInv'
  <1>1. ChildInv'
    BY ChildStays DEF OverInv
  <1>2. ASSUME NEW id \in Ids, Reported(id)'
        PROVE  Over(id)'
    <2>1. CASE Reported(id)
      BY <2>1, OverStays DEF OverInv
    <2>2. CASE ~Reported(id)
      <3>1. PICK i \in DOMAIN events' : events'[i].kind = "task_done" /\ events'[i].id = id
        BY <1>2 DEF Reported
      <3>2. \A j \in DOMAIN events : events'[i] # events[j]
        BY <2>2, <3>1 DEF Reported
      <3>3. events \in Seq(Events)
        BY DEF TypeOK
      <3>4. PICK w \in Workers, e \in Events :
                /\ events' = Append(events, e)
                /\ e.kind = "task_done" => Emitted(w, e)
        <4>1. events' # events
          BY <3>1, <3>2
        <4>2. ~(events # <<>> /\ events' = Tail(events))
          BY <3>1, <3>2, <3>3, TailMembers DEF Within
        <4> QED
          BY <4>1, <4>2, NewEvents
      <3>5. events'[i] = e
        BY <3>1, <3>2, <3>3, <3>4, AppendMembers
      <3>6. Stored(proc[w]) /\ id = proc[w].does.task.id
        BY <3>1, <3>4, <3>5 DEF Emitted
      <3> QED
        BY <3>6, OverStays DEF OverInv
    <2> QED
      BY <2>1, <2>2
  <1>3. ASSUME NEW id \in notices'
        PROVE  Settled(id)'
    <2>1. CASE id \in notices
      <3>1. id \in Ids
        BY <2>1 DEF TypeOK
      <3> QED
        BY <2>1, <3>1, SettledStays DEF OverInv
    <2> QED
      BY <2>1, NewNotices
  <1>4. ASSUME NEW w \in Workers, Stored(proc'[w])
        PROVE  Over(proc[w].does.task.id)'
    <2>1. PICK id : id = proc'[w].does.task.id
      OBVIOUS
    <2>2. Over(id)'
      BY <1>4, <2>1, StoredIsOver
    <2> QED
      BY <2>1, <2>2 DEF Over, Settled
  <1> QED
    BY <1>1, <1>2, <1>3, <1>4 DEF OverInv, Over, Settled, Reported

LEMMA InitOver == Init => OverInv
  <1> SUFFICES ASSUME Init
               PROVE  OverInv
    OBVIOUS
  <1>1. DOMAIN events = {}
    BY EmptySeq, LenProperties DEF Init
  <1>2. \A w \in Workers : ~Stored(proc[w])
    BY DEF Init, Fresh, Stored
  <1> QED
    BY <1>1, <1>2 DEF Init, OverInv, ChildInv, Reported, NoResult
-----------------------------------------------------------------------------
(* The drop loop lets go of what is settled only, and cancel_task_by_id pops *)
(* the task it is called for.                                                *)
SweptInv ==
    phase = "drop" =>
        \A j \in DOMAIN pending : sweep.at = 0 \/ j < sweep.at =>
            \/ Settled(pending[j].id)
            \/ \E i \in DOMAIN sweep.keep : sweep.keep[i] = pending[j]
PopsInv == cancel.at # 0 => pending[cancel.at].id = cancel.id

LEMMA NoHttpSteps ==
    ASSUME NoHttp, Quiet
    PROVE  ~Http
  BY DEF Http, HttpCreate, HttpCancel, HttpEnqueue, NoHttp, Quiet

(* While cancel_task_by_id runs, the main loop is in it.                     *)
LEMMA CancelAlone ==
    ASSUME SlotInv, ~Http, [Next]_vars, cancel # NoCancel
    PROVE  \/ CancelStep \/ BudgetExhausted \/ UNCHANGED vars
           \/ \E w \in Workers : Worker(w)
  <1>1. cancel.by = "main" /\ phase = "drain"
    BY DEF SlotInv, CancelInv
  <1>2. ~(Health \/ Drain)
    BY <1>1 DEF Health, ReapUntracked, ReapFinished, ReapFailed, ReapRetry, ReapTask, Reap, In,
                HealthEnd, CrashStorm, Drain, DrainTaskDone, DrainNotice, TaskDone, DrainReject,
                DrainSchedule, DrainCancel, DrainEnd
  <1>3. ~(Timeouts \/ AssignTasks \/ Produce)
    BY <1>1 DEF Timeouts, TimeoutPass, TimeoutGrace, TimeoutFail, TimeoutRetry, TimeoutStop, At,
                In, TimeoutsEnd, AssignTasks, AssignNothing, AssignBegin, DropStep, DropDone,
                DropEnd, Assign, AssignEnd, Produce, CronDue, OwnerQueues
  <1> QED
    BY <1>2, <1>3 DEF Next, MainLoop

(* While assign_tasks drops and assigns, nothing else moves PENDING.         *)
LEMMA DropAlone ==
    ASSUME LockInv, ~Http, [Next]_vars, phase \in {"drop", "assign"}
    PROVE  \/ AssignTasks \/ BudgetExhausted \/ UNCHANGED vars
           \/ \E w \in Workers : Worker(w)
  <1>1. cancel = NoCancel
    BY DEF LockInv, OneHolder
  <1>2. ~(Health \/ Drain)
    BY DEF Health, ReapUntracked, ReapFinished, ReapFailed, ReapRetry, ReapTask, Reap, In,
           HealthEnd, CrashStorm, Drain, DrainTaskDone, DrainNotice, TaskDone, DrainReject,
           DrainSchedule, DrainCancel, DrainEnd
  <1>3. ~(Timeouts \/ Produce)
    BY DEF Timeouts, TimeoutPass, TimeoutGrace, TimeoutFail, TimeoutRetry, TimeoutStop, At,
           In, TimeoutsEnd, Produce, CronDue, OwnerQueues
  <1>4. ~CancelStep
    BY <1>1 DEF CancelStep, CancelPending, CancelRunning, CancelRespawn, CancelMiss, NoCancel
  <1> QED
    BY <1>2, <1>3, <1>4 DEF Next, MainLoop

LEMMA DropBegins ==
    ASSUME [Next]_vars, phase # "drop", phase' = "drop"
    PROVE  AssignBegin
  <1>1. ~(Health \/ Drain \/ CancelStep)
    BY DEF Health, ReapUntracked, ReapFinished, ReapFailed, ReapRetry, ReapTask, Reap,
           HealthEnd, CrashStorm, Drain, DrainTaskDone, DrainNotice, TaskDone, DrainReject,
           DrainSchedule, DrainCancel, CancelBegin, DrainEnd, CancelStep, CancelPending,
           CancelRunning, CancelRespawn, CancelMiss, loopVars
  <1>2. ~(Timeouts \/ Produce \/ Http \/ BudgetExhausted \/ UNCHANGED vars)
    BY DEF Timeouts, TimeoutPass, TimeoutGrace, TimeoutFail, TimeoutRetry, TimeoutStop,
           TimeoutsEnd, Produce, CronDue, OwnerQueues, Http, HttpCreate, HttpCancel, CancelBegin,
           HttpEnqueue, BudgetExhausted, vars, loopVars
  <1>3. \A w \in Workers : ~Worker(w)
    BY DEF Worker, Take, Store, Emit, Break, Die, ScheduleSubagent, RequestCancel, WorkerOnly,
           loopVars
  <1>4. AssignTasks => AssignBegin
    BY DEF AssignTasks, AssignNothing, DropStep, DropDone, DropEnd, Assign, AssignEnd, loopVars
  <1> QED
    BY <1>1, <1>2, <1>3, <1>4 DEF Next, MainLoop

LEMMA StepSwept ==
    ASSUME NoHttp, TypeOK, LockInv, Quiet, SweptInv, [Next]_vars
    PROVE  SweptInv'
  <1>1. SUFFICES ASSUME phase' = "drop"
                 PROVE  SweptInv'
    BY DEF SweptInv
  <1>2. CASE phase # "drop"
    <2>1. sweep' = [at |-> 1, keep |-> <<>>, dropped |-> FALSE] /\ pending' = pending
      BY <1>1, <1>2, DropBegins DEF AssignBegin, queueVars
    <2>2. \A j \in DOMAIN pending : j \in Nat /\ ~(j < 1)
      BY LenProperties DEF TypeOK
    <2>3. sweep'.at = 1
      BY <2>1
    <2> QED
      BY <2>1, <2>2, <2>3 DEF SweptInv
  <1>3. CASE phase = "drop"
    <2>0. /\ sweep \in [at : Nat, keep : Seq(Tasks), dropped : BOOLEAN]
          /\ pending \in Seq(Tasks) /\ \A j \in DOMAIN pending : j \in Nat
      BY LenProperties DEF TypeOK
    <2>1. \A j \in DOMAIN pending : pending[j].id \in Ids
      <3>1. \A j \in DOMAIN pending : pending[j] \in Tasks
        BY <2>0, ElementOfSeq, LenProperties
      <3> QED
        BY <3>1 DEF Tasks
    <2>2. \A id \in Ids : Settled(id) => Settled(id)'
      BY SettledStays
    <2>3. CASE UNCHANGED <<pending, sweep>>
      BY <1>3, <2>1, <2>2, <2>3 DEF SweptInv, Settled
    <2>4. CASE DropStep
      <3> DEFINE t == pending[sweep.at]
      <3>1. sweep.at \in DOMAIN pending /\ sweep.at # 0 /\ pending' = pending /\ t \in Tasks
        BY <2>0, <2>4, LenProperties, ElementOfSeq DEF DropStep, queueVars
      <3>2. CASE Droppable(result[t.id])
        <4>1. sweep'.at = sweep.at + 1 /\ sweep'.keep = sweep.keep
          BY <2>0, <2>4, <3>2 DEF DropStep
        <4>2. Settled(t.id)
          BY <3>2 DEF Droppable, Settled, Latched
        <4> QED
          BY <1>3, <2>0, <2>1, <2>2, <3>1, <4>1, <4>2 DEF SweptInv, Settled
      <3>3. CASE ~Droppable(result[t.id])
        <4>1. sweep'.at = sweep.at + 1 /\ sweep'.keep = Append(sweep.keep, t)
          BY <2>0, <2>4, <3>3 DEF DropStep
        <4>0. sweep.keep \in Seq(Tasks)
          BY <2>0
        <4>2. /\ \E i \in DOMAIN sweep'.keep : sweep'.keep[i] = t
              /\ Within(sweep.keep, sweep'.keep)
          <5> HIDE DEF t
          <5> QED
            BY <3>1, <4>0, <4>1, AppendMembers
        <4> HIDE DEF t
        <4>3. SUFFICES ASSUME NEW j \in DOMAIN pending, j < sweep.at + 1
                       PROVE  \/ Settled(pending[j].id)'
                              \/ \E i \in DOMAIN sweep'.keep : sweep'.keep[i] = pending[j]
          BY <2>0, <3>1, <4>1 DEF SweptInv, Settled
        <4>4. CASE j = sweep.at
          BY <4>2, <4>4 DEF t
        <4>5. CASE j # sweep.at
          <5>1. j < sweep.at
            BY <2>0, <4>3, <4>5
          <5>2. CASE Settled(pending[j].id)
            BY <2>1, <2>2, <3>1, <5>2 DEF Settled
          <5>3. CASE \E i \in DOMAIN sweep.keep : sweep.keep[i] = pending[j]
            BY <4>2, <5>3 DEF Within
          <5> QED
            BY <1>3, <5>1, <5>2, <5>3 DEF SweptInv
        <4> QED
          BY <4>4, <4>5
      <3> QED
        BY <3>2, <3>3
    <2>5. CASE DropDone
      <3>1. pending' = pending /\ sweep'.keep = sweep.keep /\ result' = result
            /\ sweep.at > Len(pending)
        BY <2>0, <2>5 DEF DropDone, queueVars, fileVars
      <3>2. \A j \in DOMAIN pending : j < sweep.at
        BY <2>0, <3>1, LenProperties
      <3> QED
        BY <1>3, <3>1, <3>2 DEF SweptInv, Settled
    <2>6. AssignTasks => UNCHANGED <<pending, sweep>> \/ DropStep \/ DropDone
      BY <1>1, <1>3 DEF AssignTasks, AssignNothing, AssignBegin, DropEnd, Assign, AssignEnd,
                        queueVars, In
    <2> QED
      BY <1>3, <2>3, <2>4, <2>5, <2>6, DropAlone, NoHttpSteps, WorkerSteps
      DEF BudgetExhausted, vars, queueVars, loopVars
  <1> QED
    BY <1>2, <1>3

LEMMA StepPops ==
    ASSUME NoHttp, TypeOK, SlotInv, Quiet, PopsInv, [Next]_vars
    PROVE  PopsInv'
  <1>0. NoCancel.at = 0
    BY DEF NoCancel
  <1>1. CASE cancel # NoCancel
    <2>1. CASE CancelStep
      <3>1. cancel' = NoCancel \/ cancel'.at = 0
        <4>1. cancel \in Cancels
          BY <1>1, CancelType
        <4> QED
          BY <2>1, <4>1 DEF CancelStep, CancelPending, CancelRunning, CancelRespawn, CancelMiss,
                            Cancels
      <3> QED
        BY <1>0, <3>1 DEF PopsInv
    <2>2. CASE BudgetExhausted \/ UNCHANGED vars \/ \E w \in Workers : Worker(w)
      <3>1. UNCHANGED <<pending, cancel>>
        BY <2>2, WorkerSteps DEF BudgetExhausted, vars, queueVars
      <3> QED
        BY <3>1 DEF PopsInv
    <2> QED
      BY <1>1, <2>1, <2>2, CancelAlone, NoHttpSteps
  <1>2. CASE cancel = NoCancel
    <2>1. CASE DrainCancel
      <3>1. PICK i \in 0 .. Len(pending) :
                /\ FirstAt(Head(events).id, i)
                /\ cancel' = [by |-> "main", id |-> Head(events).id, worker |-> None, at |-> i]
        BY <2>1 DEF DrainCancel, CancelBegin
      <3>2. pending' = pending /\ cancel'.at = i /\ cancel'.id = Head(events).id
        BY <2>1, <3>1 DEF DrainCancel, CancelBegin, queueVars
      <3> QED
        BY <3>1, <3>2 DEF PopsInv, FirstAt
    <2>2. CASE cancel' = cancel
      BY <1>0, <1>2, <2>2 DEF PopsInv
    <2>3. CASE Drain
      BY <2>1, <2>2, <2>3 DEF Drain, DrainTaskDone, DrainNotice, TaskDone, DrainReject,
                              DrainSchedule, DrainEnd
    <2>4. CASE Health \/ Timeouts
      BY <2>2, <2>4 DEF Health, ReapUntracked, ReapFinished, ReapFailed, ReapRetry, ReapTask,
                        Reap, HealthEnd, CrashStorm, Timeouts, TimeoutPass, TimeoutGrace,
                        TimeoutFail, TimeoutRetry, TimeoutStop, TimeoutsEnd
    <2>5. CASE AssignTasks \/ Produce \/ BudgetExhausted \/ UNCHANGED vars
      BY <2>2, <2>5 DEF AssignTasks, AssignNothing, AssignBegin, DropStep, DropDone, DropEnd,
                        Assign, AssignEnd, Produce, CronDue, OwnerQueues, BudgetExhausted, vars
    <2>6. ~CancelStep
      BY <1>2 DEF CancelStep, CancelPending, CancelRunning, CancelRespawn, CancelMiss, NoCancel
    <2> QED
      BY <2>2, <2>3, <2>4, <2>5, <2>6, NoHttpSteps, WorkerSteps DEF Next, MainLoop
  <1> QED
    BY <1>1, <1>2
-----------------------------------------------------------------------------
(* Nothing is lost, task by task.  A slot whose task has left RUNNING is     *)
(* about to be freed by a late task_done or a reap, so that the task must be *)
(* over or continued; and a live process that has an unsettled task of the   *)
(* data root has it with a slot and an entry, so that what it reports about  *)
(* the task never revives one the supervisor has let go of.                  *)
Found(id) == Queued(id) \/ (\E w \in Workers : slot[w] = id) \/ successor[id] # None
Vouched(id) ==
    \A w \in Workers :
        slot[w] = id /\ ~IsRunning(id) => ~Live(result[id]) \/ successor[id] # None
Backed(id) == \A w \in Workers : Holds(w, id) => slot[w] = id /\ IsRunning(id)
LostAt(id) ==
    /\ Live(result[id]) => Found(id)
    /\ Vouched(id)
    /\ id \notin Forked /\ ~Settled(id) => Backed(id)
LostInv == \A id \in Ids : LostAt(id)

(* No slot and no live process knows the task.                               *)
Gone(id) == \A w \in Workers : slot[w] # id /\ ~Holds(w, id)

(* The step takes nothing from the task that it had.                         *)
Unmoved(id) ==
    /\ Live(result'[id]) => Live(result[id])
    /\ Settled(id) => Settled(id)'
    /\ Queued(id) => Queued(id)'
    /\ IsRunning(id) => IsRunning(id)'
    /\ \A w \in Workers : (slot'[w] = id <=> slot[w] = id) /\ (Holds(w, id)' => Holds(w, id))
    /\ successor[id] # None => successor'[id] # None

LEMMA SettledKeeps ==
    ASSUME TypeOK', NEW id \in Ids, Settled(id)'
    PROVE  LostAt(id)'
  <1>1. result'[id] \in Files
    BY DEF TypeOK
  <1>2. ~Live(result'[id])
    BY <1>1, LiveStatuses DEF Settled
  <1> QED
    BY <1>2 DEF LostAt, Vouched

LEMMA GoneKeeps ==
    ASSUME NEW id \in Ids, Gone(id)', Live(result'[id]) => Queued(id)' \/ successor'[id] # None
    PROVE  LostAt(id)'
  BY DEF LostAt, Vouched, Backed, Found, Gone

LEMMA UnmovedKeeps ==
    ASSUME NEW id \in Ids, LostAt(id), Unmoved(id)
    PROVE  LostAt(id)'
  <1>1. Live(result'[id]) => Found(id)'
    BY DEF LostAt, Unmoved, Found
  <1>2. Vouched(id)'
    BY DEF LostAt, Unmoved, Vouched
  <1>3. id \notin Forked /\ ~Settled(id)' => Backed(id)'
    BY DEF LostAt, Unmoved, Backed
  <1> QED
    BY <1>1, <1>2, <1>3 DEF LostAt

(* A step that leaves the queue, the processes and the results alone.        *)
LEMMA StillKeeps ==
    ASSUME LostInv, UNCHANGED <<pending, running, slot, pool, proc, result, successor>>
    PROVE  LostInv'
  <1>1. \A id \in Ids : Unmoved(id)
    BY DEF Unmoved, Settled, Queued, IsRunning, Holds, Up
  <1> QED
    BY <1>1, UnmovedKeeps DEF LostInv

(* The task of a freed slot is gone, and no other is touched.                *)
LEMMA FreedGone ==
    ASSUME TypeOK, OnePlace, NEW w \in Workers, NEW id \in Ids, slot[w] = id,
           slot' = [slot EXCEPT ![w] = None], proc' = Respawned(w), pool' = pool
    PROVE  /\ Gone(id)'
           /\ \A x \in Ids \ {id}, v \in Workers :
                 (slot'[v] = x <=> slot[v] = x) /\ (Holds(v, x)' => Holds(v, x))
  <1>1. /\ slot'[w] = None
        /\ \A v \in Workers : v # w => slot'[v] = slot[v]
        /\ \A x \in Ids, v \in Workers : Holds(v, x)' => Holds(v, x) /\ v # w
    BY FreedSlot
  <1>2. None \notin Ids
    BY TaskQueueAssumption
  <1>3. \A v \in Workers : v # w => slot[v] # id /\ ~Holds(v, id)
    BY <1>2 DEF OnePlace, SlotsDiffer, HeldInSlot
  <1> QED
    BY <1>1, <1>2, <1>3 DEF Gone

(* The results of the other tasks, and what a write does to the one.         *)
LEMMA OthersWritten ==
    ASSUME TypeOK, NEW id \in Ids, NEW s \in Files, s # NoResult, result' = Written(id, s)
    PROVE  \A x \in Ids \ {id} :
               (Live(result'[x]) => Live(result[x])) /\ (Settled(x) => Settled(x)')
  BY WrittenSettles DEF Settled

LEMMA HealthLost ==
    ASSUME TypeOK, TypeOK', SlotInv, OnePlace, LostInv, Health
    PROVE  LostInv'
  <1>1. ASSUME NEW w \in Workers, ReapUntracked(w)
        PROVE  LostInv'
    <2>1. /\ slot' = [slot EXCEPT ![w] = None] /\ proc' = Respawned(w)
          /\ UNCHANGED <<pending, running, pool, result, successor>> /\ ~Tracked(w)
      BY <1>1 DEF ReapUntracked, Reap
    <2>2. CASE slot[w] = None
      <3>1. \A v \in Workers : slot'[v] = slot[v]
        BY <2>1, <2>2, FreedSlot
      <3>2. \A id \in Ids : Unmoved(id)
        BY <2>1, <3>1, FreedSlot DEF Unmoved, Settled, Queued, IsRunning
      <3> QED
        BY <3>2, UnmovedKeeps DEF LostInv
    <2>3. CASE slot[w] # None
      <3>1. PICK id \in Ids : slot[w] = id
        BY <2>3 DEF TypeOK
      <3>2. /\ Gone(id)'
            /\ \A x \in Ids \ {id}, v \in Workers :
                  (slot'[v] = x <=> slot[v] = x) /\ (Holds(v, x)' => Holds(v, x))
        BY <2>1, <3>1, FreedGone
      <3>3. \A x \in Ids \ {id} : Unmoved(x)
        BY <2>1, <3>2 DEF Unmoved, Settled, Queued, IsRunning
      <3>4. Live(result'[id]) => successor'[id] # None
        BY <2>1, <2>3, <3>1 DEF Tracked, LostInv, LostAt, Vouched
      <3>5. LostAt(id)'
        BY <3>2, <3>4, GoneKeeps
      <3> QED
        BY <3>3, <3>5, UnmovedKeeps DEF LostInv
    <2> QED
      BY <2>2, <2>3
  <1>2. ASSUME NEW w \in Workers, ReapTask(w), NEW id \in Ids, slot[w] = id,
               \A x \in Ids \ {id} : /\ Live(result'[x]) => Live(result[x])
                                     /\ Settled(x) => Settled(x)'
                                     /\ Queued(x) => Queued(x)',
               Settled(id)' \/ Queued(id)'
        PROVE  LostInv'
    <2>1. /\ slot' = [slot EXCEPT ![w] = None] /\ proc' = Respawned(w)
          /\ UNCHANGED <<pool, successor>> /\ running' = Without(id)
      BY <1>2 DEF ReapTask, Reap
    <2>2. /\ Gone(id)'
          /\ \A x \in Ids \ {id}, v \in Workers :
                (slot'[v] = x <=> slot[v] = x) /\ (Holds(v, x)' => Holds(v, x))
      BY <1>2, <2>1, FreedGone
    <2>3. \A x \in Ids \ {id} : running'[x] = running[x]
      BY <2>1 DEF Without, TypeOK
    <2>4. \A x \in Ids \ {id} : Unmoved(x)
      BY <1>2, <2>1, <2>2, <2>3 DEF Unmoved, IsRunning
    <2>5. LostAt(id)'
      BY <1>2, <2>2, GoneKeeps, SettledKeeps
    <2> QED
      BY <2>4, <2>5, UnmovedKeeps DEF LostInv
  <1>3. ASSUME NEW w \in Workers, ReapFinished(w)
        PROVE  LostInv'
    <2>1. slot[w] \in Ids /\ ReapTask(w) /\ UNCHANGED <<pending, result>> /\ Finished(slot[w])
      BY <1>3, ReapTaskType DEF ReapFinished
    <2>2. PICK id \in Ids : id = slot[w]
      BY <2>1
    <2>3. Settled(id)'
      BY <2>1, <2>2 DEF Finished, Settled, Latched
    <2> QED
      BY <1>2, <2>1, <2>2, <2>3 DEF Settled, Queued
  <1>4. ASSUME NEW w \in Workers, ReapFailed(w)
        PROVE  LostInv'
    <2>1. slot[w] \in Ids /\ ReapTask(w) /\ pending' = pending
          /\ result' = Written(slot[w], "failed")
      BY <1>4, ReapTaskType DEF ReapFailed
    <2>2. PICK id \in Ids : id = slot[w]
      BY <2>1
    <2>3. Settled(id)'
      BY <2>1, <2>2, WrittenSettles, StatusFiles DEF Latched, TrulyTerminal
    <2> QED
      BY <1>2, <2>1, <2>2, <2>3, OthersWritten, StatusFiles DEF Queued
  <1>5. ASSUME NEW w \in Workers, ReapRetry(w)
        PROVE  LostInv'
    <2>1. slot[w] \in Ids /\ ReapTask(w) /\ result' = Written(slot[w], "interrupted")
          /\ running[slot[w]].task \in Tasks
      BY <1>5, ReapTaskType DEF ReapRetry
    <2>2. PICK id \in Ids : id = slot[w]
      BY <2>1
    <2>3. PICK t \in Tasks : t.id = id /\ pending' = Enqueued(pending, t, TRUE)
      BY <1>5, <2>1, <2>2, AgainType DEF ReapRetry, Again, Tasks
    <2>4. \A x \in Ids : Queued(x)' <=> Queued(x) \/ x = id
      BY <2>3, EnqueuedQueue
    <2> QED
      BY <1>2, <2>1, <2>2, <2>4, OthersWritten, StatusFiles
  <1>6. CASE HealthEnd
    BY <1>6, StillKeeps DEF HealthEnd, queueVars, fileVars
  <1>7. CASE CrashStorm
    <2>1. SUFFICES ASSUME NEW id \in Ids
                   PROVE  LostAt(id)'
      BY DEF LostInv
    <2>2. CASE IsRunning(id) \/ Queued(id)
      <3>1. result'[id] = Guarded(result[id], "failed")
        BY <1>7, <2>2 DEF CrashStorm
      <3>2. result'[id] \in TrulyTerminal
        BY <3>1, GuardedEnds, StatusFiles DEF TypeOK
      <3> QED
        BY <3>2, SettledKeeps DEF Settled, Latched
    <2>3. CASE ~(IsRunning(id) \/ Queued(id))
      <3>1. result'[id] = result[id] /\ successor' = successor
        BY <1>7, <2>3 DEF CrashStorm
      <3>2. Live(result[id]) => successor[id] # None
        BY <2>3 DEF LostInv, LostAt, Found, Vouched
      <3>3. Gone(id)'
        BY <1>7, TaskQueueAssumption DEF CrashStorm, Gone, Holds, Up
      <3> QED
        BY <3>1, <3>2, <3>3, GoneKeeps
    <2> QED
      BY <2>2, <2>3
  <1> QED
    BY <1>1, <1>3, <1>4, <1>5, <1>6, <1>7 DEF Health

(* A step that writes the result of one task and moves no other.             *)
LEMMA WriteKeeps ==
    ASSUME TypeOK, TypeOK', LostInv, NEW id \in Ids, NEW s \in Files, s # NoResult,
           result' = Written(id, s),
           UNCHANGED <<running, slot, pool, proc, successor>>,
           \A x \in Ids \ {id} : Queued(x) => Queued(x)',
           LostAt(id)'
    PROVE  LostInv'
  <1>1. \A x \in Ids \ {id} : Unmoved(x)
    BY OthersWritten DEF Unmoved, IsRunning, Holds, Up
  <1> QED
    BY <1>1, UnmovedKeeps DEF LostInv

(* A late task_done frees the slot of a task that is over or superseded.     *)
LEMMA TaskDoneLost ==
    ASSUME OwnDrives, TypeOK, TypeOK', AgreeInv, LostInv,
           NEW id \in Ids, NEW by, TaskDone(id, by), Over(id)
    PROVE  LostInv'
  <1>1. /\ UNCHANGED <<pending, pool, proc, successor>> /\ running' = Without(id)
        /\ \A w \in Workers : slot'[w] = IF Freed(w, id, by) THEN None ELSE slot[w]
    BY DEF TaskDone
  <1>2. \A x \in Ids : running'[x] = IF x = id THEN NotRunning ELSE running[x]
    BY <1>1 DEF Without, TypeOK
  <1>3. None \notin Ids
    BY TaskQueueAssumption
  <1>4. \A x \in Ids \ {id} : Unmoved(x)
    <2>1. \A x \in Ids \ {id}, w \in Workers : slot'[w] = x <=> slot[w] = x
      BY <1>1, <1>3 DEF Freed
    <2>2. \A x \in Ids \ {id} : result'[x] = result[x] /\ running'[x] = running[x]
      BY <1>2, TaskDoneSettles
    <2> QED
      BY <1>1, <2>1, <2>2 DEF Unmoved, Settled, Queued, IsRunning, Holds, Up
  <1>5. LostAt(id)'
    <2>1. CASE Settled(id)
      BY <2>1, TaskDoneSettles, SettledKeeps
    <2>2. CASE id \in Forked /\ child[id] \in TrulyTerminal /\ IsRunning(id)
      <3>1. running[id].task.origin \in Forked
        BY <2>2 DEF AgreeInv, EntryAgrees, Agrees, IsRunning, OwnDrives
      <3> QED
        BY <2>2, <3>1, TaskDoneSettles, SettledKeeps
    <2>3. CASE id \in Forked /\ ~IsRunning(id)
      <3>1. result'[id] = IF result[id] = NoResult THEN "failed" ELSE result[id]
        BY <2>3, TaskDoneSettles
      <3>2. CASE result[id] = NoResult
        BY <3>1, <3>2, SettledKeeps DEF Settled, Latched, TrulyTerminal
      <3>3. CASE result'[id] = result[id]
        <4>1. \A w \in Workers : slot'[w] = id => slot[w] = id
          BY <1>1, <1>3
        <4>2. Live(result[id]) => Queued(id) \/ successor[id] # None
          BY <2>3 DEF LostInv, LostAt, Found, Vouched
        <4>3. Vouched(id)'
          BY <1>1, <2>3, <3>3, <4>1 DEF LostInv, LostAt, Vouched
        <4> QED
          BY <1>1, <2>3, <3>3, <4>2, <4>3 DEF LostAt, Found, Queued
      <3> QED
        BY <3>1, <3>2, <3>3
    <2> QED
      BY <2>1, <2>2, <2>3 DEF Over
  <1> QED
    BY <1>4, <1>5, UnmovedKeeps DEF LostInv

LEMMA DrainLost ==
    ASSUME OwnDrives, TypeOK, TypeOK', OnceInv, AgreeInv, OverInv, LostInv, Drain
    PROVE  LostInv'
  <1>1. CASE DrainTaskDone
    <2>1. /\ events \in Seq(Events) /\ events # <<>> /\ Head(events).kind = "task_done"
          /\ TaskDone(Head(events).id, Head(events).by)
      BY <1>1 DEF DrainTaskDone, TypeOK
    <2>2. Head(events) \in Events /\ Head(events) = events[1] /\ 1 \in DOMAIN events
      BY <2>1, HeadTailProperties, TailEntries
    <2>3. Head(events).id \in Ids /\ Reported(Head(events).id)
      BY <2>1, <2>2 DEF Events, Reported
    <2>4. Over(Head(events).id)
      BY <2>3 DEF OverInv
    <2> QED
      BY <2>1, <2>3, <2>4, TaskDoneLost
  <1>2. ASSUME NEW id \in Ids, DrainNotice(id)
        PROVE  LostInv'
    <2>1. Over(id)
      BY <1>2 DEF DrainNotice, OverInv, Over
    <2> QED
      BY <1>2, <2>1, TaskDoneLost DEF DrainNotice
  <1>3. CASE DrainReject
    <2>1. PICK id \in Ids, s \in {"failed", "rejected_duplicate"} :
              result' = Written(id, s) /\ UNCHANGED <<pending, running, slot, pool, proc, successor>>
      <3>1. Head(events) \in Events
        BY <1>3, HeadTailProperties DEF DrainReject, TypeOK
      <3>2. Head(events).id \in Ids
        BY <3>1 DEF Events
      <3> QED
        BY <1>3, <3>2 DEF DrainReject, queueVars
    <2>2. Settled(id)'
      BY <2>1, WrittenSettles, StatusFiles DEF Latched, TrulyTerminal
    <2> QED
      BY <2>1, <2>2, SettledKeeps, WriteKeeps, StatusFiles DEF Queued
  <1>4. CASE DrainSchedule
    <2>1. PICK id \in Ids : id = Head(events).id
      <3>1. Head(events) \in Events
        BY <1>4, HeadTailProperties DEF DrainSchedule, TypeOK
      <3> QED
        BY <3>1 DEF Events
    <2>2. /\ result' = Written(id, "scheduled") /\ pending' = Enqueued(pending, New(id), FALSE)
          /\ UNCHANGED <<running, slot, pool, proc, successor>>
      BY <1>4, <2>1 DEF DrainSchedule
    <2>3. Requested(id)
      <3>1. events # <<>> /\ events \in Seq(Events) /\ Schedule(Head(events))
        BY <1>4 DEF DrainSchedule, TypeOK, Schedule
      <3>2. Head(events) = events[1] /\ 1 \in DOMAIN events
        BY <3>1, TailEntries
      <3> QED
        BY <2>1, <3>1, <3>2 DEF Requested
    <2>4. Nowhere(id)
      BY <2>3 DEF OnceInv, FreshInv, RequestedAreFresh
    <2>5. \A x \in Ids : Queued(x)' <=> Queued(x) \/ x = id
      <3>1. PICK t \in Tasks : t = New(id) /\ t.id = id
        BY NewType DEF New
      <3> QED
        BY <2>2, <3>1, EnqueuedQueue
    <2>6. Gone(id)'
      BY <2>2, <2>4 DEF Nowhere, Gone, Holds, Up
    <2>7. LostAt(id)'
      BY <2>5, <2>6, GoneKeeps
    <2> QED
      BY <2>2, <2>5, <2>7, WriteKeeps, StatusFiles
  <1>5. CASE DrainCancel \/ DrainEnd
    BY <1>5, StillKeeps DEF DrainCancel, CancelBegin, DrainEnd, queueVars, fileVars
  <1> QED
    BY <1>1, <1>2, <1>3, <1>4, <1>5 DEF Drain

LEMMA CancelLost ==
    ASSUME TypeOK, TypeOK', PopInRange, SlotInv, OnePlace, PopsInv, LostInv, CancelStep
    PROVE  LostInv'
  <1>1. cancel # NoCancel
    <2>1. NoCancel.at = 0
      BY DEF NoCancel
    <2> QED
      BY <2>1 DEF CancelStep, CancelPending, CancelRunning, CancelRespawn, CancelMiss, NoCancel
  <1>2. PICK id \in Ids : id = cancel.id
    BY <1>1, CancelType
  <1>3. result' = Written(id, "cancelled") => Settled(id)' /\ LostAt(id)'
    <2>1. result' = Written(id, "cancelled") => Settled(id)'
      BY WrittenSettles, StatusFiles DEF Latched, TrulyTerminal
    <2> QED
      BY <2>1, SettledKeeps
  <1>4. CASE CancelPending
    <2>1. /\ pending' = RemoveAt(pending, cancel.at) /\ cancel.at # 0
          /\ result' = Written(id, "cancelled")
          /\ UNCHANGED <<running, slot, pool, proc, successor>>
      BY <1>2, <1>4 DEF CancelPending
    <2>2. pending \in Seq(Tasks) /\ cancel.at \in 1 .. Len(pending)
      <3>1. cancel.at \in Nat
        BY <1>1, CancelType
      <3>2. pending \in Seq(Tasks)
        BY DEF TypeOK
      <3>3. Len(pending) \in Nat
        BY <3>2, LenProperties
      <3> QED
        BY <2>1, <3>1, <3>2, <3>3 DEF PopInRange
    <2>3. \A j \in DOMAIN pending : j # cancel.at =>
              \E k \in DOMAIN pending' : pending'[k] = pending[j]
      BY <2>1, <2>2, RemovedMembers
    <2>4. \A x \in Ids \ {id} : Queued(x) => Queued(x)'
      <3>1. SUFFICES ASSUME NEW x \in Ids \ {id}, NEW j \in DOMAIN pending, pending[j].id = x
                     PROVE  Queued(x)'
        BY DEF Queued
      <3>2. j # cancel.at
        BY <1>2, <2>1, <3>1 DEF PopsInv
      <3> QED
        BY <2>3, <3>1, <3>2 DEF Queued
    <2> QED
      BY <1>3, <2>1, <2>4, WriteKeeps, StatusFiles
  <1>5. ASSUME NEW w \in Workers, CancelRunning(w)
        PROVE  LostInv'
    <2>1. /\ result' = Written(id, "cancelled") /\ running' = Without(id)
          /\ UNCHANGED <<pending, slot, pool, successor>>
          /\ proc' = [proc EXCEPT ![w] = [Fresh EXCEPT !.state = "signalled"]]
      BY <1>2, <1>5 DEF CancelRunning
    <2>2. \A x \in Ids, v \in Workers : Holds(v, x)' => Holds(v, x)
      <3>1. \A v \in Workers :
                proc'[v] = IF v = w THEN [Fresh EXCEPT !.state = "signalled"] ELSE proc[v]
        BY <2>1 DEF TypeOK
      <3> QED
        BY <2>1, <3>1, HoldsProcess, FreshHoldsNothing
    <2>3. \A x \in Ids \ {id} : running'[x] = running[x]
      BY <2>1 DEF Without, TypeOK
    <2>4. \A x \in Ids \ {id} : Unmoved(x)
      BY <2>1, <2>2, <2>3, OthersWritten, StatusFiles DEF Unmoved, IsRunning, Queued
    <2> QED
      BY <1>3, <2>1, <2>4, UnmovedKeeps DEF LostInv
  <1>6. CASE CancelRespawn
    <2>1. /\ cancel.worker \in Workers /\ cancel.worker # None
          /\ slot' = [slot EXCEPT ![cancel.worker] = None] /\ proc' = Respawned(cancel.worker)
          /\ UNCHANGED <<pending, running, pool, result, successor>>
      BY <1>1, <1>6, CancelType DEF CancelRespawn, fileVars
    <2>2. slot[cancel.worker] = id /\ ~IsRunning(id)
      BY <1>1, <1>2, <2>1 DEF SlotInv, CancelInv
    <2>3. /\ Gone(id)'
          /\ \A x \in Ids \ {id}, v \in Workers :
                (slot'[v] = x <=> slot[v] = x) /\ (Holds(v, x)' => Holds(v, x))
      BY <2>1, <2>2, FreedGone
    <2>4. \A x \in Ids \ {id} : Unmoved(x)
      BY <2>1, <2>3 DEF Unmoved, Settled, Queued, IsRunning
    <2>5. Live(result'[id]) => successor'[id] # None
      BY <2>1, <2>2 DEF LostInv, LostAt, Vouched
    <2>6. LostAt(id)'
      BY <2>3, <2>5, GoneKeeps
    <2> QED
      BY <2>4, <2>6, UnmovedKeeps DEF LostInv
  <1>7. CASE CancelMiss
    <2>1. UNCHANGED <<pending, running, slot, pool, proc, successor>>
          /\ (result' = result \/ result' = Written(id, "cancelled"))
      BY <1>2, <1>7 DEF CancelMiss, queueVars
    <2> QED
      BY <1>3, <2>1, StillKeeps, WriteKeeps, StatusFiles DEF Queued
  <1> QED
    BY <1>4, <1>5, <1>6, <1>7 DEF CancelStep

(* A timeout frees the slot of the task that timed out.                      *)
LEMMA StoppedGone ==
    ASSUME TypeOK, SlotInv, OnePlace, NEW id \in Ids, TimeoutStop(id)
    PROVE  /\ Gone(id)'
           /\ \A x \in Ids \ {id} : running'[x] = running[x]
           /\ \A x \in Ids \ {id}, v \in Workers :
                 (slot'[v] = x <=> slot[v] = x) /\ (Holds(v, x)' => Holds(v, x))
  <1>1. PICK w \in Workers : w = todo[id].worker
    BY TodoType DEF TimeoutStop
  <1>2. slot' = [slot EXCEPT ![w] = None] /\ proc' = Respawned(w) /\ pool' = pool
        /\ running' = Without(id)
    BY <1>1 DEF TimeoutStop
  <1>3. slot[w] = id
    BY <1>1 DEF TimeoutStop, At, In, SlotInv, TodoInv, RunningIsBusy
  <1>4. \A x \in Ids \ {id} : running'[x] = running[x]
    BY <1>2 DEF Without, TypeOK
  <1> QED
    BY <1>2, <1>3, <1>4, FreedGone

(* A retry is queued before its predecessor is forgotten.                    *)
LEMMA TimeoutsLost ==
    ASSUME NoHttp, TypeOK, TypeOK', SlotInv, OnceInv, LostInv, Timeouts
    PROVE  LostInv'
  <1>1. OnePlace
    BY DEF OnceInv
  <1>2. ASSUME NEW id \in Ids, TimeoutFail(id)
        PROVE  LostInv'
    <2>1. TimeoutStop(id) /\ result' = Written(id, "failed") /\ UNCHANGED <<pending, successor>>
      BY <1>2 DEF TimeoutFail
    <2>2. Settled(id)'
      BY <2>1, WrittenSettles, StatusFiles DEF Latched, TrulyTerminal
    <2>3. /\ \A x \in Ids \ {id} : running'[x] = running[x]
          /\ \A x \in Ids \ {id}, v \in Workers :
                (slot'[v] = x <=> slot[v] = x) /\ (Holds(v, x)' => Holds(v, x))
      BY <1>1, <2>1, StoppedGone
    <2>4. \A x \in Ids \ {id} : Unmoved(x)
      BY <2>1, <2>3, OthersWritten, StatusFiles DEF Unmoved, IsRunning, Queued
    <2> QED
      BY <2>2, <2>4, SettledKeeps, UnmovedKeeps DEF LostInv
  <1>3. ASSUME NEW id \in Ids, NEW retry \in Ids, TimeoutRetry(id, retry)
        PROVE  LostInv'
    <2>1. /\ TimeoutStop(id)
          /\ result' = [result EXCEPT ![retry] = Guarded(@, "scheduled"),
                                      ![id] = Guarded(result[id], "interrupted")]
          /\ \/ retry = id /\ successor' = successor
             \/ /\ retry \in RetryIds /\ result[retry] = NoResult
                /\ successor' = [successor EXCEPT ![id] = retry]
      BY <1>3 DEF TimeoutRetry
    <2>0. /\ Gone(id)'
          /\ \A x \in Ids \ {id} : running'[x] = running[x]
          /\ \A x \in Ids \ {id}, v \in Workers :
                (slot'[v] = x <=> slot[v] = x) /\ (Holds(v, x)' => Holds(v, x))
      BY <1>1, <2>1, StoppedGone
    <2>2. PICK t \in Tasks : t.id = retry /\ pending' = Enqueued(pending, t, TRUE)
      <3>1. todo[id].task \in Tasks
        BY <2>1, TodoType DEF TimeoutStop
      <3> QED
        BY <1>3, <3>1, AgainType DEF TimeoutRetry, Again, Tasks
    <2>3. \A x \in Ids : Queued(x)' <=> Queued(x) \/ x = retry
      BY <2>2, EnqueuedQueue
    <2>4. \A x \in Ids \ {id, retry} : Unmoved(x)
      <3>1. \A x \in Ids \ {id, retry} : result'[x] = result[x]
        BY <2>1 DEF TypeOK
      <3>2. \A x \in Ids \ {id} : successor'[x] = successor[x]
        BY <2>1 DEF TypeOK
      <3> QED
        BY <2>0, <2>3, <3>1, <3>2 DEF Unmoved, IsRunning, Settled
    <2>5. LostAt(id)'
      <3>1. Gone(id)'
        BY <2>0
      <3>2. Queued(id)' \/ successor'[id] # None
        BY <2>1, <2>3, TaskQueueAssumption DEF TypeOK
      <3> QED
        BY <3>1, <3>2, GoneKeeps
    <2>6. LostAt(retry)'
      <3>1. CASE retry = id
        BY <2>5, <3>1
      <3>2. CASE retry # id
        <4>1. Nowhere(retry)
          BY <2>1, <3>2 DEF NoHttp, OnceInv, FreshInv, NoResultIsFresh
        <4>2. Gone(retry)'
          BY <2>0, <3>2, <4>1 DEF Nowhere, Gone
        <4> QED
          BY <2>3, <4>2, GoneKeeps
      <3> QED
        BY <3>1, <3>2
    <2> QED
      BY <2>4, <2>5, <2>6, UnmovedKeeps DEF LostInv
  <1>4. ASSUME NEW id \in Ids, TimeoutGrace(id)
        PROVE  LostInv'
    <2>1. running' = [running EXCEPT ![id] = Graced(todo[id])]
          /\ UNCHANGED <<pending, slot, pool, proc, result, successor>>
      BY <1>4 DEF TimeoutGrace, fileVars
    <2>2. \A x \in Ids : IsRunning(x) => IsRunning(x)'
      <3>1. running'[id] # NotRunning
        BY <1>4, <2>1, TodoType DEF TimeoutGrace, Graced, Entries, NotRunning, TypeOK
      <3>2. \A x \in Ids \ {id} : running'[x] = running[x]
        BY <2>1 DEF TypeOK
      <3> QED
        BY <3>1, <3>2 DEF IsRunning
    <2>3. \A x \in Ids : Unmoved(x)
      BY <2>1, <2>2 DEF Unmoved, Settled, Queued, Holds, Up
    <2> QED
      BY <2>3, UnmovedKeeps DEF LostInv
  <1>5. CASE TimeoutsEnd \/ \E id \in Ids : TimeoutPass(id)
    BY <1>5, StillKeeps DEF TimeoutsEnd, TimeoutPass, queueVars, fileVars
  <1> QED
    BY <1>2, <1>3, <1>4, <1>5 DEF Timeouts

(* The head of PENDING goes to a slot and into RUNNING in one step.          *)
LEMMA AssignLost ==
    ASSUME TypeOK, TypeOK', OnePlace, LostInv, NEW w \in Workers, Assign(w)
    PROVE  LostInv'
  <1>1. /\ pending \in Seq(Tasks) /\ pending # <<>> /\ pending' = Tail(pending)
        /\ slot[w] = None /\ UNCHANGED <<pool, successor>>
    BY DEF Assign, TypeOK
  <1>2. PICK t \in Tasks : t = Head(pending)
    BY <1>1, HeadTailProperties
  <1>3. PICK id \in Ids : id = t.id
    BY DEF Tasks
  <1>4. /\ slot' = [slot EXCEPT ![w] = id]
        /\ proc' = [proc EXCEPT ![w].inbox = Append(@, t)]
        /\ running' = [running EXCEPT ![id] =
               [kind |-> "entry", task |-> t, worker |-> w, grace |-> FALSE]]
        /\ result' = Written(id, "running") \/ result' = result
    BY <1>2, <1>3 DEF Assign
  <1>5. /\ \A j \in DOMAIN pending : pending[j] = t \/ \E k \in DOMAIN pending' : pending'[k] = pending[j]
        /\ Queued(id)
    BY <1>1, <1>2, <1>3, TailMembers DEF Queued
  <1>6. \A v \in Workers : slot[v] # id /\ ~Holds(v, id)
    BY <1>5 DEF OnePlace, QueuedIsFree
  <1>7. \A v \in Workers : slot'[v] = IF v = w THEN id ELSE slot[v]
    BY <1>4 DEF TypeOK
  <1>8. \A x \in Ids, v \in Workers : Holds(v, x)' => Holds(v, x) \/ (v = w /\ x = id)
    <2>1. proc[w] \in Processes /\ proc[w].inbox \in Seq(Tasks)
      BY ProcessType DEF TypeOK
    <2>2. /\ proc'[w].inbox = Append(proc[w].inbox, t) /\ proc'[w].does = proc[w].does
          /\ proc'[w].state = proc[w].state
          /\ \A v \in Workers : v # w => proc'[v] = proc[v]
      BY <1>4, <2>1 DEF TypeOK, Processes
    <2>3. \A i \in DOMAIN proc'[w].inbox :
              proc'[w].inbox[i] = t \/ \E j \in DOMAIN proc[w].inbox : proc'[w].inbox[i] = proc[w].inbox[j]
      BY <2>1, <2>2, AppendMembers
    <2>4. \A x \in Ids : HoldsIn(proc'[w], x) => HoldsIn(proc[w], x) \/ x = id
      BY <1>3, <2>2, <2>3 DEF HoldsIn
    <2> QED
      BY <1>1, <2>2, <2>4, HoldsProcess
  <1>9. running'[id] # NotRunning /\ \A x \in Ids \ {id} : running'[x] = running[x]
    BY <1>4 DEF TypeOK, NotRunning
  <1>10. ASSUME NEW x \in Ids \ {id}
         PROVE  LostAt(x)'
    <2>1. Queued(x) => Queued(x)'
      BY <1>3, <1>5 DEF Queued
    <2>2. \A v \in Workers : (slot'[v] = x <=> slot[v] = x) /\ (Holds(v, x)' => Holds(v, x))
      BY <1>1, <1>7, <1>8, TaskQueueAssumption
    <2>3. (Live(result'[x]) => Live(result[x])) /\ (Settled(x) => Settled(x)')
      BY <1>4, OthersWritten, StatusFiles DEF Settled
    <2>4. Unmoved(x)
      BY <1>1, <1>9, <2>1, <2>2, <2>3 DEF Unmoved, IsRunning
    <2> QED
      BY <2>4, UnmovedKeeps DEF LostInv
  <1>11. LostAt(id)'
    <2>1. Found(id)' /\ Vouched(id)'
      BY <1>7, <1>9 DEF Found, Vouched, IsRunning
    <2>2. Backed(id)'
      BY <1>6, <1>7, <1>8, <1>9 DEF Backed, IsRunning
    <2> QED
      BY <2>1, <2>2 DEF LostAt
  <1> QED
    BY <1>10, <1>11 DEF LostInv

LEMMA AssignTasksLost ==
    ASSUME TypeOK, TypeOK', OnePlace, SweptInv, LostInv, AssignTasks
    PROVE  LostInv'
  <1>1. CASE AssignNothing \/ AssignBegin \/ DropDone \/ AssignEnd
    BY <1>1, StillKeeps DEF AssignNothing, AssignBegin, DropDone, AssignEnd, queueVars, fileVars
  <1>2. CASE DropStep
    <2>1. PICK id \in Ids : id = pending[sweep.at].id
      <3>1. pending[sweep.at] \in Tasks
        BY <1>2, ElementOfSeq, LenProperties DEF DropStep, TypeOK
      <3> QED
        BY <3>1 DEF Tasks
    <2>2. UNCHANGED <<pending, running, slot, pool, proc, successor>>
          /\ (result' = result \/ result' = Written(id, "cancelled"))
      BY <1>2, <2>1 DEF DropStep, queueVars
    <2>3. result' = Written(id, "cancelled") => Settled(id)'
      BY WrittenSettles, StatusFiles DEF Latched, TrulyTerminal
    <2> QED
      BY <2>2, <2>3, StillKeeps, SettledKeeps, WriteKeeps, StatusFiles DEF Queued
  <1>3. CASE DropEnd
    <2>1. /\ phase = "drop" /\ sweep.at = 0 /\ (pending' = sweep.keep \/ pending' = pending)
          /\ UNCHANGED <<running, slot, pool, proc, result, successor>>
      BY <1>3 DEF DropEnd, fileVars
    <2>2. SUFFICES ASSUME NEW id \in Ids
                   PROVE  LostAt(id)'
      BY DEF LostInv
    <2>3. CASE Settled(id)
      BY <2>1, <2>3, SettledKeeps DEF Settled
    <2>4. CASE ~Settled(id)
      <3>1. Queued(id) => Queued(id)'
        BY <2>1, <2>4 DEF SweptInv, Queued
      <3>2. Unmoved(id)
        BY <2>1, <3>1 DEF Unmoved, Settled, IsRunning, Holds, Up
      <3> QED
        BY <3>2, UnmovedKeeps DEF LostInv
    <2> QED
      BY <2>3, <2>4
  <1> QED
    BY <1>1, <1>2, <1>3, AssignLost DEF AssignTasks

LEMMA ProduceLost ==
    ASSUME NoHttp, TypeOK, TypeOK', OnceInv, LostInv, Produce
    PROVE  LostInv'
  <1>1. PICK id \in Ids : CronDue(id) \/ OwnerQueues(id)
    BY DEF Produce
  <1>2. /\ pending' = Enqueued(pending, New(id), FALSE)
        /\ UNCHANGED <<running, slot, pool, proc, successor>>
        /\ result' = Written(id, "scheduled") \/ result' = result
    BY <1>1 DEF CronDue, OwnerQueues, fileVars
  <1>3. Nowhere(id)
    BY <1>1 DEF CronDue, OwnerQueues, NoHttp, OnceInv, FreshInv, NoResultIsFresh, OwnersAreFresh
  <1>4. \A x \in Ids : Queued(x)' <=> Queued(x) \/ x = id
    <2>1. PICK t \in Tasks : t = New(id) /\ t.id = id
      BY NewType DEF New
    <2> QED
      BY <1>2, <2>1, EnqueuedQueue
  <1>5. LostAt(id)'
    <2>1. Gone(id)'
      BY <1>2, <1>3 DEF Nowhere, Gone, Holds, Up
    <2> QED
      BY <1>4, <2>1, GoneKeeps
  <1>6. \A x \in Ids \ {id} : Unmoved(x)
    <2>1. \A x \in Ids \ {id} :
              (Live(result'[x]) => Live(result[x])) /\ (Settled(x) => Settled(x)')
      BY <1>2, OthersWritten, StatusFiles DEF Settled
    <2> QED
      BY <1>2, <1>4, <2>1 DEF Unmoved, IsRunning, Holds, Up
  <1> QED
    BY <1>5, <1>6, UnmovedKeeps DEF LostInv

(* What a worker reports of an unsettled task is backed by slot and entry.   *)
LEMMA BackedKeeps ==
    ASSUME NEW id \in Ids, LostAt(id), id \notin Forked, ~Settled(id),
           NEW w \in Workers, Holds(w, id), UNCHANGED <<running, slot>>,
           \A v \in Workers : Holds(v, id)' => Holds(v, id)
    PROVE  LostAt(id)'
  <1>1. Backed(id) /\ slot[w] = id /\ IsRunning(id)
    BY DEF LostAt, Backed
  <1>2. Backed(id)'
    BY <1>1 DEF Backed, IsRunning
  <1> QED
    BY <1>1, <1>2 DEF LostAt, Found, Vouched, IsRunning

LEMMA ReportLost ==
    ASSUME OwnDrives, TypeOK, TypeOK', LostInv, NEW t \in Tasks, Agrees(t),
           NEW s \in Files \ {NoResult}, Report(t, s),
           NEW w \in Workers, Holds(w, t.id),
           UNCHANGED <<pending, running, slot, pool, successor>>,
           \A x \in Ids, v \in Workers : Holds(v, x)' => Holds(v, x)
    PROVE  LostInv'
  <1>1. PICK id \in Ids : id = t.id
    BY DEF Tasks
  <1>2. /\ \A x \in Ids \ {id} : result'[x] = result[x]
        /\ \A x \in Ids : Settled(x) => Settled(x)'
        /\ id \in Forked => result' = result
    BY <1>1, ReportSettles DEF Agrees, OwnDrives
  <1>3. \A x \in Ids : result'[x] = result[x] => Unmoved(x)
    BY <1>2 DEF Unmoved, Queued, IsRunning
  <1>4. LostAt(id)'
    <2>1. CASE id \in Forked
      BY <1>2, <1>3, <2>1, UnmovedKeeps DEF LostInv
    <2>2. CASE Settled(id)
      BY <1>2, <2>2, SettledKeeps
    <2>3. CASE id \notin Forked /\ ~Settled(id)
      BY <1>1, <2>3, BackedKeeps DEF LostInv
    <2> QED
      BY <2>1, <2>2, <2>3
  <1> QED
    BY <1>2, <1>3, <1>4, UnmovedKeeps DEF LostInv

(* No step of a worker puts a task into its hands: what it takes, it had in  *)
(* its inbox.                                                                *)
LEMMA WorkerHolds ==
    ASSUME TypeOK, NEW w \in Workers, Worker(w)
    PROVE  \A x \in Ids, v \in Workers : Holds(v, x)' => Holds(v, x)
  <1>1. pool' = pool /\ \A v \in Workers : v # w => proc'[v] = proc[v]
    BY WorkerSteps DEF queueVars
  <1>2. proc[w] \in Processes /\ proc[w].inbox \in Seq(Tasks)
    BY ProcessType DEF TypeOK
  <1>3. \A x \in Ids : HoldsIn(proc'[w], x) => HoldsIn(proc[w], x)
    <2>1. CASE proc'[w] = proc[w]
      BY <2>1
    <2>2. CASE proc'[w] = [proc[w] EXCEPT !.does = Idle]
      <3>1. /\ proc'[w].inbox = proc[w].inbox /\ proc'[w].does = Idle
            /\ proc'[w].state = proc[w].state
        BY <1>2, <2>2 DEF Processes
      <3> QED
        BY <3>1 DEF HoldsIn
    <2>3. CASE Working(w) /\ proc'[w] = [proc[w] EXCEPT !.does.kind = "stored"]
      <3>1. proc[w].does \in Busy /\ proc[w].does # Idle
        BY <2>3, DoesType DEF Working
      <3>2. /\ proc'[w].inbox = proc[w].inbox /\ proc'[w].does.task = proc[w].does.task
            /\ proc'[w].state = proc[w].state
        BY <1>2, <2>3, <3>1 DEF Processes, Busy
      <3> QED
        BY <3>1, <3>2 DEF HoldsIn
    <2>4. CASE \E how \in {"exited", "signalled"} : proc'[w] = [Fresh EXCEPT !.state = how]
      BY <2>4, FreshHoldsNothing
    <2>5. CASE /\ Up(w) /\ proc[w].does = Idle /\ proc[w].inbox # <<>>
               /\ proc'[w] = [proc[w] EXCEPT !.inbox = Tail(@),
                                             !.does = [kind |-> "working",
                                                       task |-> Head(proc[w].inbox)]]
      <3>1. /\ proc'[w].inbox = Tail(proc[w].inbox) /\ proc'[w].state = proc[w].state
            /\ proc'[w].does.task = Head(proc[w].inbox)
        BY <1>2, <2>5 DEF Processes
      <3>2. /\ Within(Tail(proc[w].inbox), proc[w].inbox)
            /\ \E j \in DOMAIN proc[w].inbox : Head(proc[w].inbox) = proc[w].inbox[j]
        BY <1>2, <2>5, TailMembers
      <3> QED
        BY <3>1, <3>2 DEF HoldsIn, Within
    <2> QED
      BY <2>1, <2>2, <2>3, <2>4, <2>5, WorkerSteps
  <1> QED
    BY <1>1, <1>3, HoldsProcess

LEMMA WorkerLost ==
    ASSUME OwnDrives, TypeOK, TypeOK', OnceInv, AgreeInv, LostInv, NEW w \in Workers, Worker(w)
    PROVE  LostInv'
  <1>1. UNCHANGED <<pending, running, slot, pool, successor>>
    BY WorkerSteps DEF queueVars
  <1>2. \A x \in Ids, v \in Workers : Holds(v, x)' => Holds(v, x)
    BY WorkerHolds
  <1>3. HeldAgree(proc[w])
    BY DEF AgreeInv
  <1>4. CASE Take(w)
    <2>1. proc[w].inbox \in Seq(Tasks) /\ proc[w].inbox # <<>> /\ Up(w)
      BY <1>4, ProcessType DEF Take, TypeOK
    <2>2. PICK t \in Tasks : t = Head(proc[w].inbox)
      BY <2>1, HeadTailProperties
    <2>3. Agrees(t) /\ Holds(w, t.id)
      BY <1>3, <2>1, <2>2, TailMembers DEF HeldAgree, AllAgree, Holds
    <2>4. Report(t, "running")
      BY <1>4, <2>2 DEF Take
    <2> QED
      BY <1>1, <1>2, <2>3, <2>4, ReportLost, StatusFiles
  <1>5. ASSUME NEW s \in {"completed", "failed"}, Store(w, s)
        PROVE  LostInv'
    <2>1. proc[w].does # Idle /\ Up(w)
      BY <1>5 DEF Store, Working
    <2>2. PICK t \in Tasks : t = proc[w].does.task
      BY <2>1, DoesType
    <2>3. Agrees(t) /\ Holds(w, t.id)
      BY <1>3, <2>1, <2>2 DEF HeldAgree, Holds
    <2>4. Report(t, s)
      BY <1>5, <2>2 DEF Store
    <2> QED
      BY <1>1, <1>2, <2>3, <2>4, ReportLost, StatusFiles
  <1>6. CASE Emit(w) \/ Break(w) \/ \E how \in {"exited", "signalled"} : Die(w, how)
    <2>1. result' = result
      BY <1>6 DEF Emit, Break, Die
    <2>2. \A x \in Ids : Unmoved(x)
      BY <1>1, <1>2, <2>1 DEF Unmoved, Settled, Queued, IsRunning
    <2> QED
      BY <2>2, UnmovedKeeps DEF LostInv
  <1>7. ASSUME NEW id \in Ids, ScheduleSubagent(w, id)
        PROVE  LostInv'
    <2>1. /\ result' = Written(id, "requested") /\ result[id] = NoResult /\ id \in Subagents
          /\ proc' = proc
      BY <1>7 DEF ScheduleSubagent
    <2>2. Nowhere(id)
      BY <2>1 DEF OwnDrives, NoHttp, OnceInv, FreshInv, NoResultIsFresh
    <2>3. ~Live(result'[id])
      <3>1. result'[id] = "requested"
        BY <2>1, WrittenSettles, StatusFiles DEF Settled, Latched, TrulyTerminal, NoResult
      <3> QED
        BY <3>1 DEF Live
    <2>4. LostAt(id)'
      <3>1. Gone(id)'
        BY <1>1, <1>2, <2>2 DEF Nowhere, Gone
      <3> QED
        BY <2>3, <3>1, GoneKeeps
    <2> QED
      BY <1>1, <2>1, <2>4, WriteKeeps, StatusFiles DEF Queued
  <1>8. ASSUME NEW id \in Ids, RequestCancel(w, id)
        PROVE  LostInv'
    <2>1. result' = Written(id, "cancel_requested") /\ proc' = proc
      BY <1>8 DEF RequestCancel
    <2>2. Settled(id)'
      BY <2>1, WrittenSettles, StatusFiles DEF Latched
    <2> QED
      BY <1>1, <2>1, <2>2, SettledKeeps, WriteKeeps, StatusFiles DEF Queued
  <1> QED
    BY <1>4, <1>5, <1>6, <1>7, <1>8 DEF Worker

LEMMA StepLost ==
    ASSUME OwnDrives, TypeOK, TypeOK', LockInv, SlotInv, Quiet, OnceInv, AgreeInv, OverInv,
           SweptInv, PopsInv, LostInv, [Next]_vars
    PROVE  LostInv'
  <1>1. NoHttp /\ OnePlace /\ PopInRange
    BY DEF OwnDrives, OnceInv, LockInv
  <1>2. CASE BudgetExhausted \/ UNCHANGED vars
    BY <1>2, StillKeeps DEF BudgetExhausted, vars, queueVars, fileVars
  <1> QED
    BY <1>1, <1>2, HealthLost, DrainLost, CancelLost, TimeoutsLost, AssignTasksLost, ProduceLost,
       WorkerLost, NoHttpSteps
    DEF Next, MainLoop

LEMMA InitLost == Init => SweptInv /\ PopsInv /\ LostInv
  <1> SUFFICES ASSUME Init
               PROVE  SweptInv /\ PopsInv /\ LostInv
    OBVIOUS
  <1>1. \A w \in Workers : slot[w] = None /\ proc[w] = Fresh
    BY DEF Init
  <1>2. \A id \in Ids, w \in Workers : ~Holds(w, id)
    BY <1>1, HoldsProcess, FreshHoldsNothing
  <1>3. \A id \in Ids : ~Live(result[id]) /\ id # None
    BY TaskQueueAssumption DEF Init, Live, NoResult
  <1>4. LostInv
    BY <1>1, <1>2, <1>3 DEF LostInv, LostAt, Vouched, Backed
  <1>5. SweptInv /\ PopsInv
    BY DEF Init, SweptInv, PopsInv, NoCancel
  <1> QED
    BY <1>4, <1>5

(* All of it together.                                                       *)
WholeInv ==
    /\ TypeOK /\ LockInv /\ SlotInv /\ Quiet /\ OnceInv
    /\ AgreeInv /\ OverInv /\ SweptInv /\ PopsInv /\ LostInv

LEMMA WholeInvariant ==
    ASSUME OwnDrives
    PROVE  Spec => []WholeInv
  <1>1. NoHttp /\ HttpCancels = {}
    BY DEF OwnDrives, NoHttp
  <1>2. Spec => []QueueInv /\ []SlotInv /\ []Quiet /\ []OnceInv
    BY <1>1, QueueInvariant, SlotInvariant, HttpQuiet, NothingIsPosted, OnceInvariant
  <1> DEFINE I == AgreeInv /\ OverInv /\ SweptInv /\ PopsInv /\ LostInv
             J == QueueInv /\ SlotInv /\ Quiet /\ OnceInv
  <1>3. Init => I
    BY InitAgrees, InitOver, InitLost
  <1>4. J /\ J' /\ I /\ [Next]_vars => I'
    BY <1>1, StepAgrees, StepOver, StepSwept, StepPops, StepLost DEF QueueInv
  <1>5. J /\ I => WholeInv
    BY DEF QueueInv, WholeInv
  <1> HIDE DEF I
  <1>6. Spec => []J
    BY <1>2, PTL
  <1> HIDE DEF J
  <1>7. QED
    BY <1>3, <1>4, <1>5, <1>6, PTL DEF Spec

(* A task whose durable status says that it will go on is pending, in a      *)
(* worker slot, or continued under another id, whatever crashed, timed out,  *)
(* was cancelled, dropped or reported late in between.                       *)
THEOREM LiveTasksAreFound ==
    ASSUME OwnDrives
    PROVE  Spec => []NothingIsLost
  <1>1. WholeInv => NothingIsLost
    BY DEF WholeInv, LostInv, LostAt, Found, Live, NothingIsLost
  <1>2. QED
    BY <1>1, WholeInvariant, PTL
-----------------------------------------------------------------------------
(* Subagents stay under their limit: PENDING and RUNNING gain a subagent     *)
(* only where _handle_schedule_task accepts one, and what it counts there is *)
(* never less than the subagents there are.                                  *)
Known(id) == Queued(id) \/ IsRunning(id)
ActiveSet == {id \in Subagents : Known(id)}
CapInv == IsFiniteSet(ActiveSet) /\ Cardinality(ActiveSet) <= MaxSubagents

(* The step brings no subagent but those of S into PENDING or RUNNING.       *)
Brings(S) == \A id \in Subagents \ S : Known(id)' => Known(id)

LEMMA InQueue ==
    ASSUME TypeOK, NEW t \in Tasks, NEW front \in BOOLEAN,
           pending' = Enqueued(pending, t, front),
           \A id \in Ids : IsRunning(id)' => IsRunning(id)
    PROVE  Brings({t.id})
  BY EnqueuedQueue, TaskQueueAssumption DEF Brings, Known

LEMMA NoneNew ==
    ASSUME Within(pending', pending), \A id \in Ids : IsRunning(id)' => IsRunning(id)
    PROVE  Brings({})
  BY TaskQueueAssumption DEF Brings, Known, Queued, Within

LEMMA WithoutLess ==
    ASSUME TypeOK, NEW id \in Ids, running' = Without(id)
    PROVE  \A x \in Ids : IsRunning(x)' => IsRunning(x)
  BY DEF TypeOK, Without, IsRunning

LEMMA HealthBrings ==
    ASSUME NoHttp, TypeOK, OnceInv, Health
    PROVE  Brings({})
  <1>0. Within(pending, pending)
    BY DEF Within
  <1>1. ASSUME NEW w \in Workers, ReapTask(w)
        PROVE  slot[w] \in Ids /\ IsRunning(slot[w]) /\ \A x \in Ids : IsRunning(x)' => IsRunning(x)
    BY <1>1, ReapTaskType, WithoutLess DEF ReapTask, Tracked
  <1>2. ASSUME NEW w \in Workers, ReapFinished(w) \/ ReapFailed(w)
        PROVE  Brings({})
    <2>1. ReapTask(w) /\ pending' = pending
      BY <1>2 DEF ReapFinished, ReapFailed
    <2> QED
      BY <1>0, <1>1, <2>1, NoneNew
  <1>3. ASSUME NEW w \in Workers, ReapRetry(w)
        PROVE  Brings({})
    <2>1. ReapTask(w) /\ running[slot[w]].task \in Tasks
      BY <1>3, ReapTaskType DEF ReapRetry
    <2>2. PICK t \in Tasks : t.id = slot[w] /\ pending' = Enqueued(pending, t, TRUE)
      BY <1>1, <1>3, <2>1, AgainType DEF ReapRetry, Again, Tasks
    <2>3. Brings({t.id})
      BY <1>1, <2>1, <2>2, InQueue
    <2> QED
      BY <1>1, <2>1, <2>2, <2>3 DEF Brings, Known
  <1>4. CASE HealthEnd \/ \E w \in Workers : ReapUntracked(w)
    BY <1>0, <1>4, NoneNew DEF HealthEnd, ReapUntracked, IsRunning, queueVars
  <1>5. CASE CrashStorm
    <2>1. DOMAIN pending' = {} /\ \A x \in Ids : ~IsRunning(x)'
      BY <1>5, EmptySeq, LenProperties DEF CrashStorm, IsRunning
    <2> QED
      BY <2>1, NoneNew DEF Within
  <1> QED
    BY <1>2, <1>3, <1>4, <1>5 DEF Health

LEMMA DrainBrings ==
    ASSUME TypeOK, Drain
    PROVE  \/ Brings({})
           \/ ActiveSubagents < MaxSubagents /\ \E id \in Ids : Brings({id})
  <1>0. Within(pending, pending)
    BY DEF Within
  <1>1. ASSUME NEW id \in Ids, NEW by, TaskDone(id, by)
        PROVE  Brings({})
    BY <1>0, <1>1, WithoutLess, NoneNew DEF TaskDone
  <1>2. CASE DrainTaskDone
    <2>1. Head(events) \in Events
      BY <1>2, HeadTailProperties DEF DrainTaskDone, TypeOK
    <2>2. Head(events).id \in Ids
      BY <2>1 DEF Events
    <2> QED
      BY <1>1, <1>2, <2>2 DEF DrainTaskDone
  <1>3. CASE DrainSchedule
    <2>1. Head(events) \in Events
      BY <1>3, HeadTailProperties DEF DrainSchedule, TypeOK
    <2>2. PICK id \in Ids : id = Head(events).id
      BY <2>1 DEF Events
    <2>3. PICK t \in Tasks : t = New(id) /\ t.id = id
      BY NewType DEF New
    <2>4. /\ pending' = Enqueued(pending, t, FALSE) /\ running' = running
          /\ ActiveSubagents < MaxSubagents
      BY <1>3, <2>2, <2>3 DEF DrainSchedule
    <2>5. Brings({id})
      BY <2>3, <2>4, InQueue DEF IsRunning
    <2> QED
      BY <2>4, <2>5
  <1>4. CASE DrainReject \/ DrainCancel \/ DrainEnd
    BY <1>0, <1>4, NoneNew DEF DrainReject, DrainCancel, CancelBegin, DrainEnd, IsRunning,
                               queueVars
  <1> QED
    BY <1>1, <1>2, <1>3, <1>4 DEF Drain, DrainNotice

LEMMA CancelBrings ==
    ASSUME TypeOK, PopInRange, CancelStep
    PROVE  Brings({})
  <1>0. Within(pending, pending)
    BY DEF Within
  <1>1. CASE CancelPending
    <2>1. cancel.at \in 1 .. Len(pending) /\ pending \in Seq(Tasks)
      <3>1. cancel.at \in Nat
        BY DEF TypeOK, Cancels, NoCancel
      <3> QED
        BY <1>1, <3>1, LenProperties DEF CancelPending, PopInRange, TypeOK
    <2>2. Within(pending', pending)
      BY <1>1, <2>1, RemovedMembers DEF CancelPending
    <2> QED
      BY <1>1, <2>2, NoneNew DEF CancelPending, IsRunning
  <1>2. ASSUME NEW w \in Workers, CancelRunning(w)
        PROVE  Brings({})
    <2>1. cancel.id \in Ids
      BY <1>2, CancelType DEF CancelRunning
    <2> QED
      BY <1>0, <1>2, <2>1, WithoutLess, NoneNew DEF CancelRunning
  <1>3. CASE CancelRespawn \/ CancelMiss
    BY <1>0, <1>3, NoneNew DEF CancelRespawn, CancelMiss, IsRunning, queueVars
  <1> QED
    BY <1>1, <1>2, <1>3 DEF CancelStep

LEMMA TimeoutsBring ==
    ASSUME OwnDrives, TypeOK, SlotInv, Timeouts
    PROVE  Brings({})
  <1>0. Within(pending, pending)
    BY DEF Within
  <1>1. ASSUME NEW id \in Ids, At(id)
        PROVE  IsRunning(id)
    BY <1>1 DEF At, In, SlotInv, TodoInv
  <1>2. ASSUME NEW id \in Ids, TimeoutFail(id)
        PROVE  Brings({})
    BY <1>0, <1>2, WithoutLess, NoneNew DEF TimeoutFail, TimeoutStop
  <1>3. ASSUME NEW id \in Ids, NEW retry \in Ids, TimeoutRetry(id, retry)
        PROVE  Brings({})
    <2>1. At(id) /\ todo[id].task \in Tasks /\ running' = Without(id)
          /\ (retry = id \/ retry \in RetryIds)
      BY <1>3, TodoType DEF TimeoutRetry, TimeoutStop
    <2>2. PICK t \in Tasks : t.id = retry /\ pending' = Enqueued(pending, t, TRUE)
      BY <1>3, <2>1, AgainType DEF TimeoutRetry, Again, Tasks
    <2>3. Brings({t.id})
      BY <2>1, <2>2, WithoutLess, InQueue
    <2> QED
      BY <1>1, <2>1, <2>2, <2>3 DEF Brings, Known, OwnDrives
  <1>4. ASSUME NEW id \in Ids, TimeoutGrace(id)
        PROVE  Brings({})
    <2>1. IsRunning(id) /\ pending' = pending
      BY <1>1, <1>4 DEF TimeoutGrace
    <2>2. \A x \in Ids \ {id} : running'[x] = running[x]
      BY <1>4 DEF TimeoutGrace, TypeOK
    <2> QED
      BY <1>0, <2>1, <2>2, NoneNew DEF IsRunning
  <1>5. CASE TimeoutsEnd \/ \E id \in Ids : TimeoutPass(id)
    BY <1>0, <1>5, NoneNew DEF TimeoutsEnd, TimeoutPass, IsRunning, queueVars
  <1> QED
    BY <1>2, <1>3, <1>4, <1>5 DEF Timeouts

LEMMA AssignBrings ==
    ASSUME TypeOK, OnceInv, AssignTasks
    PROVE  Brings({})
  <1>0. Within(pending, pending)
    BY DEF Within
  <1>1. ASSUME NEW w \in Workers, Assign(w)
        PROVE  Brings({})
    <2>1. pending \in Seq(Tasks) /\ pending # <<>> /\ pending' = Tail(pending)
      BY <1>1 DEF Assign, TypeOK
    <2>2. PICK t \in Tasks : t = Head(pending)
      BY <2>1, HeadTailProperties
    <2>3. Queued(t.id) /\ Within(pending', pending)
      BY <2>1, <2>2, TailMembers DEF Queued
    <2>4. \A x \in Ids : x # t.id => running'[x] = running[x]
      BY <1>1, <2>2 DEF Assign, TypeOK
    <2> QED
      BY <2>3, <2>4, TaskQueueAssumption DEF Brings, Known, Queued, Within, IsRunning
  <1>2. CASE DropEnd
    <2>1. Within(pending', pending) /\ running' = running
      BY <1>0, <1>2 DEF DropEnd, OnceInv, KeepInv, Within
    <2> QED
      BY <2>1, NoneNew DEF IsRunning
  <1>3. CASE AssignNothing \/ AssignBegin \/ DropStep \/ DropDone \/ AssignEnd
    BY <1>0, <1>3, NoneNew DEF AssignNothing, AssignBegin, DropStep, DropDone, AssignEnd,
                               IsRunning, queueVars
  <1> QED
    BY <1>1, <1>2, <1>3 DEF AssignTasks

LEMMA ProduceBrings ==
    ASSUME OwnDrives, TypeOK, OnceInv, Produce
    PROVE  Brings({})
  <1>1. PICK id \in Ids : CronDue(id) \/ OwnerQueues(id)
    BY DEF Produce
  <1>2. PICK t \in Tasks : t = New(id) /\ t.id = id
    BY NewType DEF New
  <1>3. Brings({t.id})
    BY <1>1, <1>2, InQueue DEF CronDue, OwnerQueues, IsRunning
  <1>4. id \notin Subagents
    BY <1>1 DEF CronDue, OwnerQueues, OnceInv, FreshInv, OwnersAreFresh, OwnDrives, NoHttp
  <1> QED
    BY <1>2, <1>3, <1>4 DEF Brings

(* _active_subagent_count misses none: the task of an entry is the entry's,  *)
(* and it counts as a subagent's under either of its ids.                    *)
LEMMA CountedAll ==
    ASSUME TypeOK, AgreeInv, IsFiniteSet(ActiveSet)
    PROVE  ActiveSubagents \in Nat /\ Cardinality(ActiveSet) <= ActiveSubagents
  <1> DEFINE Q == {id \in Subagents : Queued(id)}
             f == [i \in PendingSubagents |-> pending[i].id]
  <1>1. IsFiniteSet(PendingSubagents)
    <2>1. Len(pending) \in Nat /\ DOMAIN pending = 1 .. Len(pending)
      BY LenProperties DEF TypeOK
    <2>2. IsFiniteSet(1 .. Len(pending))
      BY <2>1, FS_Interval
    <2> QED
      BY <2>1, <2>2, FS_Subset DEF PendingSubagents
  <1>2. \A i \in DOMAIN pending : pending[i].id \in Subagents <=> i \in PendingSubagents
    BY DEF AgreeInv, AllAgree, Agrees, PendingSubagents
  <1>3. f \in Surjection(PendingSubagents, Q)
    <2>1. \A i \in PendingSubagents : f[i] \in Q
      BY <1>2 DEF PendingSubagents, Queued
    <2>2. \A id \in Q : \E i \in PendingSubagents : f[i] = id
      BY <1>2 DEF Queued
    <2> QED
      BY <2>1, <2>2 DEF Surjection
  <1>4. IsFiniteSet(Q) /\ Cardinality(Q) <= Cardinality(PendingSubagents)
    <2> HIDE DEF Q, f
    <2> QED
      BY <1>1, <1>3, FS_Surjection
  <1>5. ActiveSet = Q \cup RunningSubagents
    BY TaskQueueAssumption
    DEF ActiveSet, Known, RunningSubagents, AgreeInv, EntryAgrees, Agrees, IsRunning
  <1> HIDE DEF Q
  <1>6. IsFiniteSet(RunningSubagents)
    BY <1>5, FS_Subset
  <1>7. Cardinality(Q \cup RunningSubagents) <= Cardinality(Q) + Cardinality(RunningSubagents)
    <2>1. IsFiniteSet(Q \cap RunningSubagents)
      BY <1>4, FS_Subset
    <2>2. Cardinality(Q \cap RunningSubagents) \in Nat
      BY <2>1, FS_CardinalityType
    <2>3. Cardinality(Q) \in Nat /\ Cardinality(RunningSubagents) \in Nat
      BY <1>4, <1>6, FS_CardinalityType
    <2>4. Cardinality(Q \cup RunningSubagents) =
              Cardinality(Q) + Cardinality(RunningSubagents) - Cardinality(Q \cap RunningSubagents)
      BY <1>4, <1>6, FS_Union
    <2> QED
      BY <2>2, <2>3, <2>4
  <1>8. /\ Cardinality(Q) \in Nat /\ Cardinality(RunningSubagents) \in Nat
        /\ Cardinality(PendingSubagents) \in Nat
    BY <1>1, <1>4, <1>6, FS_CardinalityType
  <1>9. Cardinality(ActiveSet) \in Nat
    BY FS_CardinalityType
  <1> QED
    BY <1>4, <1>5, <1>7, <1>8, <1>9 DEF ActiveSubagents

LEMMA StepCapped ==
    ASSUME OwnDrives, WholeInv, CapInv, [Next]_vars
    PROVE  CapInv'
  <1>1. \/ Brings({})
        \/ ActiveSubagents < MaxSubagents /\ \E id \in Ids : Brings({id})
    <2>1. CASE BudgetExhausted \/ UNCHANGED vars \/ \E w \in Workers : Worker(w)
      <3>1. UNCHANGED <<pending, running>>
        BY <2>1, WorkerSteps DEF BudgetExhausted, vars, queueVars, WholeInv
      <3> QED
        BY <3>1, NoneNew DEF IsRunning, Within
    <2> QED
      BY <2>1, HealthBrings, DrainBrings, CancelBrings, TimeoutsBring, AssignBrings,
         ProduceBrings, NoHttpSteps
      DEF Next, MainLoop, WholeInv, LockInv, OwnDrives
  <1>2. MaxSubagents \in Nat
    BY TaskQueueAssumption
  <1>3. CASE Brings({})
    <2>1. ActiveSet' \subseteq ActiveSet
      BY <1>3 DEF Brings, ActiveSet
    <2> QED
      BY <1>2, <2>1, FS_Subset, FS_CardinalityType DEF CapInv
  <1>4. ASSUME NEW id \in Ids, Brings({id}), ActiveSubagents < MaxSubagents
        PROVE  CapInv'
    <2>1. ActiveSet' \subseteq ActiveSet \cup {id}
      BY <1>4 DEF Brings, ActiveSet
    <2>2. /\ IsFiniteSet(ActiveSet) /\ Cardinality(ActiveSet) <= ActiveSubagents
          /\ ActiveSubagents \in Nat
      BY CountedAll DEF CapInv, WholeInv
    <2>3. Cardinality(ActiveSet) \in Nat
      BY <2>2, FS_CardinalityType
    <2>4. IsFiniteSet(ActiveSet \cup {id})
          /\ Cardinality(ActiveSet \cup {id}) =
                IF id \in ActiveSet THEN Cardinality(ActiveSet) ELSE Cardinality(ActiveSet) + 1
      BY <2>2, FS_AddElement
    <2>5. IsFiniteSet(ActiveSet') /\ Cardinality(ActiveSet') <= Cardinality(ActiveSet \cup {id})
      BY <2>1, <2>4, FS_Subset
    <2>6. Cardinality(ActiveSet') \in Nat
      BY <2>5, FS_CardinalityType
    <2>7. Cardinality(ActiveSet') <= MaxSubagents
      BY <1>2, <1>4, <2>2, <2>3, <2>4, <2>5, <2>6
    <2> QED
      BY <2>5, <2>7 DEF CapInv
  <1> QED
    BY <1>1, <1>3, <1>4

(* Whatever is retried, refused, cancelled or scheduled late, no more of the *)
(* root's subagents are pending or running than the limit allows.            *)
THEOREM SubagentLimit ==
    ASSUME OwnDrives
    PROVE  Spec => []SubagentsCapped
  <1>1. Init => CapInv
    <2>1. Init => ActiveSet = {}
      BY EmptySeq, LenProperties, TaskQueueAssumption
      DEF Init, ActiveSet, Known, Queued, IsRunning
    <2>2. MaxSubagents \in Nat
      BY TaskQueueAssumption
    <2>3. IsFiniteSet({}) /\ Cardinality({}) <= MaxSubagents
      BY <2>2, FS_EmptySet
    <2> QED
      BY <2>1, <2>3 DEF CapInv
  <1>2. WholeInv /\ CapInv /\ [Next]_vars => CapInv'
    BY StepCapped
  <1>3. CapInv => SubagentsCapped
    BY DEF CapInv, ActiveSet, Known, SubagentsCapped
  <1>4. QED
    BY <1>1, <1>2, <1>3, WholeInvariant, PTL DEF Spec
-----------------------------------------------------------------------------
(* Without subagents: a live process has a task only while the slot is busy  *)
(* with it, so that a timeout kills nobody else's work.  What could break it *)
(* is a task_done that arrives when its worker has the same task again; no   *)
(* such event is left when the task is assigned, as a task that reported is  *)
(* over and the drop loop does not keep it.                                  *)
RootsOnly == NoHttp /\ Forked = {}

HeldInv == \A id \in Ids, w \in Workers : Holds(w, id) => slot[w] = id

(* A process has one task: it executes it or has it in its inbox.            *)
Single(p) ==
    p.state = "up" => Len(p.inbox) <= 1 /\ (p.does # Idle => p.inbox = <<>>)
SingleInv == \A w \in Workers : Single(proc[w])

Says(e, id, w) == e.kind = "task_done" /\ e.id = id /\ e.by = w
EventInv ==
    \A id \in Ids, w \in Workers :
        (\E i \in DOMAIN events : Says(events[i], id, w)) => ~Holds(w, id)

KeptInv ==
    /\ phase = "assign" => \A j \in DOMAIN pending : ~Reported(pending[j].id)
    /\ phase = "drop" =>
          /\ \A i \in DOMAIN sweep.keep : ~Reported(sweep.keep[i].id)
          /\ ~sweep.dropped =>
                \A j \in DOMAIN pending :
                    sweep.at = 0 \/ j < sweep.at => ~Reported(pending[j].id)

RootInv == HeldInv /\ SingleInv /\ EventInv /\ KeptInv

LEMMA RootsOwnDrives == RootsOnly => OwnDrives
  BY TaskQueueAssumption DEF RootsOnly, OwnDrives

LEMMA ReportedIsOver ==
    ASSUME RootsOnly, OverInv
    PROVE  \A id \in Ids : Reported(id) => Settled(id)
  BY DEF OverInv, Over, RootsOnly

(* Who has what in hand only loses it, except where a task is assigned.      *)
LEMMA HandsEmpty ==
    ASSUME TypeOK, SlotInv, OnePlace, ~Http, [Next]_vars, \A w \in Workers : ~Assign(w)
    PROVE  \A id \in Ids, w \in Workers : Holds(w, id)' => Holds(w, id)
  <1>1. ASSUME NEW w \in Workers, slot' = [slot EXCEPT ![w] = None], proc' = Respawned(w),
               pool' = pool
        PROVE  \A id \in Ids, v \in Workers : Holds(v, id)' => Holds(v, id)
    BY <1>1, FreedSlot
  <1>2. CASE Health
    <2>1. CASE CrashStorm
      BY <2>1 DEF CrashStorm, Holds, Up
    <2>2. CASE HealthEnd
      BY <2>2 DEF HealthEnd, Holds, Up, queueVars
    <2>3. ASSUME NEW w \in Workers, Reap(w)
          PROVE  \A id \in Ids, v \in Workers : Holds(v, id)' => Holds(v, id)
      BY <1>1, <2>3 DEF Reap
    <2> QED
      BY <1>2, <2>1, <2>2, <2>3 DEF Health, ReapUntracked, ReapFinished, ReapFailed, ReapRetry,
                                    ReapTask
  <1>3. CASE Drain
    BY <1>3 DEF Drain, DrainTaskDone, DrainNotice, TaskDone, DrainReject, DrainSchedule,
                DrainCancel, CancelBegin, DrainEnd, Holds, Up, queueVars
  <1>4. CASE CancelStep
    <2>1. ASSUME NEW w \in Workers, CancelRunning(w)
          PROVE  \A id \in Ids, v \in Workers : Holds(v, id)' => Holds(v, id)
      <3>1. pool' = pool /\ \A v \in Workers :
                proc'[v] = IF v = w THEN [Fresh EXCEPT !.state = "signalled"] ELSE proc[v]
        BY <2>1 DEF CancelRunning, TypeOK
      <3> QED
        BY <3>1, HoldsProcess, FreshHoldsNothing
    <2>2. CASE CancelRespawn
      <3>1. PICK w \in Workers : w = cancel.worker
        BY <2>2, CancelType DEF CancelRespawn
      <3> QED
        BY <1>1, <2>2, <3>1 DEF CancelRespawn
    <2> QED
      BY <1>4, <2>1, <2>2 DEF CancelStep, CancelPending, CancelMiss, Holds, Up, queueVars
  <1>5. CASE Timeouts
    <2>1. ASSUME NEW id \in Ids, TimeoutStop(id)
          PROVE  \A x \in Ids, v \in Workers : Holds(v, x)' => Holds(v, x)
      <3>1. PICK w \in Workers : w = todo[id].worker
        BY <2>1, TodoType DEF TimeoutStop
      <3> QED
        BY <1>1, <2>1, <3>1 DEF TimeoutStop
    <2> QED
      BY <1>5, <2>1 DEF Timeouts, TimeoutPass, TimeoutGrace, TimeoutFail, TimeoutRetry,
                        TimeoutsEnd, Holds, Up, queueVars
  <1>6. CASE AssignTasks \/ Produce \/ BudgetExhausted \/ UNCHANGED vars
    BY <1>6 DEF AssignTasks, AssignNothing, AssignBegin, DropStep, DropDone, DropEnd, AssignEnd,
                Produce, CronDue, OwnerQueues, BudgetExhausted, vars, Holds, Up, queueVars
  <1> QED
    BY <1>2, <1>3, <1>4, <1>5, <1>6, WorkerHolds DEF Next, MainLoop

(* An assignment puts the head of PENDING into one free worker's hands.      *)
LEMMA HandsFilled ==
    ASSUME TypeOK, NEW w \in Workers, Assign(w)
    PROVE  \E id \in Ids :
              /\ \E j \in DOMAIN pending : pending[j].id = id
              /\ slot'[w] = id /\ \A v \in Workers : v # w => slot'[v] = slot[v]
              /\ \A x \in Ids, v \in Workers : Holds(v, x)' => Holds(v, x) \/ (v = w /\ x = id)
  <1>1. pending \in Seq(Tasks) /\ pending # <<>> /\ pool' = pool
    BY DEF Assign, TypeOK
  <1>2. PICK t \in Tasks : t = Head(pending)
    BY <1>1, HeadTailProperties
  <1>3. PICK id \in Ids : id = t.id
    BY DEF Tasks
  <1>4. slot' = [slot EXCEPT ![w] = id] /\ proc' = [proc EXCEPT ![w].inbox = Append(@, t)]
    BY <1>2, <1>3 DEF Assign
  <1>5. proc[w] \in Processes /\ proc[w].inbox \in Seq(Tasks)
    BY ProcessType DEF TypeOK
  <1>6. /\ proc'[w].inbox = Append(proc[w].inbox, t) /\ proc'[w].does = proc[w].does
        /\ proc'[w].state = proc[w].state
        /\ \A v \in Workers : v # w => proc'[v] = proc[v]
    BY <1>4, <1>5 DEF TypeOK, Processes
  <1>7. \A i \in DOMAIN proc'[w].inbox :
            proc'[w].inbox[i] = t \/ \E j \in DOMAIN proc[w].inbox : proc'[w].inbox[i] = proc[w].inbox[j]
    BY <1>5, <1>6, AppendMembers
  <1>8. \A x \in Ids : HoldsIn(proc'[w], x) => HoldsIn(proc[w], x) \/ x = id
    BY <1>3, <1>6, <1>7 DEF HoldsIn
  <1>9. \E j \in DOMAIN pending : pending[j].id = id
    BY <1>1, <1>2, <1>3, TailMembers
  <1>10. slot'[w] = id /\ \A v \in Workers : v # w => slot'[v] = slot[v]
    BY <1>4 DEF TypeOK
  <1>11. \A x \in Ids, v \in Workers : Holds(v, x)' => Holds(v, x) \/ (v = w /\ x = id)
    BY <1>1, <1>6, <1>8, HoldsProcess
  <1> QED
    BY <1>9, <1>10, <1>11

LEMMA StepHeld ==
    ASSUME RootsOnly, TypeOK, SlotInv, OnePlace, Quiet, RootInv, [Next]_vars
    PROVE  HeldInv'
  <1>0. ~Http /\ HeldInv /\ EventInv /\ None \notin Ids \cup Workers
    BY NoHttpSteps, TaskQueueAssumption DEF RootsOnly, RootInv
  <1>1. SUFFICES ASSUME NEW x \in Ids, NEW v \in Workers, Holds(v, x)'
                 PROVE  slot'[v] = x
    BY DEF HeldInv
  <1>2. ASSUME NEW w \in Workers, Assign(w)
        PROVE  slot'[v] = x
    <2>1. slot[w] = None
      BY <1>2 DEF Assign
    <2>2. CASE Holds(v, x)
      <3>1. slot[v] = x /\ v # w
        BY <1>0, <2>1, <2>2 DEF HeldInv
      <3> QED
        BY <1>2, <3>1, HandsFilled
    <2>3. CASE ~Holds(v, x)
      BY <1>1, <1>2, <2>3, HandsFilled
    <2> QED
      BY <2>2, <2>3
  <1>3. CASE \A w \in Workers : ~Assign(w)
    <2>1. Holds(v, x) /\ slot[v] = x
      BY <1>0, <1>1, <1>3, HandsEmpty DEF HeldInv
    <2>2. ASSUME NEW w \in Workers, slot' = [slot EXCEPT ![w] = None], proc' = Respawned(w),
                 pool' = pool
          PROVE  slot'[v] = x
      BY <1>1, <2>1, <2>2, FreedSlot
    <2>3. CASE Health
      <3>1. pool'
        BY <1>1 DEF Holds, Up
      <3>2. ASSUME NEW w \in Workers, Reap(w)
            PROVE  slot'[v] = x
        BY <2>2, <3>2 DEF Reap
      <3> QED
        BY <2>1, <2>3, <3>1, <3>2 DEF Health, ReapUntracked, ReapFinished, ReapFailed, ReapRetry,
                                      ReapTask, HealthEnd, CrashStorm, queueVars
    <2>4. CASE DrainTaskDone
      <3>1. Head(events) = events[1] /\ 1 \in DOMAIN events /\ Head(events).kind = "task_done"
        BY <2>4, TailEntries DEF DrainTaskDone, TypeOK
      <3>2. Freed(v, Head(events).id, Head(events).by) => slot[v] = x /\ Says(events[1], x, v)
        BY <2>1, <3>1 DEF Freed, Says
      <3>3. slot'[v] = IF Freed(v, Head(events).id, Head(events).by) THEN None ELSE slot[v]
        BY <2>4 DEF DrainTaskDone, TaskDone
      <3> QED
        BY <1>0, <2>1, <3>1, <3>2, <3>3 DEF EventInv
    <2>5. ASSUME NEW id \in Ids, DrainNotice(id)
          PROVE  slot'[v] = x
      <3>1. slot'[v] = IF Freed(v, id, None) THEN None ELSE slot[v]
        BY <2>5 DEF DrainNotice, TaskDone
      <3> QED
        BY <1>0, <2>1, <3>1 DEF Freed
    <2>6. CASE DrainReject \/ DrainSchedule \/ DrainCancel \/ DrainEnd
      BY <2>1, <2>6 DEF DrainReject, DrainSchedule, DrainCancel, CancelBegin, DrainEnd, queueVars
    <2>7. CASE CancelStep
      <3>1. CASE CancelRespawn
        <4>1. PICK w \in Workers : w = cancel.worker
          BY <3>1, CancelType DEF CancelRespawn
        <4> QED
          BY <2>2, <3>1, <4>1 DEF CancelRespawn
      <3> QED
        BY <2>1, <2>7, <3>1 DEF CancelStep, CancelPending, CancelRunning, CancelMiss, queueVars
    <2>8. CASE Timeouts
      <3>1. ASSUME NEW id \in Ids, TimeoutStop(id)
            PROVE  slot'[v] = x
        <4>1. PICK w \in Workers : w = todo[id].worker
          BY <3>1, TodoType DEF TimeoutStop
        <4> QED
          BY <2>2, <3>1, <4>1 DEF TimeoutStop
      <3> QED
        BY <2>1, <2>8, <3>1 DEF Timeouts, TimeoutPass, TimeoutGrace, TimeoutFail, TimeoutRetry,
                                TimeoutsEnd, queueVars
    <2>9. CASE AssignTasks \/ Produce \/ BudgetExhausted \/ UNCHANGED vars
      BY <1>3, <2>1, <2>9 DEF AssignTasks, AssignNothing, AssignBegin, DropStep, DropDone,
                              DropEnd, AssignEnd, Produce, CronDue, OwnerQueues, BudgetExhausted,
                              vars, queueVars
    <2>10. ASSUME NEW w \in Workers, Worker(w)
           PROVE  slot'[v] = x
      BY <2>1, <2>10, WorkerSteps DEF queueVars
    <2> QED
      BY <1>0, <2>3, <2>4, <2>5, <2>6, <2>7, <2>8, <2>9, <2>10 DEF Next, MainLoop, Drain
  <1> QED
    BY <1>2, <1>3

LEMMA TailOfOne ==
    \A q \in Seq(Tasks) : q # <<>> /\ Len(q) <= 1 => Tail(q) = <<>> /\ Len(Tail(q)) = 0
  <1>1. SUFFICES ASSUME NEW q \in Seq(Tasks), q # <<>>, Len(q) <= 1
                 PROVE  Tail(q) = <<>> /\ Len(Tail(q)) = 0
    OBVIOUS
  <1>2. Len(q) \in Nat /\ Len(q) # 0
    BY <1>1, EmptySeq, LenProperties
  <1>3. Len(q) = 1
    <2>1. PICK n \in Nat : n = Len(q)
      BY <1>2
    <2>2. n # 0 /\ n <= 1
      BY <1>1, <1>2, <2>1
    <2>3. n = 1
      BY <2>2
    <2> QED
      BY <2>1, <2>3
  <1>4. Tail(q) \in Seq(Tasks) /\ Len(Tail(q)) = Len(q) - 1
    BY <1>1, HeadTailProperties
  <1>5. Len(Tail(q)) = 0
    BY <1>3, <1>4
  <1>6. Tail(q) = <<>>
    BY <1>4, <1>5, EmptySeq
  <1> QED
    BY <1>5, <1>6

(* A process that is replaced or killed has no task.                         *)
LEMMA FreshSingle ==
    Single(Fresh) /\ \A how \in {"exited", "signalled"} : Single([Fresh EXCEPT !.state = how])
  <1>1. Len(<<>>) = 0
    BY EmptySeq
  <1> QED
    BY <1>1 DEF Single, Fresh

LEMMA StepSingle ==
    ASSUME TypeOK, RootInv, ~Http, [Next]_vars
    PROVE  SingleInv'
  <1>0. SingleInv /\ HeldInv
    BY DEF RootInv
  <1>1. ASSUME NEW w \in Workers,
               \A v \in Workers : v # w => proc'[v] = proc[v],
               Single(proc'[w])
        PROVE  SingleInv'
    BY <1>0, <1>1 DEF SingleInv
  <1>2. ASSUME NEW w \in Workers, proc' = Respawned(w)
        PROVE  SingleInv'
    BY <1>1, <1>2, FreshSingle DEF Respawned, TypeOK
  <1>3. ASSUME NEW w \in Workers, Assign(w)
        PROVE  SingleInv'
    <2>1. pending \in Seq(Tasks) /\ pending # <<>> /\ slot[w] = None /\ pool
      BY <1>3 DEF Assign, TypeOK
    <2>2. PICK t \in Tasks : t = Head(pending)
      BY <2>1, HeadTailProperties
    <2>3. proc[w] \in Processes /\ proc[w].inbox \in Seq(Tasks)
      BY ProcessType DEF TypeOK
    <2>4. /\ proc'[w].inbox = Append(proc[w].inbox, t) /\ proc'[w].does = proc[w].does
          /\ proc'[w].state = proc[w].state
          /\ \A v \in Workers : v # w => proc'[v] = proc[v]
      <3>1. proc' = [proc EXCEPT ![w].inbox = Append(@, t)]
        BY <1>3, <2>2 DEF Assign
      <3> QED
        BY <2>3, <3>1 DEF TypeOK, Processes
    <2>5. CASE proc[w].state = "up"
      <3>1. \A id \in Ids : ~Holds(w, id)
        BY <1>0, <2>1, TaskQueueAssumption DEF HeldInv
      <3>2. proc[w].does = Idle
        BY <2>1, <2>5, <3>1, DoesType DEF Holds, Up
      <3>3. Len(proc[w].inbox) = 0
        <4>1. SUFFICES ASSUME Len(proc[w].inbox) # 0
                       PROVE  FALSE
          OBVIOUS
        <4>2. 1 \in DOMAIN proc[w].inbox
          BY <2>3, <4>1, LenProperties
        <4>3. proc[w].inbox[1] \in Tasks
          BY <2>3, <4>2, ElementOfSeq, LenProperties
        <4> QED
          BY <2>1, <2>5, <3>1, <4>2, <4>3 DEF Holds, Up, Tasks
      <3>4. Len(proc'[w].inbox) = 1
        BY <2>3, <2>4, <3>3, AppendProperties
      <3> QED
        BY <1>1, <2>4, <3>2, <3>4 DEF Single
    <2>6. CASE proc[w].state # "up"
      BY <1>1, <2>4, <2>6 DEF Single
    <2> QED
      BY <2>5, <2>6
  <1>4. ASSUME NEW w \in Workers, Worker(w)
        PROVE  SingleInv'
    <2>1. \A v \in Workers : v # w => proc'[v] = proc[v]
      BY <1>4, WorkerSteps
    <2>2. proc[w] \in Processes /\ proc[w].inbox \in Seq(Tasks) /\ Single(proc[w])
      BY <1>0, ProcessType DEF TypeOK, SingleInv
    <2>3. Single(proc'[w])
      <3>1. CASE proc'[w] = proc[w]
        BY <2>2, <3>1
      <3>2. CASE proc'[w] = [proc[w] EXCEPT !.does = Idle]
        <4>1. /\ proc'[w].inbox = proc[w].inbox /\ proc'[w].does = Idle
              /\ proc'[w].state = proc[w].state
          BY <2>2, <3>2 DEF Processes
        <4> QED
          BY <2>2, <4>1 DEF Single
      <3>3. CASE Working(w) /\ proc'[w] = [proc[w] EXCEPT !.does.kind = "stored"]
        <4>1. proc'[w].inbox = proc[w].inbox /\ proc'[w].state = proc[w].state
          BY <2>2, <3>3 DEF Processes
        <4> QED
          BY <2>2, <3>3, <4>1 DEF Single, Working
      <3>4. CASE \E how \in {"exited", "signalled"} : proc'[w] = [Fresh EXCEPT !.state = how]
        BY <3>4, FreshSingle
      <3>5. CASE /\ Up(w) /\ proc[w].does = Idle /\ proc[w].inbox # <<>>
                 /\ proc'[w] = [proc[w] EXCEPT !.inbox = Tail(@),
                                               !.does = [kind |-> "working",
                                                         task |-> Head(proc[w].inbox)]]
        <4>1. proc'[w].inbox = Tail(proc[w].inbox)
          BY <2>2, <3>5 DEF Processes
        <4>2. Len(proc[w].inbox) <= 1
          BY <2>2, <3>5 DEF Single, Up
        <4>3. proc[w].inbox \in Seq(Tasks) /\ proc[w].inbox # <<>>
          BY <2>2, <3>5
        <4>4. Tail(proc[w].inbox) = <<>> /\ Len(Tail(proc[w].inbox)) = 0
          BY <4>2, <4>3, TailOfOne
        <4>5. proc'[w].inbox = <<>> /\ Len(proc'[w].inbox) = 0
          BY <4>1, <4>4
        <4> QED
          BY <4>5 DEF Single
      <3> QED
        BY <1>4, <3>1, <3>2, <3>3, <3>4, <3>5, WorkerSteps
    <2> QED
      BY <1>1, <2>1, <2>3
  <1>5. CASE Health \/ Timeouts \/ CancelStep
    <2>1. ASSUME proc' = proc
          PROVE  SingleInv'
      BY <1>0, <2>1 DEF SingleInv
    <2>2. CASE CrashStorm
      BY <2>2, FreshSingle DEF CrashStorm, SingleInv
    <2>3. ASSUME NEW w \in Workers, CancelRunning(w)
          PROVE  SingleInv'
      BY <1>1, <2>3, FreshSingle DEF CancelRunning, TypeOK
    <2>4. ASSUME NEW id \in Ids, TimeoutStop(id)
          PROVE  SingleInv'
      BY <1>2, <2>4, TodoType DEF TimeoutStop
    <2>5. CASE CancelRespawn
      BY <1>2, <2>5, CancelType DEF CancelRespawn
    <2>6. ASSUME NEW w \in Workers, Reap(w)
          PROVE  SingleInv'
      BY <1>2, <2>6 DEF Reap
    <2> QED
      BY <1>5, <2>1, <2>2, <2>3, <2>4, <2>5, <2>6
      DEF Health, ReapUntracked, ReapFinished, ReapFailed, ReapRetry, ReapTask, HealthEnd,
          Timeouts, TimeoutPass, TimeoutGrace, TimeoutFail, TimeoutRetry, TimeoutsEnd,
          CancelStep, CancelPending, CancelMiss
  <1>6. CASE Drain \/ Produce \/ BudgetExhausted \/ UNCHANGED vars
    BY <1>0, <1>6 DEF Drain, DrainTaskDone, DrainNotice, TaskDone, DrainReject, DrainSchedule,
                      DrainCancel, CancelBegin, DrainEnd, Produce, CronDue, OwnerQueues,
                      BudgetExhausted, vars, SingleInv
  <1>7. CASE AssignTasks
    BY <1>0, <1>3, <1>7 DEF AssignTasks, AssignNothing, AssignBegin, DropStep, DropDone, DropEnd,
                            AssignEnd, SingleInv
  <1> QED
    BY <1>4, <1>5, <1>6, <1>7 DEF Next, MainLoop

(* A report in the event queue is a worker's who has let go of the task.     *)
LEMMA StepEvents ==
    ASSUME RootsOnly, TypeOK, SlotInv, OnePlace, Quiet, RootInv, [Next]_vars
    PROVE  EventInv'
  <1>0. ~Http /\ EventInv /\ SingleInv /\ KeptInv
    BY NoHttpSteps DEF RootsOnly, RootInv
  <1>1. SUFFICES ASSUME NEW x \in Ids, NEW v \in Workers,
                        NEW i \in DOMAIN events', Says(events'[i], x, v)
                 PROVE  ~Holds(v, x)'
    BY DEF EventInv
  <1>2. ASSUME NEW j \in DOMAIN events, events'[i] = events[j]
        PROVE  ~Holds(v, x)'
    <2>1. ~Holds(v, x) /\ Reported(x)
      BY <1>0, <1>1, <1>2 DEF EventInv, Says, Reported
    <2>2. CASE \A w \in Workers : ~Assign(w)
      BY <1>0, <2>1, <2>2, HandsEmpty
    <2>3. ASSUME NEW w \in Workers, Assign(w)
          PROVE  ~Holds(v, x)'
      <3>1. \A k \in DOMAIN pending : pending[k].id # x
        BY <1>0, <2>1, <2>3 DEF Assign, KeptInv
      <3> QED
        BY <2>1, <2>3, <3>1, HandsFilled
    <2> QED
      BY <2>2, <2>3
  <1>3. CASE \A j \in DOMAIN events : events'[i] # events[j]
    <2>0. events \in Seq(Events)
      BY DEF TypeOK
    <2>1. PICK w \in Workers, e \in Events :
              events' = Append(events, e) /\ (e.kind = "task_done" => Emitted(w, e))
      <3>1. events' # events
        BY <1>1, <1>3
      <3>2. ~(events # <<>> /\ events' = Tail(events))
        BY <1>1, <1>3, <2>0, TailMembers DEF Within
      <3> QED
        BY <3>1, <3>2, NewEvents
    <2>2. events'[i] = e
      BY <1>1, <1>3, <2>0, <2>1, AppendMembers
    <2>3. Emitted(w, e) /\ w = v
      BY <1>1, <2>1, <2>2 DEF Says, Emitted
    <2>4. proc[v] \in Processes /\ proc[v].inbox = <<>>
      BY <1>0, <2>3 DEF Emitted, Stored, Up, SingleInv, Single, TypeOK
    <2>5. proc'[v].does = Idle /\ proc'[v].inbox = <<>>
      BY <2>3, <2>4 DEF Emitted, TypeOK, Processes
    <2>6. DOMAIN proc'[v].inbox = {}
      BY <2>5, EmptySeq, LenProperties
    <2> QED
      BY <2>5, <2>6 DEF Holds
  <1> QED
    BY <1>2, <1>3

(* What the drop loop keeps, and what assign_tasks then hands out, nobody    *)
(* has reported as done.                                                     *)
LEMMA NewReports ==
    ASSUME TypeOK, [Next]_vars, NEW id \in Ids, Reported(id)', ~Reported(id)
    PROVE  \E w \in Workers : Holds(w, id)
  <1>0. events \in Seq(Events)
    BY DEF TypeOK
  <1>1. PICK i \in DOMAIN events' : events'[i].kind = "task_done" /\ events'[i].id = id
    BY DEF Reported
  <1>2. \A j \in DOMAIN events : events'[i] # events[j]
    BY <1>1 DEF Reported
  <1>3. PICK w \in Workers, e \in Events :
            events' = Append(events, e) /\ (e.kind = "task_done" => Emitted(w, e))
    <2>1. events' # events
      BY <1>1, <1>2
    <2>2. ~(events # <<>> /\ events' = Tail(events))
      BY <1>0, <1>1, <1>2, TailMembers DEF Within
    <2> QED
      BY <2>1, <2>2, NewEvents
  <1>4. events'[i] = e
    BY <1>0, <1>1, <1>2, <1>3, AppendMembers
  <1>5. Emitted(w, e) /\ e.id = id
    BY <1>1, <1>3, <1>4
  <1> QED
    BY <1>5 DEF Emitted, Stored, Holds

LEMMA AssignBegins ==
    ASSUME [Next]_vars, phase # "assign", phase' = "assign"
    PROVE  DropEnd
  <1>1. ~(Health \/ Drain \/ CancelStep)
    BY DEF Health, ReapUntracked, ReapFinished, ReapFailed, ReapRetry, ReapTask, Reap,
           HealthEnd, CrashStorm, Drain, DrainTaskDone, DrainNotice, TaskDone, DrainReject,
           DrainSchedule, DrainCancel, CancelBegin, DrainEnd, CancelStep, CancelPending,
           CancelRunning, CancelRespawn, CancelMiss, loopVars
  <1>2. ~(Timeouts \/ Produce \/ Http \/ BudgetExhausted \/ UNCHANGED vars)
    BY DEF Timeouts, TimeoutPass, TimeoutGrace, TimeoutFail, TimeoutRetry, TimeoutStop,
           TimeoutsEnd, Produce, CronDue, OwnerQueues, Http, HttpCreate, HttpCancel, CancelBegin,
           HttpEnqueue, BudgetExhausted, vars, loopVars
  <1>3. \A w \in Workers : ~Worker(w)
    BY DEF Worker, Take, Store, Emit, Break, Die, ScheduleSubagent, RequestCancel, WorkerOnly,
           loopVars
  <1>4. AssignTasks => DropEnd
    BY DEF AssignTasks, AssignNothing, AssignBegin, DropStep, DropDone, Assign, AssignEnd, loopVars
  <1> QED
    BY <1>1, <1>2, <1>3, <1>4 DEF Next, MainLoop

LEMMA StepKept ==
    ASSUME RootsOnly, TypeOK, LockInv, Quiet, OnceInv, OverInv, RootInv, [Next]_vars
    PROVE  KeptInv'
  <1>0. KeptInv /\ ~Http /\ QueuedIsFree /\ KeepInv
    BY NoHttpSteps DEF RootsOnly, RootInv, OnceInv, OnePlace
  <1>1. \A j \in DOMAIN pending : pending[j] \in Tasks /\ pending[j].id \in Ids /\ j \in Nat
    <2>1. \A j \in DOMAIN pending : pending[j] \in Tasks /\ j \in Nat
      BY ElementOfSeq, LenProperties DEF TypeOK
    <2> QED
      BY <2>1 DEF Tasks
  <1>2. \A id \in Ids : Queued(id) /\ ~Reported(id) => ~Reported(id)'
    BY <1>0, NewReports DEF QueuedIsFree
  <1>3. \A j \in DOMAIN pending : ~Reported(pending[j].id) => \A x : x = pending[j].id => ~Reported(x)'
    BY <1>1, <1>2 DEF Queued
  <1>4. ASSUME phase' = "assign"
        PROVE  KeptInv'
    <2>1. SUFFICES ASSUME NEW i \in DOMAIN pending', NEW x, x = pending'[i].id
                   PROVE  ~Reported(x)'
      BY <1>4 DEF KeptInv, Reported
    <2>2. CASE phase = "assign"
      <3>1. Within(pending', pending)
        <4>1. ASSUME NEW w \in Workers, Assign(w)
              PROVE  Within(pending', pending)
          BY <4>1, TailMembers DEF Assign, TypeOK
        <4>2. pending' = pending => Within(pending', pending)
          BY DEF Within
        <4> QED
          BY <1>0, <2>2, <4>1, <4>2, DropAlone, WorkerSteps
          DEF AssignTasks, AssignNothing, AssignBegin, DropStep, DropDone, DropEnd, AssignEnd,
              In, BudgetExhausted, vars, queueVars
      <3>2. PICK j \in DOMAIN pending : pending'[i] = pending[j]
        BY <3>1 DEF Within
      <3> QED
        BY <1>0, <1>3, <2>1, <2>2, <3>2 DEF KeptInv
    <2>3. CASE phase # "assign"
      <3>1. /\ phase = "drop" /\ sweep.at = 0 /\ events' = events
            /\ pending' = IF sweep.dropped THEN sweep.keep ELSE pending
        BY <1>4, <2>3, AssignBegins DEF DropEnd, eventVars
      <3>2. ~Reported(x)
        BY <1>0, <2>1, <3>1 DEF KeptInv
      <3> QED
        BY <3>1, <3>2 DEF Reported
    <2> QED
      BY <2>2, <2>3
  <1>5. ASSUME phase' = "drop"
        PROVE  KeptInv'
    <2>1. CASE phase # "drop"
      <3>1. sweep' = [at |-> 1, keep |-> <<>>, dropped |-> FALSE] /\ pending' = pending
        BY <1>5, <2>1, DropBegins DEF AssignBegin, queueVars
      <3>2. sweep'.at = 1 /\ sweep'.keep = <<>>
        BY <3>1
      <3>3. (\A j \in DOMAIN pending : ~(j < 1)) /\ DOMAIN <<>> = {}
        BY EmptySeq, LenProperties DEF TypeOK
      <3> QED
        BY <1>5, <3>1, <3>2, <3>3 DEF KeptInv
    <2>2. CASE phase = "drop"
      <3>0. /\ sweep \in [at : Nat, keep : Seq(Tasks), dropped : BOOLEAN]
            /\ pending \in Seq(Tasks) /\ sweep.keep \in Seq(Tasks)
        BY DEF TypeOK
      <3>1. /\ \A i \in DOMAIN sweep.keep : \A x : x = sweep.keep[i].id => ~Reported(x)'
            /\ ~sweep.dropped =>
                  \A j \in DOMAIN pending :
                      sweep.at = 0 \/ j < sweep.at =>
                          \A x : x = pending[j].id => ~Reported(x)'
        BY <1>0, <1>3, <2>2 DEF KeptInv, KeepInv
      <3>2. CASE UNCHANGED <<pending, sweep>>
        BY <1>5, <3>1, <3>2 DEF KeptInv, Reported
      <3>3. CASE DropStep
        <4>1. PICK t \in Tasks : sweep.at \in DOMAIN pending /\ t = pending[sweep.at]
          BY <1>1, <3>3 DEF DropStep
        <4>2. pending' = pending /\ sweep.at # 0 /\ sweep.at \in Nat
          BY <3>0, <3>3, <4>1, LenProperties DEF DropStep, queueVars
        <4>3. CASE Droppable(result[t.id])
          <5>1. sweep'.keep = sweep.keep /\ sweep'.dropped = TRUE
            BY <3>0, <3>3, <4>1, <4>3 DEF DropStep
          <5> QED
            BY <1>5, <3>1, <5>1 DEF KeptInv, Reported
        <4>4. CASE ~Droppable(result[t.id])
          <5>1. /\ sweep'.at = sweep.at + 1 /\ sweep'.keep = Append(sweep.keep, t)
                /\ sweep'.dropped = sweep.dropped
            BY <3>0, <3>3, <4>1, <4>4 DEF DropStep
          <5>2. \A x : x = t.id => ~Reported(x)'
            <6>1. ~Reported(t.id)
              BY <1>1, <4>1, <4>4, ReportedIsOver DEF Droppable, Settled, Latched
            <6> QED
              BY <1>3, <4>1, <6>1
          <5>3. \A i \in DOMAIN sweep'.keep :
                    sweep'.keep[i] = t \/ \E k \in DOMAIN sweep.keep : sweep'.keep[i] = sweep.keep[k]
            BY <3>0, <5>1, AppendMembers
          <5>4. \A i \in DOMAIN sweep'.keep : \A x : x = sweep'.keep[i].id => ~Reported(x)'
            BY <3>1, <5>2, <5>3
          <5>5. ASSUME ~sweep'.dropped, NEW j \in DOMAIN pending, j < sweep.at + 1
                PROVE  \A x : x = pending[j].id => ~Reported(x)'
            <6>1. j = sweep.at \/ j < sweep.at
              BY <1>1, <4>2, <5>5
            <6> QED
              BY <3>1, <4>1, <5>1, <5>2, <5>5, <6>1
          <5>6. sweep'.at # 0
            BY <4>2, <5>1
          <5> QED
            BY <1>5, <4>2, <5>1, <5>4, <5>5, <5>6 DEF KeptInv, Reported
        <4> QED
          BY <4>3, <4>4
      <3>4. CASE DropDone
        <4>1. /\ pending' = pending /\ sweep'.keep = sweep.keep /\ sweep'.at = 0
              /\ sweep'.dropped = sweep.dropped /\ sweep.at > Len(pending)
          BY <3>0, <3>4 DEF DropDone, queueVars
        <4>2. \A j \in DOMAIN pending : j < sweep.at
          BY <3>0, <4>1, LenProperties
        <4> QED
          BY <1>5, <3>1, <4>1, <4>2 DEF KeptInv, Reported
      <3>5. AssignTasks => UNCHANGED <<pending, sweep>> \/ DropStep \/ DropDone
        BY <1>5, <2>2 DEF AssignTasks, AssignNothing, AssignBegin, DropEnd, Assign, AssignEnd,
                          queueVars, In
      <3> QED
        BY <1>0, <2>2, <3>2, <3>3, <3>4, <3>5, DropAlone, WorkerSteps
        DEF BudgetExhausted, vars, queueVars, loopVars
    <2> QED
      BY <2>1, <2>2
  <1> QED
    BY <1>4, <1>5 DEF KeptInv

LEMMA InitRoots == Init => RootInv
  <1> SUFFICES ASSUME Init
               PROVE  RootInv
    OBVIOUS
  <1>1. \A w \in Workers : proc[w] = Fresh
    BY DEF Init
  <1>2. \A id \in Ids, w \in Workers : ~Holds(w, id)
    BY <1>1, HoldsProcess, FreshHoldsNothing
  <1>3. HeldInv /\ EventInv
    BY <1>2 DEF HeldInv, EventInv
  <1>4. SingleInv
    BY <1>1, FreshSingle DEF SingleInv
  <1>5. KeptInv
    BY DEF Init, KeptInv
  <1> QED
    BY <1>3, <1>4, <1>5 DEF RootInv

LEMMA RootInvariant ==
    ASSUME RootsOnly
    PROVE  Spec => []WholeInv /\ []RootInv
  <1>1. Spec => []WholeInv
    BY RootsOwnDrives, WholeInvariant
  <1>2. WholeInv /\ RootInv /\ [Next]_vars => RootInv'
    <2> SUFFICES ASSUME WholeInv, RootInv, [Next]_vars
                 PROVE  RootInv'
      OBVIOUS
    <2>1. TypeOK /\ LockInv /\ SlotInv /\ Quiet /\ OnceInv /\ OverInv /\ OnePlace /\ ~Http
      BY NoHttpSteps DEF WholeInv, OnceInv, RootsOnly
    <2> QED
      BY <2>1, StepHeld, StepSingle, StepEvents, StepKept DEF RootInv
  <1>3. QED
    BY <1>1, <1>2, InitRoots, PTL DEF Spec

(* A timeout kills the process of the task that timed out and no other's:    *)
(* the entry names a slot that is busy with the task, and the process in the *)
(* slot has nothing but that.  (With subagents a late report could free the  *)
(* slot of a task that came back to it under its old id.)                    *)
THEOREM TimeoutsHitTheirOwn ==
    ASSUME RootsOnly
    PROVE  Spec => TimeoutsKillTheirOwn
  <1>1. WholeInv /\ RootInv /\ [Next]_vars =>
            [\A id \in Ids, w \in Workers :
                /\ phase = "timeouts" /\ todo' # todo
                /\ Holds(w, id) /\ proc'[w] = Fresh
                => todo[id] # NotRunning /\ todo'[id] = NotRunning]_vars
    <2> SUFFICES ASSUME WholeInv, RootInv, [Next]_vars,
                        NEW id \in Ids, NEW w \in Workers,
                        phase = "timeouts", todo' # todo,
                        Holds(w, id), proc'[w] = Fresh
                 PROVE  todo[id] # NotRunning /\ todo'[id] = NotRunning
      OBVIOUS
    <2>1. TypeOK /\ SlotInv /\ HeldInv /\ ~Http
      BY NoHttpSteps DEF WholeInv, RootInv, RootsOnly
    <2>2. \E x \in Ids : TimeoutPass(x) \/ TimeoutGrace(x) \/ TimeoutStop(x)
      <3>1. ~(Health \/ Drain \/ AssignTasks \/ Produce \/ CancelStep \/ BudgetExhausted)
        BY DEF Health, ReapUntracked, ReapFinished, ReapFailed, ReapRetry, ReapTask, Reap, In,
               HealthEnd, CrashStorm, Drain, DrainTaskDone, DrainNotice, TaskDone, DrainReject,
               DrainSchedule, DrainCancel, DrainEnd, AssignTasks, AssignNothing, AssignBegin,
               DropStep, DropDone, DropEnd, Assign, AssignEnd, Produce, CronDue, OwnerQueues,
               CancelStep, CancelPending, CancelRunning, CancelRespawn, CancelMiss,
               BudgetExhausted, loopVars
      <3>2. ~UNCHANGED vars /\ \A v \in Workers : ~Worker(v)
        BY <2>1, WorkerSteps DEF vars, loopVars
      <3>3. Timeouts
        BY <2>1, <3>1, <3>2 DEF Next, MainLoop
      <3> QED
        BY <3>3 DEF Timeouts, TimeoutFail, TimeoutRetry, TimeoutsEnd
    <2>3. PICK x \in Ids : TimeoutPass(x) \/ TimeoutGrace(x) \/ TimeoutStop(x)
      BY <2>2
    <2>4. ~HoldsIn(proc'[w], id) /\ HoldsIn(proc[w], id)
      BY HoldsProcess, FreshHoldsNothing
    <2>5. TimeoutStop(x)
      BY <2>3, <2>4 DEF TimeoutPass, TimeoutGrace
    <2>6. At(x) /\ todo[x] # NotRunning /\ todo'[x] = NotRunning
      BY <2>1, <2>5 DEF TimeoutStop, At, TypeOK
    <2>7. PICK v \in Workers : v = todo[x].worker
      BY <2>1, <2>6, TodoType
    <2>8. \A u \in Workers : u # v => proc'[u] = proc[u]
      BY <2>1, <2>5, <2>7 DEF TimeoutStop, Respawned, TypeOK
    <2>9. w = v
      BY <2>4, <2>8
    <2>10. IsRunning(x) /\ running[x].worker = v
      BY <2>1, <2>6, <2>7 DEF SlotInv, TodoInv, At, In
    <2>11. slot[v] = x
      BY <2>1, <2>10 DEF SlotInv, RunningIsBusy
    <2>12. slot[w] = id
      BY <2>1 DEF HeldInv
    <2> QED
      BY <2>6, <2>9, <2>11, <2>12
  <1>2. QED
    BY <1>1, RootInvariant, PTL DEF Spec, TimeoutsKillTheirOwn

(* After a worker crash a task that already reached a terminal state is not  *)
(* requeued: what ensure_workers_healthy reads of the durable result is all  *)
(* there is of a task without a child drive.                                 *)
THEOREM OnlyUnfinishedRequeued ==
    ASSUME RootsOnly
    PROVE  Spec => FinishedNotRequeued
  <1>1. WholeInv /\ [Next]_vars =>
            [\A id \in Ids :
                /\ phase = "health" /\ IsRunning(id) /\ Queued(id)' /\ ~Queued(id)
                => {result[id], child[id]} \cap TrulyTerminal = {}]_vars
    <2> SUFFICES ASSUME WholeInv, [Next]_vars, NEW id \in Ids,
                        phase = "health", IsRunning(id), Queued(id)', ~Queued(id)
                 PROVE  result[id] \notin TrulyTerminal /\ child[id] \notin TrulyTerminal
      OBVIOUS
    <2>0. /\ TypeOK /\ SlotInv /\ OverInv /\ FreshInv /\ ~Http /\ Forked = {}
          /\ pending \in Seq(Tasks)
      BY NoHttpSteps DEF WholeInv, OnceInv, RootsOnly, TypeOK
    <2>1. child[id] \notin TrulyTerminal
      BY <2>0 DEF OverInv, ChildInv, NoResult, TrulyTerminal
    <2>2. ~Within(pending', pending)
      BY DEF Within, Queued
    <2>3. pending' # pending
      BY <2>2 DEF Within
    <2>4. (\E w \in Workers : ReapRetry(w)) \/ \E x \in Ids : OwnerQueues(x)
      <3>1. ~(Drain \/ Timeouts \/ AssignTasks \/ CancelStep \/ BudgetExhausted)
        <4>1. cancel = NoCancel
          BY <2>0 DEF SlotInv, CancelInv
        <4>2. ~CancelStep
          BY <4>1 DEF CancelStep, CancelPending, CancelRunning, CancelRespawn, CancelMiss, NoCancel
        <4> QED
          BY <2>3, <4>2
          DEF Drain, DrainTaskDone, DrainNotice, TaskDone, In, DrainReject, DrainSchedule,
              DrainCancel, DrainEnd, Timeouts, TimeoutPass, TimeoutGrace, TimeoutFail,
              TimeoutRetry, TimeoutStop, TimeoutsEnd, At, AssignTasks, AssignNothing,
              AssignBegin, DropStep, DropDone, DropEnd, Assign, AssignEnd, BudgetExhausted,
              queueVars
      <3>2. ~UNCHANGED vars /\ \A w \in Workers : ~Worker(w)
        BY <2>0, <2>3, WorkerSteps DEF vars, queueVars
      <3>3. Produce => \E x \in Ids : OwnerQueues(x)
        BY DEF Produce, CronDue, In
      <3>4. ~CrashStorm
        <4>1. DOMAIN <<>> = {}
          BY EmptySeq, LenProperties
        <4> QED
          BY <2>2, <4>1 DEF CrashStorm, Within
      <3>5. Health => \E w \in Workers : ReapRetry(w)
        BY <2>3, <3>4 DEF Health, ReapUntracked, ReapFinished, ReapFailed, HealthEnd, queueVars
      <3> QED
        BY <2>0, <3>1, <3>2, <3>3, <3>5 DEF Next, MainLoop
    <2>5. ASSUME NEW t \in Tasks, NEW front \in BOOLEAN, pending' = Enqueued(pending, t, front)
          PROVE  id = t.id
      <3>1. PICK i \in DOMAIN pending' : pending'[i].id = id
        BY DEF Queued
      <3>2. pending'[i] = t \/ \E j \in DOMAIN pending : pending'[i] = pending[j]
        BY <2>0, <2>5, <3>1, EnqueuedMembers
      <3> QED
        BY <3>1, <3>2 DEF Queued
    <2>6. ASSUME NEW x \in Ids, OwnerQueues(x)
          PROVE  FALSE
      <3>1. PICK t \in Tasks : t = New(x) /\ t.id = x
        BY NewType DEF New
      <3>2. id = x
        BY <2>5, <2>6, <3>1 DEF OwnerQueues
      <3>3. running[id].worker \in Workers /\ slot[running[id].worker] = id
        BY <2>0 DEF SlotInv, RunningIsBusy, IsRunning, TypeOK, Entries
      <3>4. Nowhere(x)
        BY <2>0, <2>6 DEF OwnerQueues, FreshInv, OwnersAreFresh
      <3> QED
        BY <3>2, <3>3, <3>4 DEF Nowhere
    <2>7. ASSUME NEW w \in Workers, ReapRetry(w)
          PROVE  result[id] \notin TrulyTerminal
      <3>1. Tracked(w) /\ ~Finished(slot[w])
        BY <2>7 DEF ReapRetry, ReapTask
      <3>2. PICK x \in Ids : x = slot[w] /\ IsRunning(x)
        BY <2>0, <3>1 DEF Tracked, TypeOK
      <3>3. running[x].task \in Tasks
        BY <2>0, <3>2 DEF IsRunning, TypeOK, Entries
      <3>4. PICK t \in Tasks : t = Again(running[x].task, x) /\ t.id = x
        BY <3>3, AgainType DEF Again, Tasks
      <3>5. id = x
        BY <2>5, <2>7, <3>2, <3>4 DEF ReapRetry
      <3> QED
        BY <3>1, <3>2, <3>5 DEF Finished
    <2> QED
      BY <2>1, <2>4, <2>6, <2>7
  <1>2. QED
    BY <1>1, RootInvariant, PTL DEF Spec, FinishedNotRequeued
=============================================================================
