------------------------ MODULE TaskQueueAttempts_proofs ------------------------
(* QUEUE_MAX_RETRIES bounds how often a task is started, whatever ids its    *)
(* retries go under, in the deployments of TaskQueueOnce_proofs.  A retry    *)
(* keeps the origin of its task: the proof follows origins, of which at most *)
(* one attempt is pending or in RUNNING at a time.                           *)
(* If moreover nobody cancels posted tasks, no terminal task is started and  *)
(* no cancelled one is retried: the last part follows what has ended.        *)
EXTENDS TaskQueueOnce_proofs

Origins(q) == \A i, j \in DOMAIN q : q[i].origin = q[j].origin => i = j

(* One attempt of a task is pending or running.                              *)
OneRunning ==
    \A a, b \in Ids :
        IsRunning(a) /\ IsRunning(b) /\ running[a].task.origin = running[b].task.origin
            => a = b
PendingOrRunning ==
    \A i \in DOMAIN pending, a \in Ids :
        IsRunning(a) => pending[i].origin # running[a].task.origin

(* An attempt counts the starts before it, and its own once it runs.         *)
PendingCounts ==
    \A i \in DOMAIN pending :
        /\ starts[pending[i].origin] < pending[i].attempt
        /\ pending[i].attempt <= MaxRetries + 1
RunningCounts ==
    \A a \in Ids : IsRunning(a) =>
        /\ starts[running[a].task.origin] <= running[a].task.attempt
        /\ running[a].task.attempt <= MaxRetries + 1

Attempts ==
    /\ Origins(pending) /\ OneRunning /\ PendingOrRunning
    /\ PendingCounts /\ RunningCounts /\ StartsBounded

(* No attempt of the task was ever made.                                     *)
Unstarted(id) ==
    /\ starts[id] = 0
    /\ \A i \in DOMAIN pending : pending[i].origin # id
    /\ \A a \in Ids : IsRunning(a) => running[a].task.origin # id

(* It has not been for those that may be queued for the first time.          *)
NoResultUnstarted == \A id \in Ids \ OwnerIds : result[id] = NoResult => Unstarted(id)
OwnersUnstarted == \A id \in bounds.owner : Unstarted(id)
RequestedUnstarted == \A id \in Ids : Requested(id) => Unstarted(id)
PostedUnstarted == http # None => Unstarted(http)
UnstartedInv ==
    NoResultUnstarted /\ OwnersUnstarted /\ RequestedUnstarted /\ PostedUnstarted

(* The copies of RUNNING and of PENDING agree with their originals.          *)
TodoTasks ==
    phase = "timeouts" =>
        \A id \in Ids : todo[id] # NotRunning => running[id].task = todo[id].task
KeepOrigins == phase = "drop" => Origins(sweep.keep)
CopiesInv == TodoTasks /\ KeepOrigins

StartsInv == Attempts /\ UnstartedInv /\ CopiesInv
-----------------------------------------------------------------------------
(* Insertion, removal and the tail keep origins apart.                       *)
LEMMA EnqueuedOrigins ==
    ASSUME NEW q \in Seq(Tasks), NEW t \in Tasks, NEW front \in BOOLEAN,
           Origins(q), \A i \in DOMAIN q : q[i].origin # t.origin
    PROVE  LET r == Enqueued(q, t, front)
           IN  /\ Origins(r)
               /\ \A i \in DOMAIN r : r[i] = t \/ \E j \in DOMAIN q : r[i] = q[j]
  <1> DEFINE r == Enqueued(q, t, front)
             n == Len(q) + 1
  <1>1. PICK p \in 1 .. n : \A k \in 1 .. n :
            r[k] = IF k < p THEN q[k] ELSE IF k = p THEN t ELSE q[k - 1]
    BY EnqueuedEntries
  <1>2. r \in Seq(Tasks) /\ Len(r) = n
    BY EnqueuedEntries
  <1> HIDE DEF r
  <1>3. DOMAIN q = 1 .. Len(q) /\ DOMAIN r = 1 .. n /\ Len(q) \in Nat
    BY <1>2, LenProperties
  <1> DEFINE old(k) == IF k < p THEN k ELSE k - 1
  <1>4. \A k \in 1 .. n : k # p => old(k) \in DOMAIN q /\ r[k] = q[old(k)]
    BY <1>1, <1>3
  <1>5. \A j, k \in 1 .. n : j # p /\ k # p /\ old(j) = old(k) => j = k
    BY <1>3
  <1>6. r[p] = t
    BY <1>1
  <1> HIDE DEF old
  <1>7. Origins(r)
    <2>1. SUFFICES ASSUME NEW j \in 1 .. n, NEW k \in 1 .. n, r[j].origin = r[k].origin
                   PROVE  j = k
      BY <1>3 DEF Origins
    <2>2. CASE j # p /\ k # p
      BY <1>4, <1>5, <2>1, <2>2 DEF Origins
    <2>3. CASE j = p \/ k = p
      BY <1>4, <1>6, <2>1, <2>3
    <2> QED
      BY <2>2, <2>3
  <1> QED
    BY <1>3, <1>4, <1>6, <1>7 DEF r

LEMMA RemovedOrigins ==
    ASSUME NEW q \in Seq(Tasks), NEW i \in 1 .. Len(q), Origins(q)
    PROVE  LET r == RemoveAt(q, i)
           IN  /\ Origins(r)
               /\ \A k \in DOMAIN r : \E j \in DOMAIN q : r[k] = q[j]
  <1> DEFINE r == RemoveAt(q, i)
             n == Len(q) - 1
             old(k) == IF k < i THEN k ELSE k + 1
  <1>1. \A k \in 1 .. n : r[k] = q[old(k)]
    BY RemovedEntries
  <1>2. r \in Seq(Tasks) /\ Len(r) = n
    BY RemoveAtType
  <1> HIDE DEF r
  <1>3. DOMAIN q = 1 .. Len(q) /\ DOMAIN r = 1 .. n /\ Len(q) \in Nat
    BY <1>2, LenProperties
  <1>4. /\ \A k \in 1 .. n : old(k) \in DOMAIN q
        /\ \A j, k \in 1 .. n : old(j) = old(k) => j = k
    BY <1>3
  <1> HIDE DEF old
  <1>5. Origins(r)
    <2>1. SUFFICES ASSUME NEW j \in 1 .. n, NEW k \in 1 .. n, r[j].origin = r[k].origin
                   PROVE  j = k
      BY <1>3 DEF Origins
    <2>2. old(j) \in DOMAIN q /\ old(k) \in DOMAIN q /\ q[old(j)].origin = q[old(k)].origin
      BY <1>1, <1>4, <2>1
    <2>3. old(j) = old(k)
      BY <2>2 DEF Origins
    <2> QED
      BY <1>4, <2>3
  <1>6. \A k \in DOMAIN r : \E j \in DOMAIN q : r[k] = q[j]
    BY <1>1, <1>3, <1>4
  <1> QED
    BY <1>5, <1>6 DEF r

LEMMA TailOrigins ==
    ASSUME NEW q \in Seq(Tasks), q # <<>>, Origins(q)
    PROVE  /\ Origins(Tail(q))
           /\ \A i \in DOMAIN Tail(q) :
                 /\ Tail(q)[i].origin # Head(q).origin
                 /\ \E j \in DOMAIN q : Tail(q)[i] = q[j]
           /\ \E j \in DOMAIN q : Head(q) = q[j]
  <1>1. /\ Head(q) = q[1] /\ 1 \in DOMAIN q
        /\ \A i \in DOMAIN Tail(q) :
              /\ Tail(q)[i] = q[i + 1]
              /\ i + 1 \in DOMAIN q /\ i + 1 # 1 /\ i \in Int
    BY TailEntries
  <1>2. Origins(Tail(q))
    <2>1. SUFFICES ASSUME NEW i \in DOMAIN Tail(q), NEW j \in DOMAIN Tail(q),
                          Tail(q)[i].origin = Tail(q)[j].origin
                   PROVE  i = j
      BY DEF Origins
    <2>2. i + 1 = j + 1
      BY <1>1, <2>1 DEF Origins
    <2> QED
      BY <1>1, <2>2
  <1>3. \A i \in DOMAIN Tail(q) : Tail(q)[i].origin # Head(q).origin
    BY <1>1 DEF Origins
  <1>4. \A i \in DOMAIN Tail(q) : \E j \in DOMAIN q : Tail(q)[i] = q[j]
    BY <1>1
  <1> QED
    BY <1>1, <1>2, <1>3, <1>4
-----------------------------------------------------------------------------
(* Attempts end or stay; none is added.                                      *)
Fewer ==
    /\ Origins(pending')
    /\ \A i \in DOMAIN pending' : \E j \in DOMAIN pending : pending'[i] = pending[j]
    /\ \A a \in Ids : IsRunning(a)' => IsRunning(a) /\ running'[a].task = running[a].task
    /\ starts' = starts

LEMMA FewerAttempts ==
    ASSUME Attempts, Fewer
    PROVE  Attempts' /\ \A id \in Ids : Unstarted(id) => Unstarted(id)'
  <1>1. OneRunning'
    BY DEF Attempts, Fewer, OneRunning
  <1>2. PendingOrRunning'
    BY DEF Attempts, Fewer, PendingOrRunning
  <1>3. PendingCounts'
    BY DEF Attempts, Fewer, PendingCounts
  <1>4. RunningCounts'
    BY DEF Attempts, Fewer, RunningCounts
  <1>5. Origins(pending)' /\ StartsBounded'
    BY DEF Attempts, Fewer, Origins, StartsBounded
  <1>6. \A id \in Ids : Unstarted(id) => Unstarted(id)'
    BY DEF Fewer, Unstarted
  <1> QED
    BY <1>1, <1>2, <1>3, <1>4, <1>5, <1>6 DEF Attempts

(* An attempt is queued of a task of which no other is pending or running.   *)
LEMMA QueuedAttempt ==
    ASSUME TypeOK, Attempts, NEW t \in Tasks, NEW front \in BOOLEAN,
           pending' = Enqueued(pending, t, front),
           \A i \in DOMAIN pending : pending[i].origin # t.origin,
           \A a \in Ids : IsRunning(a)' =>
               /\ IsRunning(a) /\ running'[a].task = running[a].task
               /\ running[a].task.origin # t.origin,
           starts' = starts, starts[t.origin] < t.attempt, t.attempt <= MaxRetries + 1
    PROVE  /\ Attempts'
           /\ \A id \in Ids \ {t.origin} : Unstarted(id) => Unstarted(id)'
  <1>1. /\ Origins(pending')
        /\ \A i \in DOMAIN pending' :
              pending'[i] = t \/ \E j \in DOMAIN pending : pending'[i] = pending[j]
    BY EnqueuedOrigins DEF TypeOK, Attempts
  <1>2. OneRunning'
    BY DEF Attempts, OneRunning
  <1>3. PendingOrRunning'
    BY <1>1 DEF Attempts, PendingOrRunning
  <1>4. PendingCounts'
    BY <1>1 DEF Attempts, PendingCounts
  <1>5. RunningCounts'
    BY DEF Attempts, RunningCounts
  <1>6. Origins(pending)' /\ StartsBounded'
    BY <1>1 DEF Attempts, Origins, StartsBounded
  <1>7. \A id \in Ids \ {t.origin} : Unstarted(id) => Unstarted(id)'
    BY <1>1 DEF Unstarted
  <1> QED
    BY <1>2, <1>3, <1>4, <1>5, <1>6, <1>7 DEF Attempts

LEMMA KeepsUnstarted ==
    ASSUME TypeOK, UnstartedInv, Results, \A id \in Ids : Requested(id)' => Requested(id),
           NEW S \in SUBSET Ids, http' \in {http, None}, http' \notin S,
           \A id \in Ids \ S : Unstarted(id) => Unstarted(id)',
           \A id \in S : /\ id \notin OwnerIds => result'[id] # NoResult
                         /\ id \notin bounds'.owner
                         /\ ~Requested(id)'
    PROVE  UnstartedInv'
  <1>1. NoResultUnstarted'
    BY DEF UnstartedInv, NoResultUnstarted, Results
  <1>2. OwnersUnstarted'
    <2>1. bounds.owner \in SUBSET Ids
      BY DEF TypeOK
    <2> QED
      BY <2>1 DEF UnstartedInv, OwnersUnstarted, Results
  <1>3. RequestedUnstarted'
    BY DEF UnstartedInv, RequestedUnstarted
  <1>4. PostedUnstarted'
    BY DEF UnstartedInv, PostedUnstarted, TypeOK
  <1> QED
    BY <1>1, <1>2, <1>3, <1>4 DEF UnstartedInv

(* The common case.                                                          *)
LEMMA FewerStarts ==
    ASSUME TypeOK, Attempts, UnstartedInv, Fewer, Results, Asked, http' = http
    PROVE  Attempts' /\ UnstartedInv'
  <1>1. Attempts' /\ \A id \in Ids : Unstarted(id) => Unstarted(id)'
    BY FewerAttempts
  <1>2. {} \in SUBSET Ids
    OBVIOUS
  <1>3. UnstartedInv'
    BY <1>1, <1>2, KeepsUnstarted DEF Asked
  <1> QED
    BY <1>1, <1>3

(* The first attempt of a task.                                              *)
LEMMA FirstAttempt ==
    ASSUME TypeOK, Attempts, UnstartedInv, NEW t \in Tasks, NEW front \in BOOLEAN,
           Unstarted(t.id), t.origin = t.id, t.attempt = 1,
           pending' = Enqueued(pending, t, front), UNCHANGED <<running, starts>>,
           Results, Asked,
           t.id \notin OwnerIds => result'[t.id] # NoResult,
           t.id \notin bounds'.owner,
           ~Requested(t.id)',
           http' \in {http, None}, http' # t.id
    PROVE  Attempts' /\ UnstartedInv'
  <1>1. t.id \in Ids /\ {t.id} \in SUBSET Ids
    BY DEF Tasks
  <1>2. /\ starts[t.id] < 1 /\ 1 <= MaxRetries + 1
    BY <1>1, TaskQueueAssumption DEF Unstarted
  <1>3. \A a \in Ids : IsRunning(a)' => IsRunning(a) /\ running'[a].task = running[a].task
                                        /\ running[a].task.origin # t.origin
    BY DEF IsRunning, Unstarted
  <1>4. /\ Attempts'
        /\ \A id \in Ids \ {t.id} : Unstarted(id) => Unstarted(id)'
    BY <1>1, <1>2, <1>3, QueuedAttempt DEF Unstarted
  <1>5. UnstartedInv'
    BY <1>1, <1>4, KeepsUnstarted DEF Asked
  <1> QED
    BY <1>4, <1>5

(* One attempt more: it takes the place of the one that ran under id.        *)
LEMMA NextAttempt ==
    ASSUME TypeOK, Attempts, UnstartedInv, NEW id \in Ids, NEW new \in Ids,
           IsRunning(id), running' = Without(id), starts' = starts,
           running[id].task.attempt <= MaxRetries,
           pending' = Enqueued(pending, Again(running[id].task, new), TRUE),
           Results, Asked, http' = http
    PROVE  Attempts' /\ UnstartedInv'
  <1>1. PICK t \in Tasks :
            /\ pending' = Enqueued(pending, t, TRUE)
            /\ t.origin = running[id].task.origin
            /\ t.attempt = running[id].task.attempt + 1
    <2>1. running[id].task \in Tasks
      BY EntryType
    <2>2. /\ Again(running[id].task, new) \in Tasks
          /\ Again(running[id].task, new).origin = running[id].task.origin
          /\ Again(running[id].task, new).attempt = running[id].task.attempt + 1
      BY <2>1, AgainType DEF Again, Tasks
    <2> QED
      BY <2>2
  <1>2. starts[t.origin] < t.attempt /\ t.attempt <= MaxRetries + 1
    <2>1. starts[t.origin] <= running[id].task.attempt
      BY <1>1 DEF Attempts, RunningCounts
    <2>2. /\ starts[t.origin] \in Int /\ running[id].task.attempt \in Int
          /\ MaxRetries \in Int
      <3>1. t.origin \in Ids /\ starts \in [Ids -> Nat]
        BY DEF Tasks, TypeOK
      <3>2. running[id].task.attempt \in Nat
        BY EntryType DEF Tasks
      <3>3. MaxRetries \in Nat
        BY TaskQueueAssumption
      <3> QED
        BY <3>1, <3>2, <3>3
    <2> QED
      BY <1>1, <2>1, <2>2
  <1>3. \A i \in DOMAIN pending : pending[i].origin # t.origin
    BY <1>1 DEF Attempts, PendingOrRunning
  <1>4. \A a \in Ids : IsRunning(a)' =>
            /\ IsRunning(a) /\ running'[a].task = running[a].task
            /\ running[a].task.origin # t.origin
    <2>1. \A a \in Ids : IsRunning(a)' => a # id /\ running'[a] = running[a]
      BY DEF IsRunning, Without, TypeOK
    <2> QED
      BY <1>1, <2>1 DEF IsRunning, Attempts, OneRunning
  <1>5. /\ Attempts'
        /\ \A i \in Ids \ {t.origin} : Unstarted(i) => Unstarted(i)'
    BY <1>1, <1>2, <1>3, <1>4, QueuedAttempt
  <1>6. ~Unstarted(t.origin)
    BY <1>1 DEF Unstarted
  <1>7. {} \in SUBSET Ids
    OBVIOUS
  <1>8. UnstartedInv'
    BY <1>5, <1>6, <1>7, KeepsUnstarted DEF Asked
  <1> QED
    BY <1>5, <1>8
-----------------------------------------------------------------------------
LEMMA CopiesElsewhere == phase' \notin {"timeouts", "drop"} => CopiesInv'
  BY DEF CopiesInv, TodoTasks, KeepOrigins

(* What a step that leaves the attempts alone keeps.                         *)
LEMMA StillStarts ==
    ASSUME TypeOK, Attempts, UnstartedInv, UNCHANGED <<pending, running, starts, http>>,
           Results, Asked
    PROVE  Attempts' /\ UnstartedInv'
  <1>1. Fewer
    BY DEF Attempts, Fewer, Origins, IsRunning
  <1> QED
    BY <1>1, FewerStarts

LEMMA WithoutFewer ==
    ASSUME TypeOK, Attempts, NEW id \in Ids, running' = Without(id),
           UNCHANGED <<pending, starts>>
    PROVE  Fewer
  <1>1. \A a \in Ids : IsRunning(a)' => IsRunning(a) /\ running'[a] = running[a]
    BY DEF IsRunning, Without, TypeOK
  <1> QED
    BY <1>1 DEF Attempts, Fewer, Origins

LEMMA HealthStarts ==
    ASSUME TypeOK, OnceInv, StartsInv, Health, http' = http
    PROVE  StartsInv'
  <1>0. OnePlace /\ FreshInv /\ Attempts /\ UnstartedInv
    BY DEF OnceInv, StartsInv
  <1>1. ASSUME NEW w \in Workers, Reap(w)
        PROVE  /\ UNCHANGED <<starts, bounds>> /\ Asked /\ CopiesInv'
    <2>1. Asked
      BY <1>0, <1>1, AskedLess DEF Reap
    <2>2. CopiesInv'
      BY <1>1, CopiesElsewhere DEF Reap, In
    <2> QED
      BY <1>1, <2>1, <2>2 DEF Reap
  <1>2. ASSUME NEW w \in Workers, ReapUntracked(w)
        PROVE  StartsInv'
    <2>1. UNCHANGED <<pending, running, result>> /\ Reap(w)
      BY <1>2, TaskQueueAssumption DEF ReapUntracked
    <2>2. Results
      BY <1>1, <2>1 DEF Results
    <2> QED
      BY <1>0, <1>1, <2>1, <2>2, StillStarts DEF StartsInv
  <1>3. ASSUME NEW w \in Workers, ReapFinished(w) \/ ReapFailed(w)
        PROVE  StartsInv'
    <2>1. /\ ReapTask(w) /\ Reap(w) /\ UNCHANGED pending
          /\ result' = result \/ result' = Written(slot[w], "failed")
      BY <1>3 DEF ReapFinished, ReapFailed, ReapTask
    <2>2. slot[w] \in Ids /\ running' = Without(slot[w])
      BY <2>1, ReapTaskType DEF ReapTask
    <2>3. Fewer
      BY <1>0, <1>1, <2>1, <2>2, WithoutFewer
    <2>4. Results
      BY <1>1, <2>1, <2>2, WrittenResults, StatusTypes DEF Results
    <2> QED
      BY <1>0, <1>1, <2>1, <2>3, <2>4, FewerStarts DEF StartsInv
  <1>4. ASSUME NEW w \in Workers, ReapRetry(w)
        PROVE  StartsInv'
    <2>1. ReapTask(w) /\ Reap(w)
      BY <1>4 DEF ReapRetry, ReapTask
    <2>2. PICK id \in Ids :
              /\ IsRunning(id) /\ running' = Without(id)
              /\ running[id].task.attempt <= MaxRetries
              /\ pending' = Enqueued(pending, Again(running[id].task, id), TRUE)
              /\ result' = Written(id, "interrupted")
      BY <1>4, <2>1, ReapTaskType DEF ReapRetry, ReapTask, Tracked
    <2>3. Results
      BY <1>1, <2>1, <2>2, WrittenResults, StatusTypes DEF Results
    <2>4. Attempts' /\ UnstartedInv'
      BY <1>0, <1>1, <2>1, <2>2, <2>3, NextAttempt
    <2> QED
      BY <1>1, <2>1, <2>4 DEF StartsInv
  <1>5. CASE HealthEnd
    <2>1. /\ UNCHANGED <<pending, running, starts, result, bounds, events>>
          /\ phase' = "drain"
      BY <1>5 DEF HealthEnd, queueVars, fileVars, eventVars
    <2>2. Results /\ Asked
      BY <1>0, <2>1, AskedLess DEF Results
    <2> QED
      BY <1>0, <2>1, <2>2, StillStarts, CopiesElsewhere DEF StartsInv
  <1>6. CASE CrashStorm
    <2>1. DOMAIN pending' = {}
      BY <1>6, EmptySeq, LenProperties DEF CrashStorm
    <2>2. Fewer
      <3>1. \A a \in Ids : ~IsRunning(a)'
        BY <1>6 DEF CrashStorm, IsRunning
      <3>2. starts' = starts
        BY <1>6 DEF CrashStorm
      <3> QED
        BY <2>1, <3>1, <3>2 DEF Fewer, Origins
    <2>3. Results
      <3>1. \A id \in Ids : Guarded(result[id], "failed") = NoResult => result[id] = NoResult
        BY StatusTypes DEF Guarded, NoResult
      <3> QED
        BY <1>6, <3>1 DEF CrashStorm, Results
    <2>4. Asked
      BY <1>0, <1>6, AskedLess DEF CrashStorm
    <2>5. CopiesInv'
      BY <1>6, CopiesElsewhere DEF CrashStorm
    <2> QED
      BY <1>0, <2>2, <2>3, <2>4, <2>5, FewerStarts DEF StartsInv
  <1> QED
    BY <1>2, <1>3, <1>4, <1>5, <1>6 DEF Health

(* task_done may leave a task without any result failed.                     *)
LEMMA TaskDoneStarts ==
    ASSUME TypeOK, StartsInv, NEW id \in Ids, NEW by, TaskDone(id, by), Asked, http' = http
    PROVE  StartsInv'
  <1>1. /\ UNCHANGED <<pending, starts, bounds, phase>> /\ phase = "drain"
        /\ running' = Without(id)
    BY DEF TaskDone, In, loopVars
  <1>2. Results
    <2>1. \E c : result' = [result EXCEPT ![id] = IF c = NoResult THEN "failed" ELSE c]
      BY DEF TaskDone
    <2>2. PICK c : result' = [result EXCEPT ![id] = IF c = NoResult THEN "failed" ELSE c]
      BY <2>1
    <2>3. \A i \in Ids : result'[i] = NoResult => i # id
      BY <2>2 DEF TypeOK, NoResult
    <2>4. \A i \in Ids : i # id => result'[i] = result[i]
      BY <2>2 DEF TypeOK
    <2> QED
      BY <1>1, <2>3, <2>4 DEF Results
  <1>3. Fewer
    BY <1>1, WithoutFewer DEF StartsInv
  <1>4. CopiesInv'
    BY <1>1, CopiesElsewhere
  <1> QED
    BY <1>2, <1>3, <1>4, FewerStarts DEF StartsInv

LEMMA DrainStarts ==
    ASSUME PostedLast, TypeOK, OnceInv, StartsInv, Drain, http' = http
    PROVE  StartsInv'
  <1>0. OnePlace /\ FreshInv /\ Attempts /\ UnstartedInv
    BY DEF OnceInv, StartsInv
  <1>1. CASE DrainTaskDone
    <2>1. Asked
      BY <1>0, <1>1, AskedLess DEF DrainTaskDone
    <2> QED
      BY <1>1, <2>1, HeadType, TaskDoneStarts DEF DrainTaskDone
  <1>2. ASSUME NEW id \in Ids, DrainNotice(id)
        PROVE  StartsInv'
    <2>1. Asked
      BY <1>0, <1>2, AskedLess DEF DrainNotice
    <2> QED
      BY <1>2, <2>1, TaskDoneStarts DEF DrainNotice
  <1>3. CASE DrainReject
    <2>1. /\ UNCHANGED <<pending, running, starts, bounds, phase>> /\ phase = "drain"
          /\ Head(events).id \in Ids
          /\ \/ result' = Written(Head(events).id, "failed")
             \/ result' = Written(Head(events).id, "rejected_duplicate")
      BY <1>3, HeadType DEF DrainReject, In, queueVars, loopVars
    <2>2. Results
      BY <2>1, WrittenResults, StatusTypes DEF Results
    <2>3. Asked
      BY <1>0, <1>3, AskedLess DEF DrainReject
    <2> QED
      BY <1>0, <2>1, <2>2, <2>3, StillStarts, CopiesElsewhere DEF StartsInv
  <1>4. CASE DrainSchedule
    <2>0. PICK n \in Ids : n = Head(events).id
      BY <1>4, HeadType DEF DrainSchedule
    <2>1. /\ UNCHANGED <<running, starts, bounds, phase>> /\ phase = "drain"
          /\ pending' = Enqueued(pending, New(n), FALSE)
          /\ result' = Written(n, "scheduled")
      BY <1>4, <2>0 DEF DrainSchedule, In, loopVars
    <2>2. events \in Seq(Events) /\ events # <<>> /\ events' = Tail(events)
          /\ Schedule(Head(events))
      BY <1>4 DEF DrainSchedule, Schedule, TypeOK
    <2>3. Requested(n)
      BY <2>0, <2>2, TailEntries DEF Requested
    <2>4. n \in Subagents /\ Unstarted(n)
      BY <1>0, <2>3 DEF FreshInv, RequestedAreFresh, UnstartedInv, RequestedUnstarted
    <2>5. n \notin OwnerIds /\ n \notin bounds'.owner /\ n # http
      BY <1>0, <2>1, <2>4, TaskQueueAssumption
      DEF PostedLast, FreshInv, OwnersAreFresh, PostedIsFresh
    <2>6. ~Requested(n)'
      BY <1>0, <2>0, <2>2, HeadRequestedOnce DEF FreshInv
    <2>7. Results /\ result'[n] # NoResult
      BY <2>1, WrittenResults, StatusTypes DEF Results
    <2>8. Asked
      BY <1>0, <2>2, AskedLess
    <2>9. PICK t \in Tasks : /\ t.id = n /\ t.origin = n /\ t.attempt = 1
                             /\ pending' = Enqueued(pending, t, FALSE)
      BY <2>1, NewType DEF New
    <2>10. Attempts' /\ UnstartedInv'
      BY <1>0, <2>1, <2>4, <2>5, <2>6, <2>7, <2>8, <2>9, FirstAttempt
    <2> QED
      BY <2>1, <2>10, CopiesElsewhere DEF StartsInv
  <1>5. CASE DrainCancel
    <2>1. /\ UNCHANGED <<pending, running, starts, bounds, result, phase>> /\ phase = "drain"
          /\ events # <<>> /\ events' = Tail(events)
      BY <1>5 DEF DrainCancel, CancelBegin, In, queueVars, fileVars, loopVars
    <2>2. Results /\ Asked
      BY <1>0, <2>1, AskedLess DEF Results
    <2> QED
      BY <1>0, <2>1, <2>2, StillStarts, CopiesElsewhere DEF StartsInv
  <1>6. CASE DrainEnd
    <2>1. /\ UNCHANGED <<pending, running, starts, bounds, result, events>>
          /\ phase' = "timeouts" /\ todo' = running
      BY <1>6 DEF DrainEnd, queueVars, fileVars, eventVars
    <2>2. Results /\ Asked
      BY <1>0, <2>1, AskedLess DEF Results
    <2>3. CopiesInv'
      BY <2>1 DEF CopiesInv, TodoTasks, KeepOrigins
    <2> QED
      BY <1>0, <2>1, <2>2, <2>3, StillStarts DEF StartsInv
  <1> QED
    BY <1>1, <1>2, <1>3, <1>4, <1>5, <1>6 DEF Drain

LEMMA CancelStarts ==
    ASSUME TypeOK, LockInv, SlotInv, OnceInv, StartsInv, CancelStep, http' = http
    PROVE  StartsInv'
  <1>0. OnePlace /\ FreshInv /\ Attempts /\ UnstartedInv
    BY DEF OnceInv, StartsInv
  <1>1. /\ cancel # NoCancel
        /\ UNCHANGED <<phase, events, bounds, starts>>
        /\ \/ result' = result
           \/ result' = Written(cancel.id, "cancelled")
    <2>1. CASE CancelPending
      BY <2>1 DEF CancelPending, NoCancel, loopVars
    <2>2. ASSUME NEW w \in Workers, CancelRunning(w)
          PROVE  /\ cancel # NoCancel
                 /\ UNCHANGED <<phase, events, bounds, starts>>
                 /\ result' = Written(cancel.id, "cancelled")
      BY <2>2 DEF CancelRunning, loopVars
    <2>3. CASE CancelRespawn
      BY <2>3 DEF CancelRespawn, loopVars, eventVars, fileVars
    <2>4. CASE CancelMiss
      BY <2>4 DEF CancelMiss, loopVars
    <2> QED
      BY <2>1, <2>2, <2>3, <2>4 DEF CancelStep
  <1>2. CopiesInv'
    <2>1. phase = "drain"
      BY <1>1 DEF SlotInv, CancelInv
    <2> QED
      BY <1>1, <2>1, CopiesElsewhere
  <1>3. cancel.id \in Ids
    BY <1>1, CancelType
  <1>4. Asked
    BY <1>0, <1>1, AskedLess
  <1>5. Results
    BY <1>1, <1>3, WrittenResults, StatusTypes DEF Results
  <1>6. CASE CancelPending
    <2>1. cancel.at \in 1 .. Len(pending) /\ pending \in Seq(Tasks)
      <3>1. cancel.at \in Nat /\ cancel.at # 0 /\ Len(pending) \in Nat
        BY <1>1, <1>6, CancelType, LenProperties DEF CancelPending, TypeOK
      <3> QED
        BY <3>1 DEF LockInv, PopInRange, TypeOK
    <2>2. pending' = RemoveAt(pending, cancel.at) /\ UNCHANGED running
      BY <1>6 DEF CancelPending
    <2>3. /\ Origins(pending')
          /\ \A k \in DOMAIN pending' : \E j \in DOMAIN pending : pending'[k] = pending[j]
      BY <1>0, <2>1, <2>2, RemovedOrigins DEF Attempts
    <2>4. Fewer
      BY <1>1, <2>2, <2>3 DEF Fewer, IsRunning
    <2> QED
      BY <1>0, <1>2, <1>4, <1>5, <2>4, FewerStarts DEF StartsInv
  <1>7. ASSUME NEW w \in Workers, CancelRunning(w)
        PROVE  StartsInv'
    <2>1. Fewer
      BY <1>0, <1>1, <1>3, <1>7, WithoutFewer DEF CancelRunning
    <2> QED
      BY <1>0, <1>2, <1>4, <1>5, <2>1, FewerStarts DEF StartsInv
  <1>8. CASE CancelRespawn \/ CancelMiss
    <2>1. UNCHANGED <<pending, running>>
      BY <1>8 DEF CancelRespawn, CancelMiss, queueVars
    <2> QED
      BY <1>0, <1>1, <1>2, <1>4, <1>5, <2>1, StillStarts DEF StartsInv
  <1> QED
    BY <1>6, <1>7, <1>8 DEF CancelStep
(* The entry that a timeout looks at is still the one in RUNNING.            *)
LEMMA TimeoutsStarts ==
    ASSUME PostedLast, TypeOK, SlotInv, OnceInv, StartsInv, Timeouts, http' = http
    PROVE  StartsInv'
  <1>0. OnePlace /\ FreshInv /\ Attempts /\ UnstartedInv /\ TodoTasks
    BY DEF OnceInv, StartsInv, CopiesInv
  <1>1. ASSUME NEW id \in Ids, At(id)
        PROVE  /\ phase = "timeouts" /\ IsRunning(id)
               /\ running[id].task = todo[id].task
    BY <1>0, <1>1 DEF At, In, SlotInv, TodoInv, TodoTasks
  <1>2. ASSUME NEW id \in Ids, TimeoutPass(id)
        PROVE  StartsInv'
    <2>1. /\ UNCHANGED <<pending, running, starts, bounds, result, events, phase>>
          /\ \A i \in Ids : todo'[i] # NotRunning => todo'[i] = todo[i]
          /\ phase = "timeouts"
      BY <1>1, <1>2 DEF TimeoutPass, TypeOK, queueVars, fileVars, eventVars
    <2>2. Results /\ Asked
      BY <1>0, <2>1, AskedLess DEF Results
    <2>3. CopiesInv'
      BY <1>0, <2>1 DEF CopiesInv, TodoTasks, KeepOrigins
    <2> QED
      BY <1>0, <2>1, <2>2, <2>3, StillStarts DEF StartsInv
  <1>3. ASSUME NEW id \in Ids, TimeoutGrace(id)
        PROVE  StartsInv'
    <2>1. /\ UNCHANGED <<pending, starts, bounds, result, events, phase>>
          /\ \A i \in Ids : todo'[i] # NotRunning => todo'[i] = todo[i]
          /\ phase = "timeouts" /\ IsRunning(id)
          /\ running' = [running EXCEPT ![id] = Graced(todo[id])]
      BY <1>1, <1>3 DEF TimeoutGrace, TypeOK, fileVars, eventVars
    <2>2. \A i \in Ids : /\ IsRunning(i)' => IsRunning(i)
                         /\ running'[i].task = running[i].task
      <3>1. todo[id] \in Entries
        BY <1>3, TodoType DEF TimeoutGrace
      <3>2. Graced(todo[id]).task = todo[id].task
        BY <3>1 DEF Graced, Entries
      <3>3. running[id].task = todo[id].task
        BY <1>1, <1>3 DEF TimeoutGrace
      <3> QED
        BY <2>1, <3>2, <3>3 DEF TypeOK, IsRunning
    <2>3. Fewer
      BY <1>0, <2>1, <2>2 DEF Attempts, Fewer, Origins
    <2>4. Results /\ Asked
      BY <1>0, <2>1, AskedLess DEF Results
    <2>5. CopiesInv'
      BY <1>0, <2>1, <2>2 DEF CopiesInv, TodoTasks, KeepOrigins
    <2> QED
      BY <1>0, <2>3, <2>4, <2>5, FewerStarts DEF StartsInv
  <1>4. ASSUME NEW id \in Ids, TimeoutStop(id)
        PROVE  /\ UNCHANGED <<starts, bounds, events>> /\ Asked /\ CopiesInv'
               /\ IsRunning(id) /\ running' = Without(id)
               /\ running[id].task = todo[id].task
    <2>1. /\ UNCHANGED <<phase, starts, bounds, events>> /\ phase = "timeouts"
          /\ IsRunning(id) /\ running' = Without(id) /\ running[id].task = todo[id].task
          /\ todo' = [todo EXCEPT ![id] = NotRunning]
      BY <1>1, <1>4 DEF TimeoutStop
    <2>2. Asked
      BY <1>0, <2>1, AskedLess
    <2>3. \A i \in Ids : todo'[i] # NotRunning =>
                            todo'[i] = todo[i] /\ running'[i] = running[i]
      BY <2>1 DEF TypeOK, Without
    <2>4. CopiesInv'
      BY <1>0, <2>1, <2>3 DEF CopiesInv, TodoTasks, KeepOrigins
    <2> QED
      BY <2>1, <2>2, <2>4
  <1>5. ASSUME NEW id \in Ids, TimeoutFail(id)
        PROVE  StartsInv'
    <2>1. TimeoutStop(id) /\ UNCHANGED pending /\ result' = Written(id, "failed")
      BY <1>5 DEF TimeoutFail
    <2>2. Results
      BY <1>4, <2>1, WrittenResults, StatusTypes DEF Results
    <2>3. Fewer
      BY <1>0, <1>4, <2>1, WithoutFewer
    <2> QED
      BY <1>0, <1>4, <2>1, <2>2, <2>3, FewerStarts DEF StartsInv
  <1>6. ASSUME NEW id \in Ids, NEW retry \in Ids, TimeoutRetry(id, retry)
        PROVE  StartsInv'
    <2>1. /\ TimeoutStop(id)
          /\ todo[id].task.attempt <= MaxRetries
          /\ result' = [result EXCEPT ![retry] = Guarded(@, "scheduled"),
                                      ![id] = Guarded(result[id], "interrupted")]
          /\ pending' = Enqueued(pending, Again(todo[id].task, retry), TRUE)
      BY <1>6 DEF TimeoutRetry
    <2>2. Results
      <3>1. \A f : Guarded(f, "scheduled") # NoResult /\ Guarded(f, "interrupted") # NoResult
        BY StatusTypes DEF Guarded, TrulyTerminal
      <3> QED
        BY <1>4, <2>1, <3>1 DEF Results, TypeOK
    <2>3. Attempts' /\ UnstartedInv'
      BY <1>0, <1>4, <2>1, <2>2, NextAttempt
    <2> QED
      BY <1>4, <2>1, <2>3 DEF StartsInv
  <1>7. CASE TimeoutsEnd
    <2>1. /\ UNCHANGED <<pending, running, starts, bounds, result, events>>
          /\ phase' = "produce"
      BY <1>7 DEF TimeoutsEnd, queueVars, fileVars, eventVars
    <2>2. Results /\ Asked
      BY <1>0, <2>1, AskedLess DEF Results
    <2> QED
      BY <1>0, <2>1, <2>2, StillStarts, CopiesElsewhere DEF StartsInv
  <1> QED
    BY <1>2, <1>3, <1>5, <1>6, <1>7 DEF Timeouts

LEMMA DropStepOrigins ==
    ASSUME TypeOK, OnceInv, StartsInv, DropStep
    PROVE  CopiesInv'
  <1> DEFINE at == sweep.at
             keep == sweep.keep
             k == Append(keep, pending[at])
             n == Len(keep) + 1
  <1>1. /\ phase = "drop" /\ at \in DOMAIN pending /\ at \in Nat /\ keep \in Seq(Tasks)
        /\ pending \in Seq(Tasks) /\ pending[at] \in Tasks
    BY ElementOfSeq, LenProperties DEF DropStep, TypeOK
  <1>2. at # 0 /\ DOMAIN pending \subseteq Int
    BY <1>1, LenProperties
  <1>3. /\ Origins(keep) /\ Origins(pending)
        /\ \A i \in DOMAIN keep : \E j \in DOMAIN pending : keep[i] = pending[j] /\ j < at
    BY <1>1, <1>2 DEF OnceInv, KeepInv, StartsInv, CopiesInv, KeepOrigins, Attempts
  <1>4. /\ phase' = phase
        /\ sweep'.keep = keep \/ sweep'.keep = Append(keep, pending[at])
    BY DEF DropStep, TypeOK
  <1> HIDE DEF at, keep
  <1>5. \A i \in DOMAIN keep : keep[i].origin # pending[at].origin
    <2>1. \A j \in Int : j < at => j # at
      BY <1>1
    <2> QED
      BY <1>1, <1>2, <1>3, <2>1 DEF Origins
  <1>6. /\ DOMAIN keep = 1 .. Len(keep) /\ DOMAIN k = 1 .. n /\ Len(keep) \in Nat
        /\ k[n] = pending[at]
        /\ \A i \in DOMAIN keep : k[i] = keep[i]
    BY <1>1, LongerEntries
  <1> HIDE DEF k
  <1>7. \A i \in DOMAIN k : i \in DOMAIN keep \/ i = n
    BY <1>6
  <1>8. Origins(k)
    <2>1. \A i, j \in DOMAIN keep : k[i].origin = k[j].origin => i = j
      BY <1>3, <1>6 DEF Origins
    <2>2. \A i \in DOMAIN keep : k[i].origin # k[n].origin
      BY <1>5, <1>6
    <2> QED
      BY <1>7, <2>1, <2>2 DEF Origins
  <1>9. \A q : sweep'.keep = q /\ Origins(q) => Origins(sweep.keep)'
    BY DEF Origins
  <1>10. Origins(sweep.keep)'
    BY <1>3, <1>4, <1>8, <1>9 DEF k
  <1> QED
    BY <1>1, <1>4, <1>10 DEF CopiesInv, TodoTasks, KeepOrigins

(* The start that Assign counts is the one the attempt allows for.           *)
LEMMA AssignStarts ==
    ASSUME TypeOK, OnceInv, StartsInv, NEW w \in Workers, Assign(w),
           http' = http
    PROVE  StartsInv'
  <1>0. OnePlace /\ FreshInv /\ Attempts /\ UnstartedInv
    BY DEF OnceInv, StartsInv
  <1>1. PICK t \in Tasks : t = Head(pending)
    BY HeadTailProperties DEF Assign, TypeOK
  <1>2. t.id \in Ids /\ t.origin \in Ids /\ t.attempt \in Nat
    BY DEF Tasks
  <1>3. /\ phase = "assign" /\ phase' = phase /\ UNCHANGED <<events, bounds>>
        /\ pending # <<>> /\ pending \in Seq(Tasks) /\ pending' = Tail(pending)
        /\ running' = [running EXCEPT ![t.id] =
               [kind |-> "entry", task |-> t, worker |-> w, grace |-> FALSE]]
        /\ result' = result \/ result' = Written(t.id, "running")
        /\ starts' = [starts EXCEPT ![t.origin] = @ + 1]
    BY <1>1 DEF Assign, TypeOK, eventVars, loopVars
  <1>4. /\ Origins(pending')
        /\ \A i \in DOMAIN pending' :
              /\ pending'[i].origin # t.origin
              /\ \E j \in DOMAIN pending : pending'[i] = pending[j]
        /\ \E j \in DOMAIN pending : t = pending[j]
    BY <1>0, <1>1, <1>3, TailOrigins DEF Attempts
  <1>5. \A a \in Ids : a # t.id => running'[a] = running[a]
    BY <1>3 DEF TypeOK
  <1>6. running'[t.id].task = t
    BY <1>2, <1>3 DEF TypeOK
  <1>7. \A a \in Ids : IsRunning(a) => running[a].task.origin # t.origin
    BY <1>0, <1>4 DEF Attempts, PendingOrRunning
  <1>8. \A a \in Ids : IsRunning(a)' /\ a # t.id => IsRunning(a)
    BY <1>5 DEF IsRunning
  <1>9. /\ starts'[t.origin] = starts[t.origin] + 1
        /\ \A o \in Ids : o # t.origin => starts'[o] = starts[o]
        /\ starts[t.origin] \in Nat
    BY <1>2, <1>3 DEF TypeOK
  <1>10. starts[t.origin] < t.attempt /\ t.attempt <= MaxRetries + 1
    BY <1>0, <1>4 DEF Attempts, PendingCounts
  <1>11. starts'[t.origin] <= t.attempt /\ starts'[t.origin] <= MaxRetries + 1
    <2>1. MaxRetries \in Nat
      BY TaskQueueAssumption
    <2> QED
      BY <1>2, <1>9, <1>10, <2>1
  <1>12. \A a \in Ids : IsRunning(a) => running[a].task.origin \in Ids
    <2>1. \A a \in Ids : IsRunning(a) => running[a].task \in Tasks
      BY EntryType
    <2> QED
      BY <2>1 DEF Tasks
  <1>13. \A j \in DOMAIN pending : pending[j].origin \in Ids
    <2>1. \A j \in DOMAIN pending : pending[j] \in Tasks
      BY <1>3, ElementOfSeq, LenProperties
    <2> QED
      BY <2>1 DEF Tasks
  <1>14. Attempts'
    <2>1. OneRunning'
      BY <1>0, <1>5, <1>6, <1>7, <1>8 DEF Attempts, OneRunning
    <2>2. PendingOrRunning'
      BY <1>0, <1>4, <1>5, <1>6, <1>8 DEF Attempts, PendingOrRunning
    <2>3. PendingCounts'
      BY <1>0, <1>4, <1>9, <1>13 DEF Attempts, PendingCounts
    <2>4. RunningCounts'
      BY <1>0, <1>5, <1>6, <1>7, <1>8, <1>9, <1>10, <1>11, <1>12 DEF Attempts, RunningCounts
    <2>5. StartsBounded'
      BY <1>0, <1>9, <1>11 DEF Attempts, StartsBounded
    <2>6. Origins(pending)'
      BY <1>4 DEF Origins
    <2> QED
      BY <2>1, <2>2, <2>3, <2>4, <2>5, <2>6 DEF Attempts
  <1>15. \A id \in Ids : Unstarted(id) => Unstarted(id)'
    <2>1. \A id \in Ids : Unstarted(id) => id # t.origin
      BY <1>4 DEF Unstarted
    <2> QED
      BY <1>4, <1>5, <1>6, <1>8, <1>9, <2>1 DEF Unstarted
  <1>16. Results
    BY <1>2, <1>3, WrittenResults, StatusTypes DEF Results
  <1>17. Asked
    BY <1>0, <1>3, AskedLess
  <1>18. {} \in SUBSET Ids
    OBVIOUS
  <1>19. UnstartedInv'
    BY <1>0, <1>15, <1>16, <1>17, <1>18, KeepsUnstarted DEF Asked
  <1> QED
    BY <1>3, <1>14, <1>19, CopiesElsewhere DEF StartsInv

LEMMA AssignTasksStarts ==
    ASSUME TypeOK, OnceInv, StartsInv, AssignTasks, http' = http
    PROVE  StartsInv'
  <1>0. OnePlace /\ FreshInv /\ Attempts /\ UnstartedInv /\ CopiesInv
    BY DEF OnceInv, StartsInv
  <1>1. CASE AssignNothing \/ AssignBegin \/ AssignEnd
    <2>1. /\ UNCHANGED <<pending, running, starts, bounds, result, events>>
          /\ phase' # "timeouts"
          /\ phase' = "drop" => sweep'.keep = <<>>
      BY <1>1 DEF AssignNothing, AssignBegin, AssignEnd, queueVars, fileVars, eventVars
    <2>2. Results /\ Asked
      BY <1>0, <2>1, AskedLess DEF Results
    <2>3. CopiesInv'
      <3>1. DOMAIN <<>> = {}
        BY EmptySeq, LenProperties
      <3> QED
        BY <2>1, <3>1 DEF CopiesInv, TodoTasks, KeepOrigins, Origins
    <2> QED
      BY <1>0, <2>1, <2>2, <2>3, StillStarts DEF StartsInv
  <1>2. CASE DropStep
    <2>1. /\ UNCHANGED <<pending, running, starts, bounds, events>>
          /\ sweep.at \in DOMAIN pending
          /\ \/ result' = result
             \/ result' = Written(pending[sweep.at].id, "cancelled")
      BY <1>2 DEF DropStep, queueVars
    <2>2. pending[sweep.at].id \in Ids
      <3>1. pending \in Seq(Tasks)
        BY DEF TypeOK
      <3>2. pending[sweep.at] \in Tasks
        BY <2>1, <3>1, ElementOfSeq, LenProperties
      <3> QED
        BY <3>2 DEF Tasks
    <2>3. Results /\ Asked
      BY <1>0, <2>1, <2>2, AskedLess, WrittenResults, StatusTypes DEF Results
    <2> QED
      BY <1>0, <1>2, <2>1, <2>3, StillStarts, DropStepOrigins DEF StartsInv
  <1>3. CASE DropDone
    <2>1. /\ UNCHANGED <<pending, running, starts, bounds, result, events, phase>>
          /\ sweep'.keep = sweep.keep /\ phase = "drop"
      BY <1>3 DEF DropDone, TypeOK, queueVars, fileVars, eventVars
    <2>2. Results /\ Asked
      BY <1>0, <2>1, AskedLess DEF Results
    <2>3. CopiesInv'
      BY <1>0, <2>1 DEF CopiesInv, TodoTasks, KeepOrigins, Origins
    <2> QED
      BY <1>0, <2>1, <2>2, <2>3, StillStarts DEF StartsInv
  <1>4. CASE DropEnd
    <2>1. /\ UNCHANGED <<running, starts, bounds, result, events>>
          /\ phase = "drop" /\ phase' = "assign"
          /\ pending' = pending \/ pending' = sweep.keep
      BY <1>4 DEF DropEnd, fileVars, eventVars
    <2>2. Results /\ Asked
      BY <1>0, <2>1, AskedLess DEF Results
    <2>3. /\ Origins(pending')
          /\ \A i \in DOMAIN pending' : \E j \in DOMAIN pending : pending'[i] = pending[j]
      BY <1>0, <2>1 DEF OnceInv, KeepInv, CopiesInv, KeepOrigins, Attempts
    <2>4. Fewer
      BY <2>1, <2>3 DEF Fewer, IsRunning
    <2> QED
      BY <1>0, <2>1, <2>2, <2>4, FewerStarts, CopiesElsewhere DEF StartsInv
  <1> QED
    BY <1>1, <1>2, <1>3, <1>4, AssignStarts DEF AssignTasks
LEMMA ProduceStarts ==
    ASSUME PostedLast, TypeOK, OnceInv, StartsInv, Produce, http' = http
    PROVE  StartsInv'
  <1>0. OnePlace /\ FreshInv /\ Attempts /\ UnstartedInv
    BY DEF OnceInv, StartsInv
  <1>1. ASSUME NEW id \in Ids, Unstarted(id),
               pending' = Enqueued(pending, New(id), FALSE),
               UNCHANGED <<running, starts, events, phase>>,
               phase \notin {"timeouts", "drop"},
               Results, id \notin OwnerIds => result'[id] # NoResult,
               id \notin bounds'.owner, ~Requested(id), id # http
        PROVE  StartsInv'
    <2>1. Asked /\ ~Requested(id)'
      BY <1>0, <1>1, AskedLess DEF Requested
    <2>2. PICK t \in Tasks : /\ t.id = id /\ t.origin = id /\ t.attempt = 1
                             /\ pending' = Enqueued(pending, t, FALSE)
      BY <1>1, NewType DEF New
    <2>3. Attempts' /\ UnstartedInv'
      BY <1>0, <1>1, <2>1, <2>2, FirstAttempt
    <2> QED
      BY <1>1, <2>3, CopiesElsewhere DEF StartsInv
  <1>2. ASSUME NEW id \in Ids, CronDue(id)
        PROVE  StartsInv'
    <2>1. /\ pending' = Enqueued(pending, New(id), FALSE)
          /\ UNCHANGED <<running, starts, events, phase, bounds>>
          /\ phase \notin {"timeouts", "drop"}
          /\ result[id] = NoResult /\ id \notin OwnerIds
          /\ result' = Written(id, "scheduled")
      BY <1>2 DEF CronDue, In, PostedLast, eventVars, loopVars
    <2>2. Results /\ result'[id] # NoResult
      BY <2>1, WrittenResults, StatusTypes DEF Results
    <2>3. ~Requested(id) /\ id \notin bounds'.owner /\ id # http
      BY <1>0, <2>1, TaskQueueAssumption
      DEF FreshInv, RequestedAreFresh, OwnersAreFresh, PostedIsFresh
    <2>4. Unstarted(id)
      BY <1>0, <2>1 DEF UnstartedInv, NoResultUnstarted
    <2> QED
      BY <1>1, <2>1, <2>2, <2>3, <2>4
  <1>3. ASSUME NEW id \in Ids, OwnerQueues(id)
        PROVE  StartsInv'
    <2>1. /\ pending' = Enqueued(pending, New(id), FALSE)
          /\ UNCHANGED <<running, starts, events, phase, result>>
          /\ phase \notin {"timeouts", "drop"}
          /\ id \in bounds.owner /\ bounds'.owner = bounds.owner \ {id}
      BY <1>3 DEF OwnerQueues, In, TypeOK, eventVars, fileVars, loopVars
    <2>2. Results
      BY <2>1 DEF Results
    <2>3. id \in OwnerIds /\ Unstarted(id)
      BY <1>0, <2>1 DEF FreshInv, OwnersAreFresh, UnstartedInv, OwnersUnstarted
    <2>4. ~Requested(id) /\ id # http
      BY <1>0, <2>3, TaskQueueAssumption
      DEF PostedLast, FreshInv, RequestedAreFresh, PostedIsFresh
    <2> QED
      BY <1>1, <2>1, <2>2, <2>3, <2>4
  <1> QED
    BY <1>2, <1>3 DEF Produce

(* A worker starts nothing; what it asks for was never started.              *)
LEMMA WorkerStarts ==
    ASSUME PostedLast, TypeOK, OnceInv, StartsInv, NEW w \in Workers, Worker(w),
           http' = http
    PROVE  StartsInv'
  <1>0. OnePlace /\ FreshInv /\ Attempts /\ UnstartedInv /\ CopiesInv
    BY DEF OnceInv, StartsInv
  <1>1. /\ UNCHANGED <<pending, running, starts, phase, todo, sweep>>
    BY DEF Worker, Take, Store, Emit, Break, Die, ScheduleSubagent, RequestCancel,
           WorkerOnly, queueVars, loopVars
  <1>2. CopiesInv'
    BY <1>0, <1>1 DEF CopiesInv, TodoTasks, KeepOrigins, Origins
  <1>3. ASSUME Results, Asked
        PROVE  StartsInv'
    BY <1>0, <1>1, <1>2, <1>3, StillStarts DEF StartsInv
  <1>4. ASSUME NEW t \in Tasks, NEW s \in Files, s # NoResult, Report(t, s),
               UNCHANGED <<events, bounds>>
        PROVE  StartsInv'
    <2>1. Results /\ Asked
      BY <1>0, <1>4, ReportedResults, AskedLess
    <2> QED
      BY <1>3, <2>1
  <1>5. CASE Take(w)
    <2>1. /\ proc[w].inbox # <<>> /\ Report(Head(proc[w].inbox), "running")
          /\ UNCHANGED <<events, bounds>>
      BY <1>5 DEF Take
    <2>2. Head(proc[w].inbox) \in Tasks
      <3>1. proc[w] \in Processes
        BY DEF TypeOK
      <3>2. proc[w].inbox \in Seq(Tasks)
        BY <3>1, ProcessType
      <3> QED
        BY <2>1, <3>2, HeadTailProperties
    <2>3. PICK t \in Tasks : t = Head(proc[w].inbox)
      BY <2>2
    <2> QED
      BY <1>4, <2>1, <2>3, StatusTypes
  <1>6. ASSUME NEW status \in {"completed", "failed"}, Store(w, status)
        PROVE  StartsInv'
    <2>1. /\ proc[w].does # Idle /\ Report(proc[w].does.task, status)
          /\ UNCHANGED <<events, bounds>>
      BY <1>6 DEF Store, Working
    <2>2. PICK t \in Tasks : t = proc[w].does.task
      BY <2>1, DoesType
    <2>3. status \in Files /\ status # NoResult
      BY StatusTypes
    <2> QED
      BY <1>4, <2>1, <2>2, <2>3
  <1>7. CASE Emit(w) \/ Break(w)
    <2>1. /\ UNCHANGED <<result, bounds>>
          /\ \/ events' = events
             \/ /\ proc[w].does # Idle
                /\ events' = Append(events, [kind |-> "task_done", by |-> w,
                                             id |-> proc[w].does.task.id])
      BY <1>7 DEF Emit, Break
    <2>2. Asked
      <3>1. CASE events' = events
        BY <1>0, <3>1, AskedLess
      <3>2. CASE events' # events
        <4> DEFINE e == [kind |-> "task_done", by |-> w, id |-> proc[w].does.task.id]
        <4>1. e \in Events /\ ~Schedule(e)
          BY <2>1, <3>2, DoesType DEF Events, Schedule
        <4>2. events' = Append(events, e)
          BY <2>1, <3>2
        <4> HIDE DEF e
        <4> QED
          BY <1>0, <4>1, <4>2, AskedLess
      <3> QED
        BY <3>1, <3>2
    <2>3. Results
      BY <2>1 DEF Results
    <2> QED
      BY <1>3, <2>2, <2>3
  <1>8. ASSUME NEW how \in {"exited", "signalled"}, Die(w, how)
        PROVE  StartsInv'
    <2>1. UNCHANGED <<result, events>> /\ bounds'.owner = bounds.owner
      BY <1>8 DEF Die, TypeOK
    <2>2. Asked /\ Results
      BY <1>0, <2>1, AskedLess DEF Results
    <2> QED
      BY <1>3, <2>2
  <1>9. ASSUME NEW id \in Ids, RequestCancel(w, id)
        PROVE  StartsInv'
    <2> DEFINE e == [kind |-> "cancel", id |-> id, by |-> w]
    <2>1. /\ bounds'.owner = bounds.owner
          /\ result' = Written(id, "cancel_requested")
          /\ events' = Append(events, e)
      BY <1>9 DEF RequestCancel, TypeOK
    <2>2. e \in Events /\ ~Schedule(e)
      BY DEF Events, Schedule
    <2> HIDE DEF e
    <2>3. Asked
      BY <1>0, <2>1, <2>2, AskedLess
    <2>4. Results
      BY <2>1, WrittenResults, StatusTypes DEF Results
    <2> QED
      BY <1>3, <2>3, <2>4
  <1>10. ASSUME NEW id \in Ids, ScheduleSubagent(w, id)
         PROVE  StartsInv'
    <2>1. /\ UNCHANGED bounds /\ id \in Subagents /\ result[id] = NoResult
          /\ result' = Written(id, "requested")
          /\ \E e \in Events : e.id = id /\ events' = Append(events, e)
      BY <1>10 DEF ScheduleSubagent, Events
    <2>2. Results
      BY <2>1, WrittenResults, StatusTypes DEF Results
    <2>3. \A i \in Ids : Requested(i)' => Requested(i) \/ i = id
      <3>1. PICK e \in Events : e.id = id /\ events' = Append(events, e)
        BY <2>1
      <3>2. \A i \in DOMAIN events' :
                \/ i \in DOMAIN events /\ events'[i] = events[i]
                \/ events'[i] = e
        BY <3>1, LongerEntries DEF TypeOK
      <3> QED
        BY <3>1, <3>2 DEF Requested
    <2>4. \A i \in Ids : Unstarted(i) => Unstarted(i)'
      BY <1>1 DEF Unstarted, IsRunning
    <2>5. Unstarted(id)
      BY <1>0, <2>1 DEF PostedLast, UnstartedInv, NoResultUnstarted
    <2>6. UnstartedInv'
      <3>1. bounds.owner \in SUBSET Ids
        BY DEF TypeOK
      <3>2. NoResultUnstarted' /\ OwnersUnstarted'
        BY <1>0, <2>1, <2>2, <2>4, <3>1
        DEF UnstartedInv, NoResultUnstarted, OwnersUnstarted, Results
      <3>3. RequestedUnstarted'
        BY <1>0, <2>3, <2>4, <2>5 DEF UnstartedInv, RequestedUnstarted
      <3>4. PostedUnstarted'
        BY <1>0, <2>4 DEF UnstartedInv, PostedUnstarted, TypeOK
      <3> QED
        BY <3>2, <3>3, <3>4 DEF UnstartedInv
    <2>7. Fewer
      BY <1>0, <1>1 DEF Attempts, Fewer, Origins, IsRunning
    <2> QED
      BY <1>0, <1>2, <2>6, <2>7, FewerAttempts DEF StartsInv
  <1> QED
    BY <1>5, <1>6, <1>7, <1>8, <1>9, <1>10 DEF Worker

(* A posted task was never started when it is queued.                        *)
LEMMA HttpStarts ==
    ASSUME PostedLast, TypeOK, OnceInv, StartsInv, Http
    PROVE  StartsInv'
  <1>0. FreshInv /\ Attempts /\ UnstartedInv /\ CopiesInv
    BY DEF OnceInv, StartsInv
  <1>1. /\ UNCHANGED <<running, starts, phase, todo, sweep, bounds, events>>
    BY DEF Http, HttpCreate, HttpCancel, HttpEnqueue, PostedLast, queueVars, eventVars,
           loopVars
  <1>2. CopiesInv'
    BY <1>0, <1>1 DEF CopiesInv, TodoTasks, KeepOrigins, Origins
  <1>3. ASSUME NEW id \in Ids, HttpCreate(id)
        PROVE  StartsInv'
    <2>1. /\ UNCHANGED pending /\ id \in HttpIds /\ result[id] = NoResult /\ http' = id
          /\ result' = Written(id, "scheduled")
      BY <1>3 DEF HttpCreate, queueVars
    <2>2. Results /\ Asked
      BY <1>0, <1>1, <2>1, AskedLess, WrittenResults, StatusTypes DEF Results
    <2>3. \A i \in Ids : Unstarted(i) => Unstarted(i)'
      BY <1>1, <2>1 DEF Unstarted, IsRunning
    <2>4. Unstarted(id)
      BY <1>0, <2>1 DEF PostedLast, UnstartedInv, NoResultUnstarted
    <2>5. PostedUnstarted'
      BY <2>1, <2>3, <2>4 DEF PostedUnstarted
    <2>6. NoResultUnstarted' /\ OwnersUnstarted' /\ RequestedUnstarted'
      <3>1. bounds.owner \in SUBSET Ids
        BY DEF TypeOK
      <3> QED
        BY <1>0, <1>1, <2>2, <2>3, <3>1
        DEF UnstartedInv, NoResultUnstarted, OwnersUnstarted, RequestedUnstarted, Results,
            Asked
    <2>7. Fewer
      BY <1>0, <1>1, <2>1 DEF Attempts, Fewer, Origins, IsRunning
    <2> QED
      BY <1>0, <1>2, <2>5, <2>6, <2>7, FewerAttempts DEF StartsInv, UnstartedInv
  <1>4. CASE HttpEnqueue
    <2>1. PICK t \in Tasks : /\ t.id = http /\ t.origin = http /\ t.attempt = 1
                             /\ pending' = Enqueued(pending, t, FALSE)
      <3>1. http \in Ids
        BY <1>4 DEF HttpEnqueue, TypeOK
      <3> QED
        BY <1>4, <3>1, NewType DEF HttpEnqueue, New
    <2>2. http # None /\ http' = None /\ UNCHANGED result
      BY <1>4 DEF HttpEnqueue, fileVars
    <2>3. /\ http \in HttpIds /\ Unstarted(http) /\ result[http] # NoResult
          /\ Nowhere(http) /\ http \in Ids
      BY <1>0, <2>2 DEF FreshInv, PostedIsFresh, UnstartedInv, PostedUnstarted, TypeOK
    <2>4. t.id \notin bounds.owner /\ ~Requested(t.id)
      BY <1>0, <2>1, <2>3 DEF PostedLast, FreshInv, OwnersAreFresh, RequestedAreFresh
    <2>5. Results /\ Asked /\ ~Requested(t.id)'
      BY <1>0, <1>1, <2>2, <2>4, AskedLess DEF Results, Requested
    <2>6. Attempts' /\ UnstartedInv'
      BY <1>0, <1>1, <2>1, <2>2, <2>3, <2>4, <2>5, FirstAttempt
    <2> QED
      BY <1>2, <2>6 DEF StartsInv
  <1> QED
    BY <1>3, <1>4 DEF Http, HttpCancel, PostedLast

LEMMA ElseStarts ==
    ASSUME TypeOK, OnceInv, StartsInv, BudgetExhausted \/ UNCHANGED vars, http' = http
    PROVE  StartsInv'
  <1>0. OnePlace /\ FreshInv /\ Attempts /\ UnstartedInv /\ CopiesInv
    BY DEF OnceInv, StartsInv
  <1>1. UNCHANGED <<pending, running, starts, bounds, result, events, phase, todo, sweep>>
    BY DEF BudgetExhausted, vars, queueVars, fileVars, eventVars, loopVars
  <1>2. Results /\ Asked
    BY <1>0, <1>1, AskedLess DEF Results
  <1>3. CopiesInv'
    BY <1>0, <1>1 DEF CopiesInv, TodoTasks, KeepOrigins, Origins
  <1> QED
    BY <1>0, <1>1, <1>2, <1>3, StillStarts DEF StartsInv
-----------------------------------------------------------------------------
LEMMA InitStarts == Init => StartsInv
  <1> SUFFICES ASSUME Init
               PROVE  StartsInv
    OBVIOUS
  <1>1. DOMAIN pending = {} /\ DOMAIN events = {}
    BY EmptySeq, LenProperties DEF Init
  <1>2. \A id \in Ids : ~IsRunning(id) /\ starts[id] = 0
    BY DEF Init, IsRunning
  <1>3. \A id \in Ids : Unstarted(id)
    BY <1>1, <1>2 DEF Unstarted
  <1>4. StartsBounded
    <2>1. MaxRetries \in Nat
      BY TaskQueueAssumption
    <2> QED
      BY <1>2, <2>1 DEF StartsBounded
  <1>5. Attempts
    BY <1>1, <1>2, <1>4 DEF Attempts, Origins, OneRunning, PendingOrRunning, PendingCounts,
                            RunningCounts
  <1>6. bounds.owner \subseteq Ids
    BY TaskQueueAssumption DEF Init
  <1>7. UnstartedInv
    BY <1>3, <1>6 DEF Init, UnstartedInv, NoResultUnstarted, OwnersUnstarted,
                      RequestedUnstarted, PostedUnstarted
  <1>8. CopiesInv
    BY DEF Init, CopiesInv, TodoTasks, KeepOrigins
  <1> QED
    BY <1>5, <1>7, <1>8 DEF StartsInv

LEMMA StepStarts ==
    ASSUME PostedLast, TypeOK, LockInv, SlotInv, OnceInv, StartsInv, [Next]_vars
    PROVE  StartsInv'
  <1>1. CASE ~Http
    <2>1. http' = http
      BY <1>1, OnlyHttpPosts
    <2> QED
      BY <1>1, <2>1, HealthStarts, DrainStarts, CancelStarts, TimeoutsStarts,
         AssignTasksStarts, ProduceStarts, WorkerStarts, ElseStarts
      DEF Next, MainLoop
  <1> QED
    BY <1>1, HttpStarts

(* Crashes, timeouts and grace periods together start a task no more often   *)
(* than QUEUE_MAX_RETRIES allows, under however many ids it is retried and   *)
(* whoever queued it.                                                        *)
THEOREM RetriesBounded ==
    ASSUME PostedLast
    PROVE  Spec => []StartsBounded
  <1>1. HttpCancels = {}
    BY DEF PostedLast
  <1>2. Spec => []SlotInv
    BY <1>1, SlotInvariant
  <1>3. Spec => []OnceInv
    BY OnceInvariant
  <1>4. QueueInv /\ SlotInv /\ OnceInv /\ StartsInv /\ [Next]_vars => StartsInv'
    BY StepStarts DEF QueueInv
  <1>5. StartsInv => StartsBounded
    BY DEF StartsInv, Attempts
  <1>6. QED
    BY <1>2, <1>3, <1>4, <1>5, InitStarts, QueueInvariant, PTL DEF Spec
-----------------------------------------------------------------------------
(* What has ended: assign_tasks finds no terminal task in PENDING once the   *)
(* drop loop is through, and no cancelled task is in RUNNING.                *)
Ended(id) == result[id] \in TrulyTerminal

AssignsLive == phase = "assign" => \A i \in DOMAIN pending : ~Ended(pending[i].id)
SurvivorsLive ==
    phase = "drop" =>
        /\ \A i \in DOMAIN sweep.keep : ~Ended(sweep.keep[i].id)
        /\ ~sweep.dropped =>
              \A j \in DOMAIN pending :
                  sweep.at = 0 \/ j < sweep.at => ~Ended(pending[j].id)
CancelledNotRunning == \A id \in Ids : IsRunning(id) => result[id] # "cancelled"

(* cancel_task_by_id does not pop a task of PENDING that also runs.          *)
PoppedNotRunning == cancel.at # 0 => ~IsRunning(cancel.id)

EndedInv == AssignsLive /\ SurvivorsLive /\ CancelledNotRunning /\ PoppedNotRunning

(* A guarded write ends a task, or cancels it, only if it says so.           *)
LEMMA WrittenEnds ==
    ASSUME TypeOK, NEW id \in Ids, NEW s
    PROVE  \A j \in Ids :
              /\ j # id => Written(id, s)[j] = result[j]
              /\ s \notin TrulyTerminal =>
                    (Written(id, s)[j] \in TrulyTerminal => Ended(j))
              /\ s # "cancelled" =>
                    (Written(id, s)[j] = "cancelled" => result[j] = "cancelled")
  <1>1. Guarded(result[id], s) \in {result[id], s}
    BY DEF Guarded
  <1> QED
    BY <1>1 DEF Written, TypeOK, Ended

(* A running task is in no place of PENDING.                                 *)
LEMMA RunningIsNotQueued ==
    ASSUME TypeOK, SlotInv, OnceInv, NEW id \in Ids, IsRunning(id)
    PROVE  ~Queued(id) /\ \E w \in Workers : slot[w] = id
  <1>1. slot[running[id].worker] = id /\ running[id].worker \in Workers
    BY EntryType DEF SlotInv, RunningIsBusy
  <1> QED
    BY <1>1 DEF OnceInv, OnePlace, QueuedIsFree

LEMMA EndsElsewhere ==
    ASSUME CancelledNotRunning, phase' \notin {"drop", "assign"},
           \A id \in Ids : IsRunning(id)' =>
               IsRunning(id) /\ (result'[id] = "cancelled" => result[id] = "cancelled")
    PROVE  AssignsLive' /\ SurvivorsLive' /\ CancelledNotRunning'
  BY DEF AssignsLive, SurvivorsLive, CancelledNotRunning

LEMMA WithoutRuns ==
    ASSUME TypeOK, NEW id \in Ids, running' = Without(id)
    PROVE  \A a \in Ids : IsRunning(a)' => IsRunning(a) /\ a # id
  BY DEF IsRunning, Without, TypeOK

LEMMA HealthEnds ==
    ASSUME TypeOK, EndedInv, Health
    PROVE  EndedInv'
  <1>1. ASSUME NEW w \in Workers,
               ReapUntracked(w) \/ ReapFinished(w) \/ ReapFailed(w) \/ ReapRetry(w)
        PROVE  EndedInv'
    <2>1. /\ phase' = "health" /\ UNCHANGED cancel
          /\ UNCHANGED running \/ (slot[w] \in Ids /\ running' = Without(slot[w]))
          /\ \/ result' = result
             \/ /\ slot[w] \in Ids
                /\ \E s \in {"failed", "interrupted"} : result' = Written(slot[w], s)
      <3>1. CASE ReapUntracked(w)
        BY <3>1 DEF ReapUntracked, Reap, In
      <3>2. CASE ReapFinished(w)
        BY <3>2, ReapTaskType DEF ReapFinished, ReapTask, Reap, In
      <3>3. CASE ReapFailed(w)
        BY <3>3, ReapTaskType DEF ReapFailed, ReapTask, Reap, In
      <3>4. CASE ReapRetry(w)
        BY <3>4, ReapTaskType DEF ReapRetry, ReapTask, Reap, In
      <3> QED
        BY <1>1, <3>1, <3>2, <3>3, <3>4
    <2>2. \A a \in Ids : IsRunning(a)' => IsRunning(a)
      <3>1. CASE UNCHANGED running
        BY <3>1 DEF IsRunning
      <3>2. CASE slot[w] \in Ids /\ running' = Without(slot[w])
        BY <3>2, WithoutRuns
      <3> QED
        BY <2>1, <3>1, <3>2
    <2>3. \A a \in Ids : result'[a] = "cancelled" => result[a] = "cancelled"
      BY <2>1, WrittenEnds
    <2>4. PoppedNotRunning'
      <3>1. cancel.at # 0 => cancel.id \in Ids
        BY CancelType DEF NoCancel
      <3> QED
        BY <2>1, <2>2, <3>1 DEF EndedInv, PoppedNotRunning
    <2> QED
      BY <2>1, <2>2, <2>3, <2>4, EndsElsewhere DEF EndedInv
  <1>2. CASE HealthEnd
    <2>1. phase' = "drain" /\ UNCHANGED <<running, result, cancel>>
      BY <1>2 DEF HealthEnd, queueVars, fileVars
    <2> QED
      BY <2>1, EndsElsewhere DEF EndedInv, PoppedNotRunning, IsRunning
  <1>3. CASE CrashStorm
    <2>1. phase' = "drain" /\ UNCHANGED cancel /\ \A a \in Ids : ~IsRunning(a)'
      BY <1>3 DEF CrashStorm, IsRunning
    <2>2. PoppedNotRunning'
      <3>1. cancel.at # 0 => cancel.id \in Ids
        BY CancelType DEF NoCancel
      <3> QED
        BY <2>1, <3>1 DEF PoppedNotRunning
    <2> QED
      BY <2>1, <2>2, EndsElsewhere DEF EndedInv
  <1> QED
    BY <1>1, <1>2, <1>3 DEF Health

LEMMA TaskDoneEnds ==
    ASSUME TypeOK, EndedInv, NEW id \in Ids, NEW by, TaskDone(id, by)
    PROVE  EndedInv'
  <1>1. phase' = "drain" /\ UNCHANGED cancel /\ running' = Without(id)
    BY DEF TaskDone, In, loopVars
  <1>2. \A a \in Ids : a # id => result'[a] = result[a]
    BY DEF TaskDone, TypeOK
  <1>3. \A a \in Ids : IsRunning(a)' => IsRunning(a) /\ a # id
    BY <1>1, WithoutRuns
  <1>4. PoppedNotRunning'
    <2>1. cancel.at # 0 => cancel.id \in Ids
      BY CancelType DEF NoCancel
    <2> QED
      BY <1>1, <1>3, <2>1 DEF EndedInv, PoppedNotRunning
  <1> QED
    BY <1>1, <1>2, <1>3, <1>4, EndsElsewhere DEF EndedInv

LEMMA DrainEnds ==
    ASSUME TypeOK, SlotInv, OnceInv, EndedInv, Drain
    PROVE  EndedInv'
  <1>1. CASE DrainTaskDone
    BY <1>1, HeadType, TaskDoneEnds DEF DrainTaskDone
  <1>2. ASSUME NEW id \in Ids, DrainNotice(id)
        PROVE  EndedInv'
    BY <1>2, TaskDoneEnds DEF DrainNotice
  <1>3. CASE DrainReject \/ DrainSchedule
    <2>1. /\ phase' = "drain" /\ UNCHANGED <<running, cancel>>
          /\ Head(events).id \in Ids
          /\ \E s \in {"failed", "rejected_duplicate", "scheduled"} :
                result' = Written(Head(events).id, s)
      BY <1>3, HeadType DEF DrainReject, DrainSchedule, In, queueVars, loopVars
    <2>2. PICK s \in {"failed", "rejected_duplicate", "scheduled"} :
              result' = Written(Head(events).id, s)
      BY <2>1
    <2>3. \A a \in Ids : result'[a] = "cancelled" => result[a] = "cancelled"
      BY <2>1, <2>2, WrittenEnds
    <2> QED
      BY <2>1, <2>3, EndsElsewhere DEF EndedInv, PoppedNotRunning, IsRunning
  <1>4. CASE DrainCancel
    <2>1. /\ phase' = "drain" /\ UNCHANGED <<running, result>>
          /\ cancel'.id = Head(events).id /\ Head(events).id \in Ids
          /\ cancel'.at # 0 => Queued(Head(events).id)
      BY <1>4, HeadType DEF DrainCancel, CancelBegin, FirstAt, In, queueVars, fileVars, loopVars
    <2>2. PoppedNotRunning'
      BY <2>1, RunningIsNotQueued DEF PoppedNotRunning, IsRunning
    <2> QED
      BY <2>1, <2>2, EndsElsewhere DEF EndedInv, IsRunning
  <1>5. CASE DrainEnd
    <2>1. phase' = "timeouts" /\ UNCHANGED <<running, result, cancel>>
      BY <1>5 DEF DrainEnd, queueVars, fileVars
    <2> QED
      BY <2>1, EndsElsewhere DEF EndedInv, PoppedNotRunning, IsRunning
  <1> QED
    BY <1>1, <1>2, <1>3, <1>4, <1>5 DEF Drain

(* A cancel takes the task it cancels out of RUNNING, or found it elsewhere. *)
LEMMA CancelEnds ==
    ASSUME TypeOK, SlotInv, EndedInv, CancelStep
    PROVE  EndedInv'
  <1>1. /\ cancel # NoCancel /\ UNCHANGED phase
        /\ \/ result' = result
           \/ result' = Written(cancel.id, "cancelled")
        /\ cancel' = NoCancel \/ cancel'.at = 0
    <2>1. CASE CancelPending
      BY <2>1 DEF CancelPending, NoCancel, loopVars
    <2>2. ASSUME NEW w \in Workers, CancelRunning(w)
          PROVE  /\ cancel # NoCancel /\ UNCHANGED phase
                 /\ result' = Written(cancel.id, "cancelled")
                 /\ cancel'.at = 0
      BY <2>2, CancelType DEF CancelRunning, loopVars, Cancels
    <2>3. CASE CancelRespawn
      BY <2>3 DEF CancelRespawn, loopVars, fileVars
    <2>4. CASE CancelMiss
      BY <2>4 DEF CancelMiss, loopVars
    <2> QED
      BY <2>1, <2>2, <2>3, <2>4 DEF CancelStep
  <1>2. phase' \notin {"drop", "assign"} /\ cancel.id \in Ids
    BY <1>1, CancelType DEF SlotInv, CancelInv
  <1>3. PoppedNotRunning'
    BY <1>1 DEF PoppedNotRunning, NoCancel
  <1>4. \A a \in Ids : a # cancel.id => result'[a] = result[a]
    BY <1>1, <1>2, WrittenEnds
  <1>5. \A a \in Ids : IsRunning(a)' =>
            IsRunning(a) /\ (a # cancel.id \/ result' = result)
    <2>1. CASE CancelPending
      BY <2>1 DEF CancelPending, EndedInv, PoppedNotRunning, IsRunning
    <2>2. ASSUME NEW w \in Workers, CancelRunning(w)
          PROVE  \A a \in Ids : IsRunning(a)' => IsRunning(a) /\ a # cancel.id
      BY <1>2, <2>2, WithoutRuns DEF CancelRunning
    <2>3. CASE CancelRespawn
      BY <2>3 DEF CancelRespawn, fileVars, IsRunning
    <2>4. CASE CancelMiss
      <3>1. UNCHANGED running /\ (pool => \A w \in Workers : slot[w] # cancel.id)
        BY <2>4 DEF CancelMiss, queueVars
      <3>2. \A a \in Ids : IsRunning(a) => a # cancel.id
        BY <3>1, EntryType DEF SlotInv, RunningIsBusy
      <3> QED
        BY <3>1, <3>2 DEF IsRunning
    <2> QED
      BY <2>1, <2>2, <2>3, <2>4 DEF CancelStep
  <1> QED
    BY <1>2, <1>3, <1>4, <1>5, EndsElsewhere DEF EndedInv

LEMMA TimeoutsEndsTasks ==
    ASSUME TypeOK, SlotInv, EndedInv, Timeouts
    PROVE  EndedInv'
  <1>1. ASSUME UNCHANGED cancel, phase' \notin {"drop", "assign"},
               \A a \in Ids : IsRunning(a)' =>
                   IsRunning(a) /\ (result'[a] = "cancelled" => result[a] = "cancelled")
        PROVE  EndedInv'
    <2>1. cancel.at # 0 => cancel.id \in Ids
      BY CancelType DEF NoCancel
    <2> QED
      BY <1>1, <2>1, EndsElsewhere DEF EndedInv, PoppedNotRunning
  <1>2. ASSUME NEW id \in Ids, TimeoutPass(id)
        PROVE  EndedInv'
    BY <1>1, <1>2 DEF TimeoutPass, At, In, queueVars, fileVars, IsRunning
  <1>3. ASSUME NEW id \in Ids, TimeoutGrace(id)
        PROVE  EndedInv'
    <2>1. /\ phase = "timeouts" /\ phase' = phase /\ UNCHANGED <<cancel, result>>
          /\ IsRunning(id) /\ \A a \in Ids : a # id => running'[a] = running[a]
      BY <1>3 DEF TimeoutGrace, At, In, SlotInv, TodoInv, fileVars, TypeOK
    <2> QED
      BY <1>1, <2>1 DEF IsRunning
  <1>4. ASSUME NEW id \in Ids, TimeoutStop(id)
        PROVE  /\ phase' = "timeouts" /\ UNCHANGED cancel
               /\ \A a \in Ids : IsRunning(a)' => IsRunning(a) /\ a # id
    BY <1>4, WithoutRuns DEF TimeoutStop, At, In
  <1>5. ASSUME NEW id \in Ids, TimeoutFail(id)
        PROVE  EndedInv'
    <2>1. TimeoutStop(id) /\ result' = Written(id, "failed")
      BY <1>5 DEF TimeoutFail
    <2> QED
      BY <1>1, <1>4, <2>1, WrittenEnds
  <1>6. ASSUME NEW id \in Ids, NEW retry \in Ids, TimeoutRetry(id, retry)
        PROVE  EndedInv'
    <2>1. /\ TimeoutStop(id)
          /\ result' = [result EXCEPT ![retry] = Guarded(@, "scheduled"),
                                      ![id] = Guarded(result[id], "interrupted")]
      BY <1>6 DEF TimeoutRetry
    <2>2. \A a \in Ids : a # id => result'[a] \in {result[a], "scheduled"}
      BY <2>1 DEF TypeOK, Guarded
    <2> QED
      BY <1>1, <1>4, <2>1, <2>2
  <1>7. CASE TimeoutsEnd
    BY <1>1, <1>7 DEF TimeoutsEnd, queueVars, fileVars, IsRunning
  <1> QED
    BY <1>2, <1>3, <1>5, <1>6, <1>7 DEF Timeouts
LEMMA QueuedIds ==
    ASSUME NEW q \in Seq(Tasks)
    PROVE  \A i \in DOMAIN q : q[i].id \in Ids
  <1>1. \A i \in DOMAIN q : q[i] \in Tasks
    BY ElementOfSeq, LenProperties
  <1> QED
    BY <1>1 DEF Tasks

(* The drop loop drops what has ended, and what it keeps it has looked at.   *)
LEMMA DropStepEnds ==
    ASSUME TypeOK, SlotInv, OnceInv, EndedInv, DropStep
    PROVE  EndedInv'
  <1>1. /\ phase = "drop" /\ UNCHANGED <<phase, pending, running, cancel>>
        /\ sweep.at \in DOMAIN pending
    BY DEF DropStep, queueVars
  <1>2. /\ pending \in Seq(Tasks) /\ sweep.keep \in Seq(Tasks) /\ sweep.at \in Nat
        /\ sweep \in [at : Nat, keep : Seq(Tasks), dropped : BOOLEAN]
    BY DEF TypeOK
  <1>3. PICK t \in Tasks : t = pending[sweep.at]
    BY <1>1, <1>2, ElementOfSeq, LenProperties
  <1>4. t.id \in Ids /\ sweep.at # 0
    BY <1>1, <1>2, <1>3, LenProperties DEF Tasks
  <1>5. /\ \/ Lingering(t.id) /\ result' = Written(t.id, "cancelled")
           \/ ~Lingering(t.id) /\ result' = result
        /\ sweep' = IF Droppable(result[t.id])
                    THEN [sweep EXCEPT !.at = @ + 1, !.dropped = TRUE]
                    ELSE [sweep EXCEPT !.at = @ + 1, !.keep = Append(@, t)]
    BY <1>3 DEF DropStep
  <1>6. \A a \in Ids : a # t.id => result'[a] = result[a]
    BY <1>4, <1>5, WrittenEnds
  <1>7. ~Droppable(result[t.id]) => result' = result /\ ~Ended(t.id)
    BY <1>5 DEF Droppable, Lingering, Ended
  <1>8. \A a \in Ids : IsRunning(a) => a # t.id
    BY <1>1, <1>3, RunningIsNotQueued DEF Queued
  <1>9. CancelledNotRunning'
    BY <1>1, <1>6, <1>8 DEF EndedInv, CancelledNotRunning, IsRunning
  <1>10. PoppedNotRunning'
    <2>1. cancel = NoCancel
      BY <1>1 DEF SlotInv, CancelInv
    <2> QED
      BY <1>1, <2>1 DEF PoppedNotRunning, NoCancel
  <1>11. SurvivorsLive'
    <2>1. CASE Droppable(result[t.id])
      <3>1. sweep'.at = sweep.at + 1 /\ sweep'.dropped /\ sweep'.keep = sweep.keep
        BY <1>2, <1>5, <2>1
      <3>2. ASSUME NEW i \in DOMAIN sweep.keep
            PROVE  ~Ended(sweep.keep[i].id)'
        <4>1. ~Ended(sweep.keep[i].id) /\ sweep.keep[i].id \in Ids
          BY <1>1, <1>2, QueuedIds DEF EndedInv, SurvivorsLive
        <4>2. PICK j \in DOMAIN pending : sweep.keep[i] = pending[j] /\ j < sweep.at
          BY <1>1, <1>4 DEF OnceInv, KeepInv
        <4>3. j # sweep.at
          BY <1>2, <4>2, LenProperties
        <4>4. sweep.keep[i].id # t.id
          BY <1>1, <1>3, <4>2, <4>3 DEF OnceInv, OnePlace, Distinct
        <4>5. result'[sweep.keep[i].id] = result[sweep.keep[i].id]
          BY <1>6, <4>1, <4>4
        <4>6. sweep'.keep = sweep.keep
          BY <3>1
        <4> QED
          BY <4>1, <4>5, <4>6 DEF Ended
      <3> QED
        BY <3>1, <3>2 DEF SurvivorsLive, Ended
    <2>2. CASE ~Droppable(result[t.id])
      <3>1. /\ sweep'.at = sweep.at + 1 /\ sweep'.dropped = sweep.dropped
            /\ sweep'.keep = Append(sweep.keep, t)
        BY <1>2, <1>5, <2>2
      <3>2. \A i \in DOMAIN Append(sweep.keep, t) :
                \/ i \in DOMAIN sweep.keep /\ Append(sweep.keep, t)[i] = sweep.keep[i]
                \/ Append(sweep.keep, t)[i] = t
        BY <1>2, LongerEntries
      <3>3. \A i \in DOMAIN sweep'.keep : ~Ended(sweep'.keep[i].id)
        BY <1>1, <1>7, <2>2, <3>1, <3>2 DEF EndedInv, SurvivorsLive
      <3>4. ASSUME ~sweep.dropped, NEW j \in DOMAIN pending, j < sweep.at + 1
            PROVE  ~Ended(pending[j].id)
        <4>1. j < sweep.at \/ j = sweep.at
          BY <1>2, <3>4, LenProperties
        <4> QED
          BY <1>1, <1>3, <1>7, <2>2, <3>4, <4>1 DEF EndedInv, SurvivorsLive
      <3>5. sweep'.at # 0 /\ result' = result
        BY <1>2, <1>7, <2>2, <3>1
      <3> QED
        BY <1>1, <3>1, <3>3, <3>4, <3>5 DEF SurvivorsLive, Ended
    <2> QED
      BY <2>1, <2>2
  <1>12. AssignsLive'
    BY <1>1 DEF AssignsLive
  <1> QED
    BY <1>9, <1>10, <1>11, <1>12 DEF EndedInv

LEMMA AssignEnds ==
    ASSUME TypeOK, SlotInv, EndedInv, NEW w \in Workers, Assign(w)
    PROVE  EndedInv'
  <1>1. /\ phase = "assign" /\ UNCHANGED <<phase, cancel>>
        /\ pending # <<>> /\ pending \in Seq(Tasks) /\ pending' = Tail(pending)
    BY DEF Assign, loopVars, TypeOK
  <1>2. PICK t \in Tasks : t = Head(pending)
    BY <1>1, HeadTailProperties
  <1>3. /\ t.id \in Ids
        /\ \A a \in Ids : IsRunning(a)' => a = t.id \/ IsRunning(a)
        /\ result' = result \/ result' = Written(t.id, "running")
    BY <1>2 DEF Assign, Tasks, TypeOK, IsRunning
  <1>4. \A a \in Ids : /\ result'[a] = "cancelled" => result[a] = "cancelled"
                       /\ result'[a] \in TrulyTerminal => Ended(a)
    BY <1>3, WrittenEnds DEF Ended, TrulyTerminal
  <1>5. \A i \in DOMAIN pending : ~Ended(pending[i].id) /\ pending[i].id \in Ids
    BY <1>1, QueuedIds DEF EndedInv, AssignsLive
  <1>6. ~Ended(t.id)
    BY <1>1, <1>2, <1>5, TailEntries
  <1>7. AssignsLive'
    <2>1. \A i \in DOMAIN Tail(pending) :
              i + 1 \in DOMAIN pending /\ Tail(pending)[i] = pending[i + 1]
      BY <1>1, TailEntries
    <2> QED
      BY <1>1, <1>4, <1>5, <2>1 DEF AssignsLive, Ended
  <1>8. CancelledNotRunning'
    BY <1>3, <1>4, <1>6 DEF EndedInv, CancelledNotRunning, Ended, TrulyTerminal
  <1>9. PoppedNotRunning'
    <2>1. cancel = NoCancel
      BY <1>1 DEF SlotInv, CancelInv
    <2> QED
      BY <1>1, <2>1 DEF PoppedNotRunning, NoCancel
  <1>10. SurvivorsLive'
    BY <1>1 DEF SurvivorsLive
  <1> QED
    BY <1>7, <1>8, <1>9, <1>10 DEF EndedInv

LEMMA AssignTasksEnds ==
    ASSUME TypeOK, SlotInv, OnceInv, EndedInv, AssignTasks
    PROVE  EndedInv'
  <1>1. CASE AssignNothing \/ AssignEnd
    <2>1. phase' = "health" /\ UNCHANGED <<running, result, cancel>>
      BY <1>1 DEF AssignNothing, AssignEnd, queueVars, fileVars
    <2> QED
      BY <2>1, EndsElsewhere DEF EndedInv, PoppedNotRunning, IsRunning
  <1>2. CASE AssignBegin \/ DropDone \/ DropEnd
    <2>1. UNCHANGED <<running, result, cancel>> /\ pending \in Seq(Tasks)
      BY <1>2 DEF AssignBegin, DropDone, DropEnd, queueVars, fileVars, TypeOK
    <2>2. CancelledNotRunning' /\ PoppedNotRunning'
      BY <2>1 DEF EndedInv, CancelledNotRunning, PoppedNotRunning, IsRunning
    <2>3. DOMAIN pending = 1 .. Len(pending) /\ Len(pending) \in Nat
      BY <2>1, LenProperties
    <2>4. CASE AssignBegin
      <3>1. /\ phase' = "drop" /\ sweep' = [at |-> 1, keep |-> <<>>, dropped |-> FALSE]
            /\ pending' = pending
        BY <2>4 DEF AssignBegin, queueVars
      <3>2. DOMAIN <<>> = {}
        BY EmptySeq, LenProperties
      <3>3. AssignsLive' /\ SurvivorsLive'
        BY <2>3, <3>1, <3>2 DEF AssignsLive, SurvivorsLive
      <3> QED
        BY <2>2, <3>3 DEF EndedInv
    <2>5. CASE DropDone
      <3>1. /\ phase = "drop" /\ sweep.at > Len(pending) /\ sweep.at \in Nat
            /\ sweep'.keep = sweep.keep /\ sweep'.dropped = sweep.dropped
            /\ UNCHANGED <<phase, pending>>
        BY <2>5 DEF DropDone, queueVars, TypeOK
      <3>2. \A j \in DOMAIN pending : j < sweep.at
        BY <2>3, <3>1
      <3>3. AssignsLive' /\ SurvivorsLive'
        BY <2>1, <3>1, <3>2 DEF EndedInv, AssignsLive, SurvivorsLive, Ended
      <3> QED
        BY <2>2, <3>3 DEF EndedInv
    <2>6. CASE DropEnd
      <3>1. /\ phase = "drop" /\ sweep.at = 0 /\ phase' = "assign"
            /\ pending' = IF sweep.dropped THEN sweep.keep ELSE pending
        BY <2>6 DEF DropEnd
      <3>2. AssignsLive' /\ SurvivorsLive'
        BY <2>1, <3>1 DEF EndedInv, AssignsLive, SurvivorsLive, Ended
      <3> QED
        BY <2>2, <3>2 DEF EndedInv
    <2> QED
      BY <1>2, <2>4, <2>5, <2>6
  <1>3. CASE DropStep
    BY <1>3, DropStepEnds
  <1>4. CASE \E w \in Workers : Assign(w)
    BY <1>4, AssignEnds
  <1> QED
    BY <1>1, <1>2, <1>3, <1>4 DEF AssignTasks

LEMMA ProduceEnds ==
    ASSUME TypeOK, EndedInv, Produce
    PROVE  EndedInv'
  <1>1. PICK id \in Ids : CronDue(id) \/ OwnerQueues(id)
    BY DEF Produce
  <1>2. /\ phase' \in {"produce", "health"} /\ UNCHANGED <<running, cancel>>
        /\ result' = result \/ result' = Written(id, "scheduled")
    BY <1>1 DEF CronDue, OwnerQueues, In, loopVars, fileVars
  <1>3. \A a \in Ids : result'[a] = "cancelled" => result[a] = "cancelled"
    BY <1>2, WrittenEnds
  <1> QED
    BY <1>2, <1>3, EndsElsewhere DEF EndedInv, PoppedNotRunning, IsRunning

(* What is pending, or was kept of it, does not end while the loop stands.   *)
LEMMA QueuedEnds ==
    ASSUME TypeOK, OnceInv, EndedInv, UNCHANGED <<phase, pending, running, sweep, cancel>>,
           \A id \in Ids :
              /\ result'[id] = "cancelled" => result[id] = "cancelled"
              /\ Queued(id) /\ result'[id] \in TrulyTerminal => Ended(id)
    PROVE  EndedInv'
  <1>1. CancelledNotRunning' /\ PoppedNotRunning'
    BY DEF EndedInv, CancelledNotRunning, PoppedNotRunning, IsRunning
  <1>2. \A j \in DOMAIN pending : pending[j].id \in Ids /\ Queued(pending[j].id)
    BY QueuedIds DEF TypeOK, Queued
  <1>3. AssignsLive'
    BY <1>2 DEF EndedInv, AssignsLive, Ended
  <1>4. SurvivorsLive'
    <2>1. SUFFICES ASSUME phase = "drop"
                   PROVE  SurvivorsLive'
      BY DEF SurvivorsLive
    <2>2. \A i \in DOMAIN sweep.keep : \E j \in DOMAIN pending : sweep.keep[i] = pending[j]
      BY <2>1 DEF OnceInv, KeepInv
    <2>3. \A i \in DOMAIN sweep.keep :
              sweep.keep[i].id \in Ids /\ Queued(sweep.keep[i].id)
      BY <1>2, <2>2
    <2> QED
      BY <1>2, <2>1, <2>3 DEF EndedInv, SurvivorsLive, Ended
  <1> QED
    BY <1>1, <1>3, <1>4 DEF EndedInv

(* A worker ends only the task it holds, which is not pending.               *)
LEMMA WorkerEnds ==
    ASSUME TypeOK, OnceInv, EndedInv, NEW w \in Workers, Worker(w)
    PROVE  EndedInv'
  <1>1. UNCHANGED <<phase, pending, running, sweep, cancel>>
    BY DEF Worker, Take, Store, Emit, Break, Die, ScheduleSubagent, RequestCancel, WorkerOnly,
           queueVars, loopVars
  <1>2. ASSUME NEW id \in Ids, NEW s, s # "cancelled", result' = Written(id, s),
               s \notin TrulyTerminal \/ Holds(w, id)
        PROVE  EndedInv'
    <2>1. \A a \in Ids : result'[a] = "cancelled" => result[a] = "cancelled"
      BY <1>2, WrittenEnds
    <2>2. ASSUME NEW a \in Ids, Queued(a), result'[a] \in TrulyTerminal
          PROVE  Ended(a)
      <3>1. CASE s \notin TrulyTerminal
        BY <1>2, <2>2, <3>1, WrittenEnds
      <3>2. CASE Holds(w, id)
        <4>1. a # id
          BY <2>2, <3>2 DEF OnceInv, OnePlace, QueuedIsFree
        <4>2. result'[a] = result[a]
          BY <1>2, <4>1, WrittenEnds
        <4> QED
          BY <2>2, <4>2 DEF Ended
      <3> QED
        BY <1>2, <3>1, <3>2
    <2> QED
      BY <1>1, <2>1, <2>2, QueuedEnds
  <1>3. ASSUME result' = result
        PROVE  EndedInv'
    BY <1>1, <1>3, QueuedEnds DEF Ended
  <1>4. CASE Take(w)
    <2>1. PICK t \in Tasks : t = Head(proc[w].inbox)
      BY <1>4, HeadTailProperties DEF Take, TypeOK, Processes
    <2>2. t.id \in Ids /\ "running" \notin TrulyTerminal
      BY DEF Tasks, TrulyTerminal
    <2>3. UNCHANGED result \/ result' = Written(t.id, "running")
      BY <1>4, <2>1 DEF Take, Report
    <2> QED
      BY <1>2, <1>3, <2>2, <2>3
  <1>5. ASSUME NEW s \in {"completed", "failed"}, Store(w, s)
        PROVE  EndedInv'
    <2>1. proc[w].does.task.id \in Ids /\ Holds(w, proc[w].does.task.id)
      BY <1>5, DoesType DEF Store, Working, Up, Holds
    <2>2. UNCHANGED result \/ result' = Written(proc[w].does.task.id, s)
      BY <1>5 DEF Store, Report
    <2> QED
      BY <1>2, <1>3, <2>1, <2>2
  <1>6. ASSUME NEW id \in Ids, ScheduleSubagent(w, id)
        PROVE  EndedInv'
    <2>1. result' = Written(id, "requested") /\ "requested" \notin TrulyTerminal
      BY <1>6 DEF ScheduleSubagent, TrulyTerminal
    <2> QED
      BY <1>2, <2>1
  <1>7. ASSUME NEW id \in Ids, RequestCancel(w, id)
        PROVE  EndedInv'
    <2>1. result' = Written(id, "cancel_requested") /\ "cancel_requested" \notin TrulyTerminal
      BY <1>7 DEF RequestCancel, TrulyTerminal
    <2> QED
      BY <1>2, <2>1
  <1>8. CASE Emit(w) \/ Break(w) \/ \E how \in {"exited", "signalled"} : Die(w, how)
    BY <1>3, <1>8 DEF Emit, Break, Die
  <1> QED
    BY <1>4, <1>5, <1>6, <1>7, <1>8 DEF Worker

LEMMA InitEnds == Init => EndedInv
  BY DEF Init, EndedInv, AssignsLive, SurvivorsLive, CancelledNotRunning, PoppedNotRunning,
         IsRunning, NoCancel
-----------------------------------------------------------------------------
(* A task that is nowhere, not asked for and not the one being cancelled     *)
(* keeps the result it has, or a cancel is requested of it.                  *)
LEMMA NowhereStands ==
    ASSUME TypeOK, SlotInv, NEW id \in Ids, Nowhere(id), ~Requested(id),
           result[id] # NoResult, cancel # NoCancel => cancel.id # id, [Next]_vars
    PROVE  result'[id] \in {result[id], "cancel_requested"}
  <1>1. ~IsRunning(id)
    BY EntryType DEF SlotInv, RunningIsBusy, Nowhere
  <1>2. ASSUME NEW i \in Ids, i # id, NEW s, result' = Written(i, s)
        PROVE  result'[id] = result[id]
    BY <1>2 DEF Written, TypeOK
  <1>3. ASSUME Health
        PROVE  result'[id] = result[id]
    <2>1. ASSUME NEW w \in Workers, ReapTask(w)
          PROVE  slot[w] \in Ids /\ slot[w] # id
      BY <2>1, ReapTaskType DEF Nowhere
    <2>2. ASSUME NEW w \in Workers, ReapFailed(w) \/ ReapRetry(w)
          PROVE  result'[id] = result[id]
      <3>1. /\ ReapTask(w)
            /\ \E s \in {"failed", "interrupted"} : result' = Written(slot[w], s)
        BY <2>2 DEF ReapFailed, ReapRetry
      <3> QED
        BY <1>2, <2>1, <3>1
    <2>3. CASE CrashStorm
      BY <1>1, <2>3 DEF CrashStorm, Nowhere
    <2> QED
      BY <1>3, <2>2, <2>3 DEF Health, ReapUntracked, ReapFinished, HealthEnd, fileVars
  <1>4. ASSUME Drain
        PROVE  result'[id] = result[id]
    <2>1. ASSUME NEW i \in Ids, NEW by, TaskDone(i, by)
          PROVE  result'[id] = result[id]
      <3>1. CASE i = id
        <4>1. result' = [result EXCEPT ![id] =
                            IF result[id] = NoResult THEN "failed" ELSE result[id]]
          BY <1>1, <2>1, <3>1 DEF TaskDone
        <4> QED
          BY <4>1 DEF TypeOK
      <3>2. CASE i # id
        BY <2>1, <3>2 DEF TaskDone, TypeOK
      <3> QED
        BY <3>1, <3>2
    <2>2. CASE DrainTaskDone
      BY <2>1, <2>2, HeadType DEF DrainTaskDone
    <2>3. ASSUME NEW i \in Ids, DrainNotice(i)
          PROVE  result'[id] = result[id]
      BY <2>1, <2>3 DEF DrainNotice
    <2>4. CASE DrainReject \/ DrainSchedule
      <3>1. /\ events # <<>> /\ events \in Seq(Events) /\ Schedule(Head(events))
            /\ Head(events).id \in Ids
            /\ \E s \in {"failed", "rejected_duplicate", "scheduled"} :
                  result' = Written(Head(events).id, s)
        BY <2>4, HeadType DEF DrainReject, DrainSchedule, Schedule, TypeOK
      <3>2. Head(events).id # id
        BY <3>1, TailEntries DEF Requested
      <3> QED
        BY <1>2, <3>1, <3>2
    <2>5. CASE DrainCancel \/ DrainEnd
      BY <2>5 DEF DrainCancel, CancelBegin, DrainEnd, fileVars
    <2> QED
      BY <1>4, <2>2, <2>3, <2>4, <2>5 DEF Drain
  <1>5. ASSUME CancelStep
        PROVE  result'[id] = result[id]
    <2>1. /\ cancel # NoCancel
          /\ result' = result \/ result' = Written(cancel.id, "cancelled")
      <3>1. CASE CancelPending
        BY <3>1 DEF CancelPending, NoCancel
      <3>2. CASE CancelRespawn \/ CancelMiss
        BY <3>2 DEF CancelRespawn, CancelMiss, fileVars
      <3> QED
        BY <1>5, <3>1, <3>2 DEF CancelStep, CancelRunning
    <2> QED
      BY <1>2, <2>1, CancelType
  <1>6. ASSUME Timeouts
        PROVE  result'[id] = result[id]
    <2>1. ASSUME NEW i \in Ids, TimeoutStop(i)
          PROVE  i # id
      BY <1>1, <2>1 DEF TimeoutStop, At, In, SlotInv, TodoInv
    <2>2. ASSUME NEW i \in Ids, TimeoutFail(i)
          PROVE  result'[id] = result[id]
      BY <1>2, <2>1, <2>2 DEF TimeoutFail
    <2>3. ASSUME NEW i \in Ids, NEW retry \in Ids, TimeoutRetry(i, retry)
          PROVE  result'[id] = result[id]
      <3>1. /\ i # id /\ retry # id
            /\ result' = [result EXCEPT ![retry] = Guarded(@, "scheduled"),
                                        ![i] = Guarded(result[i], "interrupted")]
        BY <2>1, <2>3 DEF TimeoutRetry
      <3> QED
        BY <3>1 DEF TypeOK
    <2> QED
      BY <1>6, <2>2, <2>3 DEF Timeouts, TimeoutPass, TimeoutGrace, TimeoutsEnd, fileVars
  <1>7. ASSUME AssignTasks
        PROVE  result'[id] = result[id]
    <2>1. \A i \in DOMAIN pending : pending[i].id # id /\ pending[i].id \in Ids
      BY QueuedIds DEF Nowhere, Queued, TypeOK
    <2>2. CASE DropStep
      <3>1. /\ sweep.at \in DOMAIN pending
            /\ \/ result' = result
               \/ result' = Written(pending[sweep.at].id, "cancelled")
        BY <2>2 DEF DropStep
      <3> QED
        BY <1>2, <2>1, <3>1
    <2>3. ASSUME NEW w \in Workers, Assign(w)
          PROVE  result'[id] = result[id]
      <3>1. /\ pending # <<>> /\ pending \in Seq(Tasks)
            /\ result' = result \/ result' = Written(Head(pending).id, "running")
        BY <2>3 DEF Assign, TypeOK
      <3>2. Head(pending) = pending[1] /\ 1 \in DOMAIN pending
        BY <3>1, TailEntries
      <3> QED
        BY <1>2, <2>1, <3>1, <3>2
    <2> QED
      BY <1>7, <2>2, <2>3 DEF AssignTasks, AssignNothing, AssignBegin, DropDone, DropEnd,
                              AssignEnd, fileVars
  <1>8. ASSUME Produce \/ Http
        PROVE  result'[id] = result[id]
    <2>1. ASSUME NEW i \in Ids, CronDue(i) \/ HttpCreate(i)
          PROVE  result'[id] = result[id]
      BY <1>2, <2>1 DEF CronDue, HttpCreate
    <2> QED
      BY <1>8, <2>1 DEF Produce, OwnerQueues, Http, HttpCancel, CancelBegin, HttpEnqueue,
                        fileVars
  <1>9. ASSUME NEW w \in Workers, Worker(w)
        PROVE  result'[id] \in {result[id], "cancel_requested"}
    <2>1. ASSUME NEW t, NEW s, t.id \in Ids, Holds(w, t.id), Report(t, s)
          PROVE  result'[id] = result[id]
      BY <1>2, <2>1 DEF Report, Nowhere
    <2>2. CASE Take(w)
      <3>1. proc[w] \in Processes
        BY DEF TypeOK
      <3>2. PICK q \in Seq(Tasks) : q = proc[w].inbox /\ q # <<>>
        BY <2>2, <3>1, ProcessType DEF Take
      <3>3. Head(q) = q[1] /\ 1 \in DOMAIN q
        BY <3>2, TailEntries
      <3>4. Head(q).id \in Ids
        BY <3>3, QueuedIds
      <3>5. Holds(w, Head(q).id)
        BY <2>2, <3>2, <3>3 DEF Take, Holds
      <3>6. Report(Head(q), "running")
        BY <2>2, <3>2 DEF Take
      <3> QED
        BY <2>1, <3>4, <3>5, <3>6
    <2>3. ASSUME NEW s \in {"completed", "failed"}, Store(w, s)
          PROVE  result'[id] = result[id]
      <3>1. /\ proc[w].does.task.id \in Ids /\ Holds(w, proc[w].does.task.id)
            /\ Report(proc[w].does.task, s)
        BY <2>3, DoesType DEF Store, Working, Up, Holds
      <3> QED
        BY <2>1, <3>1
    <2>4. ASSUME NEW i \in Ids, ScheduleSubagent(w, i)
          PROVE  result'[id] = result[id]
      BY <1>2, <2>4 DEF ScheduleSubagent
    <2>5. ASSUME NEW i \in Ids, RequestCancel(w, i)
          PROVE  result'[id] \in {result[id], "cancel_requested"}
      BY <2>5 DEF RequestCancel, Written, Guarded, TypeOK
    <2> QED
      BY <1>9, <2>2, <2>3, <2>4, <2>5 DEF Worker, Emit, Break, Die
  <1>10. CASE BudgetExhausted \/ UNCHANGED vars
    BY <1>10 DEF BudgetExhausted, vars, fileVars
  <1> QED
    BY <1>3, <1>4, <1>5, <1>6, <1>7, <1>8, <1>9, <1>10 DEF Next, MainLoop

(* Only agents cancel, and they cancel no posted task: one that is cancelled *)
(* between its result and its enqueue enters PENDING after it ended, maybe   *)
(* after the drop loop has passed.                                           *)
PostedStands == PostedLast /\ HttpIds \cap AgentCancels = {}

AgentsCancel ==
    /\ \A i \in DOMAIN events :
          events[i].kind = "cancel" => events[i].id \in AgentCancels
    /\ cancel # NoCancel => cancel.id \in AgentCancels

LEMMA InitCancels == Init => AgentsCancel
  <1>1. DOMAIN <<>> = {}
    BY EmptySeq, LenProperties
  <1> QED
    BY <1>1 DEF Init, AgentsCancel

LEMMA FewerCancels ==
    ASSUME TypeOK, AgentsCancel,
           \/ UNCHANGED cancel
           \/ cancel' = NoCancel
           \/ cancel # NoCancel /\ cancel'.id = cancel.id,
           \/ UNCHANGED events
           \/ events # <<>> /\ events' = Tail(events)
    PROVE  AgentsCancel'
  <1>1. (cancel # NoCancel => cancel.id \in AgentCancels)'
    BY DEF AgentsCancel
  <1>2. CASE UNCHANGED events
    BY <1>1, <1>2 DEF AgentsCancel
  <1>3. CASE events # <<>> /\ events' = Tail(events)
    <2>1. \A i \in DOMAIN Tail(events) :
              Tail(events)[i] = events[i + 1] /\ i + 1 \in DOMAIN events
      BY <1>3, TailEntries DEF TypeOK
    <2> QED
      BY <1>1, <1>3, <2>1 DEF AgentsCancel
  <1> QED
    BY <1>2, <1>3

LEMMA OneMoreCancel ==
    ASSUME TypeOK, AgentsCancel, UNCHANGED cancel,
           NEW e \in Events, events' = Append(events, e),
           e.kind = "cancel" => e.id \in AgentCancels
    PROVE  AgentsCancel'
  <1>1. \A i \in DOMAIN events' :
            \/ i \in DOMAIN events /\ events'[i] = events[i]
            \/ events'[i] = e
    BY LongerEntries DEF TypeOK
  <1> QED
    BY <1>1 DEF AgentsCancel

LEMMA StepCancels ==
    ASSUME HttpCancels = {}, TypeOK, AgentsCancel, [Next]_vars
    PROVE  AgentsCancel'
  <1>1. CASE Health
    <2>1. UNCHANGED <<cancel, events>>
      BY <1>1 DEF Health, ReapUntracked, ReapFinished, ReapFailed, ReapRetry, ReapTask,
                  Reap, HealthEnd, CrashStorm, eventVars
    <2> QED
      BY <2>1, FewerCancels
  <1>2. CASE DrainTaskDone \/ DrainReject \/ DrainSchedule
    <2>1. UNCHANGED cancel /\ events # <<>> /\ events' = Tail(events)
      BY <1>2 DEF DrainTaskDone, TaskDone, DrainReject, DrainSchedule
    <2> QED
      BY <2>1, FewerCancels
  <1>3. CASE DrainEnd \/ \E id \in Ids : DrainNotice(id)
    <2>1. UNCHANGED <<cancel, events>>
      BY <1>3 DEF DrainEnd, DrainNotice, TaskDone, eventVars
    <2> QED
      BY <2>1, FewerCancels
  <1>4. CASE DrainCancel
    <2>1. /\ events # <<>> /\ Head(events).kind = "cancel" /\ events' = Tail(events)
          /\ cancel'.id = Head(events).id
      BY <1>4 DEF DrainCancel, CancelBegin
    <2>2. events \in Seq(Events)
      BY DEF TypeOK
    <2>3. /\ Head(events) = events[1] /\ 1 \in DOMAIN events
          /\ \A i \in DOMAIN Tail(events) :
                Tail(events)[i] = events[i + 1] /\ i + 1 \in DOMAIN events
      BY <2>1, <2>2, TailEntries
    <2> QED
      BY <2>1, <2>3 DEF AgentsCancel
  <1>5. CASE CancelStep
    <2>1. CASE CancelPending \/ CancelRespawn \/ CancelMiss
      <3>1. cancel' = NoCancel /\ UNCHANGED events
        BY <2>1 DEF CancelPending, CancelRespawn, CancelMiss, eventVars
      <3> QED
        BY <3>1, FewerCancels
    <2>2. ASSUME NEW w \in Workers, CancelRunning(w)
          PROVE  AgentsCancel'
      <3>1. /\ cancel # NoCancel /\ UNCHANGED events
            /\ cancel' = [cancel EXCEPT !.worker = w]
        BY <2>2 DEF CancelRunning
      <3>2. cancel'.id = cancel.id
        BY <3>1, CancelType
      <3> QED
        BY <3>1, <3>2, FewerCancels
    <2> QED
      BY <1>5, <2>1, <2>2 DEF CancelStep
  <1>6. CASE Timeouts
    <2>1. UNCHANGED <<cancel, events>>
      BY <1>6 DEF Timeouts, TimeoutPass, TimeoutGrace, TimeoutFail, TimeoutRetry,
                  TimeoutStop, TimeoutsEnd, eventVars
    <2> QED
      BY <2>1, FewerCancels
  <1>7. CASE AssignTasks
    <2>1. UNCHANGED <<cancel, events>>
      BY <1>7 DEF AssignTasks, AssignNothing, AssignBegin, DropStep, DropDone, DropEnd,
                  Assign, AssignEnd, eventVars
    <2> QED
      BY <2>1, FewerCancels
  <1>8. CASE Produce \/ Http
    <2>1. UNCHANGED <<cancel, events>>
      BY <1>8 DEF Produce, CronDue, OwnerQueues, Http, HttpCreate, HttpCancel,
                  HttpEnqueue, eventVars
    <2> QED
      BY <2>1, FewerCancels
  <1>9. ASSUME NEW w \in Workers, Worker(w)
        PROVE  AgentsCancel'
    <2>1. UNCHANGED cancel
      BY <1>9 DEF Worker, Take, Store, Emit, Break, Die, ScheduleSubagent, RequestCancel,
                  WorkerOnly
    <2>2. CASE Emit(w)
      <3> DEFINE e == [kind |-> "task_done", by |-> w, id |-> proc[w].does.task.id]
      <3>1. e \in Events /\ e.kind # "cancel" /\ events' = Append(events, e)
        BY <2>2, DoesType DEF Emit, Events
      <3> HIDE DEF e
      <3> QED
        BY <2>1, <3>1, OneMoreCancel
    <2>3. ASSUME NEW id \in Ids, ScheduleSubagent(w, id)
          PROVE  AgentsCancel'
      <3> DEFINE e == [kind |-> "schedule", id |-> id, by |-> w]
      <3>1. e \in Events /\ e.kind # "cancel" /\ events' = Append(events, e)
        BY <2>3 DEF ScheduleSubagent, Events
      <3> HIDE DEF e
      <3> QED
        BY <2>1, <3>1, OneMoreCancel
    <2>4. ASSUME NEW id \in Ids, RequestCancel(w, id)
          PROVE  AgentsCancel'
      <3> DEFINE e == [kind |-> "cancel", id |-> id, by |-> w]
      <3>1. e \in Events /\ e.id \in AgentCancels /\ events' = Append(events, e)
        BY <2>4 DEF RequestCancel, Events
      <3> HIDE DEF e
      <3> QED
        BY <2>1, <3>1, OneMoreCancel
    <2>5. CASE \/ Take(w) \/ Break(w)
               \/ \E s \in {"completed", "failed"} : Store(w, s)
               \/ \E how \in {"exited", "signalled"} : Die(w, how)
      <3>1. UNCHANGED events
        BY <2>5 DEF Take, Break, Store, Die
      <3> QED
        BY <2>1, <3>1, FewerCancels
    <2> QED
      BY <1>9, <2>2, <2>3, <2>4, <2>5 DEF Worker
  <1>10. CASE BudgetExhausted \/ UNCHANGED vars
    <2>1. UNCHANGED <<cancel, events>>
      BY <1>10 DEF BudgetExhausted, vars, eventVars
    <2> QED
      BY <2>1, FewerCancels
  <1> QED
    BY <1>1, <1>2, <1>3, <1>4, <1>5, <1>6, <1>7, <1>8, <1>9, <1>10
    DEF Next, MainLoop, Drain

(* So a posted task has not ended when it is queued.                         *)
PostedLives == \A id \in Ids : id = http => ~Ended(id)
LivesInv == AgentsCancel /\ PostedLives

LEMMA StepLives ==
    ASSUME PostedStands, TypeOK, SlotInv, OnceInv, LivesInv, [Next]_vars
    PROVE  LivesInv'
  <1>1. PostedLast /\ HttpCancels = {}
    BY DEF PostedStands, PostedLast
  <1>2. AgentsCancel'
    BY <1>1, StepCancels DEF LivesInv
  <1>3. ASSUME NEW id \in Ids, id = http, http' = http
        PROVE  PostedLives'
    <2>1. /\ id \in HttpIds /\ result[id] # NoResult /\ Nowhere(id) /\ ~Ended(id)
      BY <1>3, TaskQueueAssumption
      DEF OnceInv, FreshInv, PostedIsFresh, LivesInv, PostedLives
    <2>2. ~Requested(id)
      BY <1>1, <2>1, TaskQueueAssumption
      DEF OnceInv, FreshInv, RequestedAreFresh, PostedLast
    <2>3. cancel # NoCancel => cancel.id # id
      BY <2>1 DEF LivesInv, AgentsCancel, PostedStands
    <2>4. result'[id] \in {result[id], "cancel_requested"}
      BY <2>1, <2>2, <2>3, NowhereStands
    <2> QED
      BY <1>3, <2>1, <2>4 DEF PostedLives, Ended, TrulyTerminal
  <1>4. ASSUME Http
        PROVE  PostedLives'
    <2>1. ASSUME NEW id \in Ids, HttpCreate(id)
          PROVE  PostedLives'
      <3>1. http' = id /\ result' = Written(id, "scheduled") /\ ~Ended(id)
        BY <2>1 DEF HttpCreate, Ended, NoResult, TrulyTerminal
      <3>2. result'[id] \notin TrulyTerminal
        BY <3>1, WrittenEnds DEF TrulyTerminal
      <3> QED
        BY <3>1, <3>2 DEF PostedLives, Ended
    <2>2. CASE HttpEnqueue
      <3>1. http' = None
        BY <2>2 DEF HttpEnqueue
      <3> QED
        BY <3>1, TaskQueueAssumption DEF PostedLives
    <2>3. ASSUME NEW id \in Ids, HttpCancel(id)
          PROVE  FALSE
      BY <1>1, <2>3 DEF HttpCancel
    <2> QED
      BY <1>4, <2>1, <2>2, <2>3 DEF Http
  <1>5. ASSUME ~Http
        PROVE  PostedLives'
    <2>1. http' = http /\ http \in Ids \cup {None}
      BY <1>5, OnlyHttpPosts DEF TypeOK
    <2>2. CASE http = None
      <3>1. http' = None
        BY <2>1, <2>2
      <3> QED
        BY <3>1, TaskQueueAssumption DEF PostedLives
    <2>3. CASE http \in Ids
      BY <1>3, <2>1, <2>3
    <2> QED
      BY <2>1, <2>2, <2>3
  <1> QED
    BY <1>2, <1>4, <1>5 DEF LivesInv

LEMMA LivesInvariant ==
    ASSUME PostedStands
    PROVE  Spec => []LivesInv
  <1>1. PostedLast /\ HttpCancels = {}
    BY DEF PostedStands, PostedLast
  <1>2. Spec => []SlotInv
    BY <1>1, SlotInvariant
  <1>3. Spec => []OnceInv
    BY <1>1, OnceInvariant
  <1>4. Init => LivesInv
    BY InitCancels, TaskQueueAssumption DEF Init, LivesInv, PostedLives
  <1>5. QueueInv /\ SlotInv /\ OnceInv /\ LivesInv /\ [Next]_vars => LivesInv'
    BY StepLives DEF QueueInv
  <1>6. QED
    BY <1>2, <1>3, <1>4, <1>5, QueueInvariant, PTL DEF Spec

LEMMA HttpEnds ==
    ASSUME PostedLast, TypeOK, OnceInv, EndedInv, PostedLives, Http
    PROVE  EndedInv'
  <1>1. UNCHANGED <<phase, running, sweep, cancel>>
    BY DEF Http, HttpCreate, HttpCancel, HttpEnqueue, PostedLast, queueVars, loopVars
  <1>2. ASSUME NEW id \in Ids, HttpCreate(id)
        PROVE  EndedInv'
    <2>1. UNCHANGED pending /\ result' = Written(id, "scheduled")
      BY <1>2 DEF HttpCreate, queueVars
    <2>2. "scheduled" \notin TrulyTerminal /\ "scheduled" # "cancelled"
      BY DEF TrulyTerminal
    <2> QED
      BY <1>1, <2>1, <2>2, WrittenEnds, QueuedEnds
  <1>3. CASE HttpEnqueue
    <2>1. PICK t \in Tasks : /\ t.id = http /\ t.origin = http
                             /\ pending' = Enqueued(pending, t, FALSE)
      <3>1. http \in Ids
        BY <1>3 DEF HttpEnqueue, TypeOK
      <3> QED
        BY <1>3, <3>1, NewType DEF HttpEnqueue, New
    <2>2. UNCHANGED result /\ ~Ended(t.id)
      <3>1. t.id \in Ids
        BY <2>1 DEF Tasks
      <3> QED
        BY <1>3, <2>1, <3>1 DEF HttpEnqueue, PostedLives, fileVars
    <2>3. CancelledNotRunning' /\ PoppedNotRunning'
      BY <1>1, <2>2 DEF EndedInv, CancelledNotRunning, PoppedNotRunning, IsRunning
    <2>4. \A k \in DOMAIN pending' :
              \/ k \in DOMAIN pending /\ pending'[k] = pending[k]
              \/ pending'[k] = t
      <3>1. pending \in Seq(Tasks) /\ \A id \in Ids : Priority[id] <= Priority[t.origin]
        BY <1>3, <2>1 DEF TypeOK, OnceInv, FreshInv, PostedIsFresh, HttpEnqueue, PostedLast
      <3> QED
        BY <2>1, <3>1, EnqueuedLast
    <2>5. AssignsLive'
      BY <1>1, <2>2, <2>4 DEF EndedInv, AssignsLive, Ended
    <2>6. SurvivorsLive'
      BY <1>1, <2>2, <2>4 DEF EndedInv, SurvivorsLive, Ended
    <2> QED
      BY <2>3, <2>5, <2>6 DEF EndedInv
  <1> QED
    BY <1>2, <1>3 DEF Http, HttpCancel, PostedLast

LEMMA StepEnds ==
    ASSUME PostedStands, TypeOK, LockInv, SlotInv, OnceInv, LivesInv, EndedInv, [Next]_vars
    PROVE  EndedInv'
  <1>1. CASE Http
    BY <1>1, HttpEnds DEF PostedStands, LivesInv
  <1>2. CASE BudgetExhausted \/ UNCHANGED vars
    <2>1. UNCHANGED <<phase, pending, running, sweep, cancel, result>>
      BY <1>2 DEF BudgetExhausted, vars, queueVars, fileVars, loopVars
    <2> QED
      BY <2>1, QueuedEnds DEF Ended
  <1> QED
    BY <1>1, <1>2, HealthEnds, DrainEnds, CancelEnds, TimeoutsEndsTasks, AssignTasksEnds,
       ProduceEnds, WorkerEnds
    DEF Next, MainLoop

LEMMA EndedInvariant ==
    ASSUME PostedStands
    PROVE  Spec => []EndedInv
  <1>1. PostedLast /\ HttpCancels = {}
    BY DEF PostedStands, PostedLast
  <1>2. Spec => []SlotInv
    BY <1>1, SlotInvariant
  <1>3. Spec => []OnceInv
    BY <1>1, OnceInvariant
  <1>4. Spec => []LivesInv
    BY LivesInvariant
  <1>5. QueueInv /\ SlotInv /\ OnceInv /\ LivesInv /\ EndedInv /\ [Next]_vars => EndedInv'
    BY StepEnds DEF QueueInv
  <1>6. QED
    BY <1>2, <1>3, <1>4, <1>5, InitEnds, QueueInvariant, PTL DEF Spec

(* Only assign_tasks makes a slot busy.                                      *)
LEMMA OnlyAssigned ==
    ASSUME TypeOK, [Next]_vars, NEW w \in Workers, slot'[w] \notin {slot[w], None}
    PROVE  Assign(w)
  <1>1. ~Health
    <2>1. \A v \in Workers : ~Reap(v)
      BY DEF Reap, TypeOK
    <2> QED
      BY <2>1 DEF Health, ReapUntracked, ReapFinished, ReapFailed, ReapRetry, ReapTask,
                  HealthEnd, CrashStorm, queueVars
  <1>2. ~Drain
    <2>1. \A id, by : ~TaskDone(id, by)
      BY DEF TaskDone
    <2> QED
      BY <2>1 DEF Drain, DrainTaskDone, DrainNotice, DrainReject, DrainSchedule, DrainCancel,
                  CancelBegin, DrainEnd, queueVars
  <1>3. ~Timeouts
    <2>1. \A id \in Ids : ~TimeoutStop(id)
      BY DEF TimeoutStop, TypeOK
    <2> QED
      BY <2>1 DEF Timeouts, TimeoutPass, TimeoutGrace, TimeoutFail, TimeoutRetry, TimeoutsEnd,
                  queueVars
  <1>4. AssignTasks => Assign(w)
    BY DEF AssignTasks, AssignNothing, AssignBegin, DropStep, DropDone, DropEnd, Assign,
           AssignEnd, queueVars, TypeOK
  <1>5. ~(Produce \/ CancelStep \/ BudgetExhausted \/ Http)
    <2>1. ~CancelRespawn
      BY DEF CancelRespawn, TypeOK
    <2> QED
      BY <2>1 DEF Produce, CronDue, OwnerQueues, CancelStep, CancelPending, CancelRunning,
                  CancelMiss, BudgetExhausted, Http, HttpCreate, HttpCancel, CancelBegin,
                  HttpEnqueue, queueVars
  <1>6. \A v \in Workers : ~Worker(v)
    BY DEF Worker, Take, Store, Emit, Break, Die, ScheduleSubagent, RequestCancel, WorkerOnly,
           queueVars
  <1>7. ~UNCHANGED vars
    BY DEF vars, queueVars
  <1> QED
    BY <1>1, <1>2, <1>3, <1>4, <1>5, <1>6, <1>7 DEF Next, MainLoop

LEMMA AssignsWhatLives ==
    ASSUME TypeOK, EndedInv, NEW w \in Workers, Assign(w)
    PROVE  ~Ended(slot'[w])
  <1>1. pending # <<>> /\ pending \in Seq(Tasks) /\ slot'[w] = Head(pending).id
    BY DEF Assign, TypeOK
  <1>2. 1 \in DOMAIN pending /\ Head(pending) = pending[1]
    BY <1>1, TailEntries
  <1> QED
    BY <1>1, <1>2 DEF Assign, EndedInv, AssignsLive

(* A terminal task is never handed to a worker, whatever ends it between its *)
(* enqueue and the drop loop.                                                *)
THEOREM TerminalNeverAssigned ==
    ASSUME PostedStands
    PROVE  Spec => TerminalNeverStarts
  <1>1. ASSUME QueueInv, EndedInv, [Next]_vars,
               NEW id \in Ids, NEW w \in Workers, slot[w] # id, slot'[w] = id
        PROVE  result[id] \notin TrulyTerminal
    <2>1. id # None
      BY TaskQueueAssumption
    <2>2. Assign(w)
      BY <1>1, <2>1, OnlyAssigned DEF QueueInv
    <2> QED
      BY <1>1, <2>2, AssignsWhatLives DEF Ended, QueueInv
  <1>2. QueueInv /\ EndedInv /\ [Next]_vars =>
            [\A id \in Ids, w \in Workers :
                slot[w] # id /\ slot'[w] = id => result[id] \notin TrulyTerminal]_vars
    BY <1>1
  <1>3. Spec => []EndedInv
    BY EndedInvariant
  <1>4. QED
    BY <1>2, <1>3, QueueInvariant, PTL DEF Spec, TerminalNeverStarts

(* Only a timeout names a successor, of a task that is in RUNNING.           *)
LEMMA OnlyRetried ==
    ASSUME TypeOK, SlotInv, [Next]_vars, NEW id \in Ids, successor'[id] # successor[id]
    PROVE  IsRunning(id)
  <1>1. ~Health
    BY DEF Health, ReapUntracked, ReapFinished, ReapFailed, ReapRetry, ReapTask, Reap,
           HealthEnd, CrashStorm, fileVars
  <1>2. ~Drain
    BY DEF Drain, DrainTaskDone, DrainNotice, TaskDone, DrainReject, DrainSchedule,
           DrainCancel, CancelBegin, DrainEnd, fileVars
  <1>3. ASSUME Timeouts
        PROVE  At(id)
    <2>1. PICK i \in Ids, retry \in Ids : TimeoutRetry(i, retry)
      BY <1>3 DEF Timeouts, TimeoutPass, TimeoutGrace, TimeoutFail, TimeoutStop, TimeoutsEnd,
                  fileVars
    <2>2. At(i) /\ (successor' = successor \/ successor' = [successor EXCEPT ![i] = retry])
      BY <2>1 DEF TimeoutRetry, TimeoutStop
    <2> QED
      BY <2>2 DEF TypeOK
  <1>4. ~AssignTasks
    BY DEF AssignTasks, AssignNothing, AssignBegin, DropStep, DropDone, DropEnd, Assign,
           AssignEnd, fileVars
  <1>5. ~(Produce \/ CancelStep \/ BudgetExhausted \/ Http)
    BY DEF Produce, CronDue, OwnerQueues, CancelStep, CancelPending, CancelRunning,
           CancelRespawn, CancelMiss, BudgetExhausted, Http, HttpCreate, HttpCancel,
           CancelBegin, HttpEnqueue, fileVars
  <1>6. \A v \in Workers : ~Worker(v)
    BY DEF Worker, Take, Store, Emit, Break, Die, ScheduleSubagent, RequestCancel, WorkerOnly
  <1>7. ~UNCHANGED vars
    BY DEF vars, fileVars
  <1>8. At(id)
    BY <1>1, <1>2, <1>3, <1>4, <1>5, <1>6, <1>7 DEF Next, MainLoop
  <1> QED
    BY <1>8 DEF At, In, SlotInv, TodoInv

(* A cancelled task is not continued under another id: a cancel takes it out *)
(* of RUNNING before its result says so.                                     *)
THEOREM CancelledStaysCancelled ==
    ASSUME PostedStands
    PROVE  Spec => CancelledNotRetried
  <1>1. ASSUME QueueInv, SlotInv, EndedInv, [Next]_vars,
               NEW id \in Ids, result[id] = "cancelled"
        PROVE  successor'[id] = successor[id]
    BY <1>1, OnlyRetried DEF QueueInv, EndedInv, CancelledNotRunning
  <1>2. QueueInv /\ SlotInv /\ EndedInv /\ [Next]_vars =>
            [\A id \in Ids :
                result[id] = "cancelled" => successor'[id] = successor[id]]_vars
    BY <1>1
  <1>3. HttpCancels = {}
    BY DEF PostedStands, PostedLast
  <1>4. Spec => []SlotInv
    BY <1>3, SlotInvariant
  <1>5. Spec => []EndedInv
    BY EndedInvariant
  <1>6. QED
    BY <1>2, <1>4, <1>5, QueueInvariant, PTL DEF Spec, CancelledNotRetried
=============================================================================
