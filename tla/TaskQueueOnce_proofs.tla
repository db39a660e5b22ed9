------------------------- MODULE TaskQueueOnce_proofs -------------------------
(* No task is in the hands of two worker processes, in a deployment where    *)
(* posted tasks sort behind the others and nothing is cancelled over HTTP.   *)
(* Both premises are needed: a posted task that sorts to the front while     *)
(* cancelled pending tasks are dropped has one of the survivors kept twice.  *)
EXTENDS TaskQueue_proofs

(* An id that no queue, slot or live process knows.                          *)
Nowhere(id) ==
    /\ ~Queued(id)
    /\ \A w \in Workers : slot[w] # id /\ ~Holds(w, id)

Distinct(q) == \A i, j \in DOMAIN q : q[i].id = q[j].id => i = j

(* An id is at one place: PENDING, or a slot and the process in it.  A slot  *)
(* may be free while its process still executes (a late task_done).          *)
SlotsDiffer == \A v, w \in Workers : slot[v] = slot[w] /\ slot[v] # None => v = w
QueuedIsFree ==
    \A id \in Ids : Queued(id) => \A w \in Workers : slot[w] # id /\ ~Holds(w, id)
HeldInSlot == \A id \in Ids, v, w \in Workers : Holds(v, id) /\ slot[w] = id => v = w
OnePlace ==
    Distinct(pending) /\ SlotsDiffer /\ QueuedIsFree /\ HeldInSlot /\ SingleExecution

(* What may still be queued for the first time is nowhere yet: ids without a *)
(* result, the owner's tasks, what schedule events ask for, and the posted   *)
(* task that has its result.                                                 *)
Schedule(e) == e.kind = "schedule"
NoResultIsFresh == \A id \in Ids \ OwnerIds : result[id] = NoResult => Nowhere(id)
OwnersAreFresh == bounds.owner \subseteq OwnerIds /\ \A id \in bounds.owner : Nowhere(id)
Requested(id) == \E i \in DOMAIN events : Schedule(events[i]) /\ events[i].id = id
RequestedAreFresh ==
    \A id \in Ids : Requested(id) =>
        id \in Subagents /\ result[id] # NoResult /\ Nowhere(id)
RequestedOnce ==
    \A i, j \in DOMAIN events :
        Schedule(events[i]) /\ Schedule(events[j]) /\ events[i].id = events[j].id => i = j
PostedIsFresh == http # None => http \in HttpIds /\ result[http] # NoResult /\ Nowhere(http)
FreshInv ==
    NoResultIsFresh /\ OwnersAreFresh /\ RequestedAreFresh /\ RequestedOnce /\ PostedIsFresh

(* What the drop loop has kept is a part of PENDING it has passed.           *)
KeepInv ==
    phase = "drop" =>
        /\ Distinct(sweep.keep)
        /\ \A i \in DOMAIN sweep.keep : \E j \in DOMAIN pending :
              sweep.keep[i] = pending[j] /\ (sweep.at # 0 => j < sweep.at)

OnceInv == OnePlace /\ FreshInv /\ KeepInv

(* The deployments the theorem is about.  Ids come from uuid4, so that one   *)
(* source does not produce another's.  _task_priority gives tasks and        *)
(* reviews 0, so that a posted task, whose sequence number is the largest,   *)
(* goes to the end of PENDING, unless a task of type evolution (1) or of a   *)
(* type of the caller's own (2) waits there.                                 *)
PostedLast ==
    /\ HttpCancels = {}
    /\ OwnerIds \cap (RetryIds \cup CronIds \cup Subagents) = {}
    /\ HttpIds \cap (RetryIds \cup CronIds \cup Subagents \cup OwnerIds) = {}
    /\ \A h \in HttpIds, id \in Ids : Priority[id] <= Priority[h]
-----------------------------------------------------------------------------
(* Sequences: what an insertion, a removal and an append put where.          *)
LEMMA TailEntries ==
    ASSUME NEW S, NEW q \in Seq(S), q # <<>>
    PROVE  /\ Tail(q) \in Seq(S) /\ Len(q) \in Nat
           /\ DOMAIN q = 1 .. Len(q) /\ DOMAIN Tail(q) = 1 .. Len(q) - 1
           /\ Head(q) = q[1] /\ 1 \in DOMAIN q
           /\ \A i \in DOMAIN Tail(q) :
                 /\ Tail(q)[i] = q[i + 1]
                 /\ i + 1 \in DOMAIN q /\ i + 1 # 1 /\ i \in Int
  <1>1. /\ Len(q) \in Nat /\ Len(q) # 0 /\ DOMAIN q = 1 .. Len(q)
        /\ Head(q) = q[1]
        /\ Tail(q) \in Seq(S) /\ Len(Tail(q)) = Len(q) - 1
        /\ \A i \in 1 .. Len(Tail(q)) : Tail(q)[i] = q[i + 1]
    BY HeadTailProperties, LenProperties
  <1>2. DOMAIN Tail(q) = 1 .. Len(q) - 1
    BY <1>1, LenProperties
  <1> QED
    BY <1>1, <1>2

LEMMA LongerEntries ==
    ASSUME NEW S, NEW q \in Seq(S), NEW e \in S
    PROVE  /\ Append(q, e) \in Seq(S) /\ Len(q) \in Nat
           /\ DOMAIN q = 1 .. Len(q) /\ DOMAIN Append(q, e) = 1 .. Len(q) + 1
           /\ Append(q, e)[Len(q) + 1] = e
           /\ \A i \in DOMAIN q : Append(q, e)[i] = q[i]
  <1>1. /\ Len(q) \in Nat /\ DOMAIN q = 1 .. Len(q)
        /\ Append(q, e) \in Seq(S) /\ Len(Append(q, e)) = Len(q) + 1
        /\ Append(q, e)[Len(q) + 1] = e
        /\ \A i \in 1 .. Len(q) : Append(q, e)[i] = q[i]
    BY AppendProperties, LenProperties
  <1>2. DOMAIN Append(q, e) = 1 .. Len(q) + 1
    BY <1>1, LenProperties
  <1> QED
    BY <1>1, <1>2

LEMMA ConcatEntries ==
    ASSUME NEW S, NEW s \in Seq(S), NEW t \in Seq(S), NEW k \in 1 .. Len(s) + Len(t)
    PROVE  (s \o t)[k] = IF k <= Len(s) THEN s[k] ELSE t[k - Len(s)]
  BY ConcatProperties

LEMMA InsertedEntries ==
    ASSUME NEW S, NEW q \in Seq(S), NEW e \in S, NEW i \in 1 .. Len(q) + 1,
           NEW k \in 1 .. Len(q) + 1
    PROVE  InsertAt(q, i, e)[k] = IF k < i THEN q[k] ELSE IF k = i THEN e ELSE q[k - 1]
  <1> DEFINE before == SubSeq(q, 1, i-1)
             after == SubSeq(q, i, Len(q))
  <1>1. Len(q) \in Nat /\ \A j \in 1 .. Len(q) : q[j] \in S
    BY LenProperties, ElementOfSeq
  <1>2. /\ before \in Seq(S) /\ Len(before) = i - 1
        /\ \A j \in 1 .. i - 1 : before[j] = q[j]
    <2>1. \A j \in 1 .. i-1 : q[j] \in S
      BY <1>1
    <2>2. QED
      BY <1>1, <2>1, SubSeqProperties
  <1>3. /\ after \in Seq(S) /\ Len(after) = Len(q) - i + 1
        /\ \A j \in 1 .. Len(q) - i + 1 : after[j] = q[i + j - 1]
    <2>1. \A j \in i .. Len(q) : q[j] \in S
      BY <1>1
    <2>2. QED
      BY <1>1, <2>1, SubSeqProperties
  <1>4. InsertAt(q, i, e) = (before \o <<e>>) \o after
    BY DEF InsertAt
  <1> HIDE DEF before, after
  <1>5. /\ before \o <<e>> \in Seq(S) /\ Len(before \o <<e>>) = i
        /\ \A j \in 1 .. i : (before \o <<e>>)[j] = IF j < i THEN q[j] ELSE e
    BY <1>1, <1>2
  <1> DEFINE middle == before \o <<e>>
  <1> HIDE DEF middle
  <1>6. (middle \o after)[k] = IF k <= i THEN middle[k] ELSE after[k - i]
    <2>1. k \in 1 .. Len(middle) + Len(after)
      BY <1>1, <1>3, <1>5 DEF middle
    <2>2. (middle \o after)[k] =
              IF k <= Len(middle) THEN middle[k] ELSE after[k - Len(middle)]
      BY <1>3, <1>5, <2>1, ConcatEntries DEF middle
    <2> QED
      BY <1>5, <2>2 DEF middle
  <1>7. k <= i => middle[k] = IF k < i THEN q[k] ELSE e
    BY <1>5 DEF middle
  <1>8. k > i => after[k - i] = q[k - 1]
    <2>1. k > i => k - i \in 1 .. Len(q) - i + 1 /\ i + (k - i) - 1 = k - 1
      BY <1>1
    <2> QED
      BY <1>3, <2>1
  <1>9. InsertAt(q, i, e)[k] = (middle \o after)[k]
    BY <1>4 DEF middle
  <1>10. k \in Int /\ i \in Int
    BY <1>1
  <1> QED
    BY <1>6, <1>7, <1>8, <1>9, <1>10

LEMMA RemovedEntries ==
    ASSUME NEW S, NEW q \in Seq(S), NEW i \in 1 .. Len(q), NEW k \in 1 .. Len(q) - 1
    PROVE  RemoveAt(q, i)[k] = IF k < i THEN q[k] ELSE q[k + 1]
  <1> DEFINE before == SubSeq(q, 1, i-1)
             after == SubSeq(q, i+1, Len(q))
  <1>1. Len(q) \in Nat /\ \A j \in 1 .. Len(q) : q[j] \in S
    BY LenProperties, ElementOfSeq
  <1>2. /\ before \in Seq(S) /\ Len(before) = i - 1
        /\ \A j \in 1 .. i - 1 : before[j] = q[j]
    <2>1. \A j \in 1 .. i-1 : q[j] \in S
      BY <1>1
    <2>2. QED
      BY <1>1, <2>1, SubSeqProperties
  <1>3. /\ after \in Seq(S) /\ Len(after) = Len(q) - i
        /\ \A j \in 1 .. Len(q) - i : after[j] = q[i + j]
    <2>1. \A j \in i+1 .. Len(q) : q[j] \in S
      BY <1>1
    <2>2. QED
      BY <1>1, <2>1, SubSeqProperties
  <1>4. RemoveAt(q, i) = before \o after
    BY DEF RemoveAt
  <1> HIDE DEF before, after
  <1>5. (before \o after)[k] = IF k <= i - 1 THEN before[k] ELSE after[k - (i - 1)]
    <2>1. k \in 1 .. Len(before) + Len(after)
      BY <1>1, <1>2, <1>3
    <2>2. (before \o after)[k] =
              IF k <= Len(before) THEN before[k] ELSE after[k - Len(before)]
      BY <1>2, <1>3, <2>1, ConcatEntries
    <2> QED
      BY <1>2, <2>2
  <1>6. k <= i - 1 => before[k] = q[k]
    BY <1>1, <1>2
  <1>7. k > i - 1 => after[k - (i - 1)] = q[k + 1]
    <2>1. k > i - 1 => k - (i - 1) \in 1 .. Len(q) - i /\ i + (k - (i - 1)) = k + 1
      BY <1>1
    <2> QED
      BY <1>3, <2>1
  <1>8. k \in Int /\ i \in Int
    BY <1>1
  <1> QED
    BY <1>4, <1>5, <1>6, <1>7, <1>8

(* enqueue_task puts the task at some place and keeps the others.            *)
LEMMA EnqueuedEntries ==
    ASSUME NEW q \in Seq(Tasks), NEW t \in Tasks, NEW front \in BOOLEAN
    PROVE  /\ Enqueued(q, t, front) \in Seq(Tasks)
           /\ Len(Enqueued(q, t, front)) = Len(q) + 1
           /\ \E p \in 1 .. Len(q) + 1 : \A k \in 1 .. Len(q) + 1 :
                 Enqueued(q, t, front)[k] =
                     IF k < p THEN q[k] ELSE IF k = p THEN t ELSE q[k - 1]
  <1> DEFINE Sooner(u) == \/ Priority[u.origin] < Priority[t.origin]
                          \/ ~front /\ Priority[u.origin] = Priority[t.origin]
             p == Cardinality({i \in DOMAIN q : Sooner(q[i])}) + 1
  <1>1. p \in 1 .. Len(q) + 1
    <2>1. {i \in DOMAIN q : Sooner(q[i])} \in SUBSET DOMAIN q
      OBVIOUS
    <2>2. QED
      BY <2>1, SlotInRange, LenProperties
  <1>2. Enqueued(q, t, front) = InsertAt(q, p, t)
    BY DEF Enqueued
  <1> HIDE DEF p
  <1>3. \A k \in 1 .. Len(q) + 1 :
            InsertAt(q, p, t)[k] = IF k < p THEN q[k] ELSE IF k = p THEN t ELSE q[k - 1]
    BY <1>1, InsertedEntries
  <1> QED
    BY <1>1, <1>2, <1>3, EnqueuedType

(* A task that sorts behind all others goes to the end.                      *)
LEMMA EnqueuedLast ==
    ASSUME NEW q \in Seq(Tasks), NEW t \in Tasks,
           \A id \in Ids : Priority[id] <= Priority[t.origin]
    PROVE  LET r == Enqueued(q, t, FALSE)
           IN  /\ \A k \in DOMAIN q : k \in DOMAIN r /\ r[k] = q[k]
               /\ \A k \in DOMAIN r : k \in DOMAIN q \/ r[k] = t
  <1> DEFINE Sooner(u) == \/ Priority[u.origin] < Priority[t.origin]
                          \/ ~FALSE /\ Priority[u.origin] = Priority[t.origin]
             I == {i \in DOMAIN q : Sooner(q[i])}
             r == Enqueued(q, t, FALSE)
  <1>1. /\ DOMAIN q = 1 .. Len(q) /\ Len(q) \in Nat
        /\ \A i \in DOMAIN q : q[i] \in Tasks
    BY LenProperties, ElementOfSeq
  <1>2. \A i \in DOMAIN q : Sooner(q[i])
    <2>1. SUFFICES ASSUME NEW i \in DOMAIN q
                   PROVE  Sooner(q[i])
      OBVIOUS
    <2>2. PICK id \in Ids : q[i].origin = id
      BY <1>1 DEF Tasks
    <2>3. t.origin \in Ids /\ Priority \in [Ids -> Nat]
      BY TaskQueueAssumption DEF Tasks
    <2>4. /\ Priority[id] \in Nat /\ Priority[t.origin] \in Nat
          /\ Priority[id] <= Priority[t.origin]
      BY <2>3
    <2> QED
      BY <2>2, <2>4
  <1>3. r = InsertAt(q, Cardinality(I) + 1, t)
    BY DEF Enqueued
  <1>4. I = 1 .. Len(q)
    BY <1>1, <1>2
  <1> HIDE DEF I, r
  <1>5. PICK n \in Nat : n = Len(q)
    BY <1>1
  <1>6. Cardinality(I) = n
    <2>1. 1 \in Int /\ n \in Int
      BY <1>5
    <2>2. Cardinality(1 .. n) = IF 1 > n THEN 0 ELSE n - 1 + 1
      BY ONLY <2>1, FS_Interval
    <2> QED
      BY <1>4, <1>5, <2>2
  <1>7. \A k \in 1 .. n + 1 : r[k] = IF k < n + 1 THEN q[k] ELSE IF k = n + 1 THEN t ELSE q[k - 1]
    <2>1. n + 1 \in 1 .. n + 1
      BY <1>5
    <2> QED
      BY <1>3, <1>5, <1>6, <2>1, InsertedEntries
  <1>8. DOMAIN r = 1 .. n + 1
    <2>1. r \in Seq(Tasks) /\ Len(r) = n + 1
      BY <1>5, EnqueuedType DEF r
    <2> QED
      BY <2>1, LenProperties
  <1>9. /\ \A k \in 1 .. n : k \in 1 .. n + 1 /\ k < n + 1
        /\ \A k \in 1 .. n + 1 : k \in 1 .. n \/ (k = n + 1 /\ ~(k < n + 1))
    BY <1>5
  <1>10. \A k \in DOMAIN q : k \in DOMAIN r /\ r[k] = q[k]
    BY <1>1, <1>5, <1>7, <1>8, <1>9
  <1>11. \A k \in DOMAIN r : k \in DOMAIN q \/ r[k] = t
    BY <1>1, <1>5, <1>7, <1>8, <1>9
  <1> QED
    BY <1>10, <1>11 DEF r

(* A task is found in the longer queue if it is new or was in the old one,   *)
(* and the queue stays free of duplicates.                                   *)
LEMMA EnqueuedOnce ==
    ASSUME NEW q \in Seq(Tasks), NEW t \in Tasks, NEW front \in BOOLEAN,
           Distinct(q), \A i \in DOMAIN q : q[i].id # t.id
    PROVE  LET r == Enqueued(q, t, front)
           IN  /\ Distinct(r)
               /\ \A i \in DOMAIN r : r[i] = t \/ \E j \in DOMAIN q : r[i] = q[j]
  <1> DEFINE r == Enqueued(q, t, front)
             n == Len(q) + 1
  <1>1. PICK p \in 1 .. n : \A k \in 1 .. n :
            r[k] = IF k < p THEN q[k] ELSE IF k = p THEN t ELSE q[k - 1]
    BY EnqueuedEntries
  <1>2. r \in Seq(Tasks) /\ Len(r) = n
    BY EnqueuedEntries
  <1> HIDE DEF r
  <1>3. DOMAIN q = 1 .. Len(q) /\ DOMAIN r = 1 .. n /\ Len(q) \in Nat
    BY <1>2, LenProperties
  <1> DEFINE old(k) == IF k < p THEN k ELSE k - 1
  <1>4. \A k \in 1 .. n : k # p => old(k) \in DOMAIN q /\ r[k] = q[old(k)]
    BY <1>1, <1>3
  <1>5. \A j, k \in 1 .. n : j # p /\ k # p /\ old(j) = old(k) => j = k
    BY <1>3
  <1>6. r[p] = t
    BY <1>1
  <1> HIDE DEF old
  <1>7. Distinct(r)
    <2>1. SUFFICES ASSUME NEW j \in 1 .. n, NEW k \in 1 .. n, r[j].id = r[k].id
                   PROVE  j = k
      BY <1>3 DEF Distinct
    <2>2. CASE j # p /\ k # p
      BY <1>4, <1>5, <2>1, <2>2 DEF Distinct
    <2>3. CASE j = p \/ k = p
      BY <1>4, <1>6, <2>1, <2>3
    <2> QED
      BY <2>2, <2>3
  <1> QED
    BY <1>3, <1>4, <1>6, <1>7 DEF r

LEMMA RemovedOnce ==
    ASSUME NEW q \in Seq(Tasks), NEW i \in 1 .. Len(q), Distinct(q)
    PROVE  LET r == RemoveAt(q, i)
           IN  /\ Distinct(r)
               /\ \A k \in DOMAIN r : \E j \in DOMAIN q : r[k] = q[j]
  <1> DEFINE r == RemoveAt(q, i)
             n == Len(q) - 1
             old(k) == IF k < i THEN k ELSE k + 1
  <1>1. \A k \in 1 .. n : r[k] = q[old(k)]
    BY RemovedEntries
  <1>2. r \in Seq(Tasks) /\ Len(r) = n
    BY RemoveAtType
  <1> HIDE DEF r
  <1>3. DOMAIN q = 1 .. Len(q) /\ DOMAIN r = 1 .. n /\ Len(q) \in Nat
    BY <1>2, LenProperties
  <1>4. /\ \A k \in 1 .. n : old(k) \in DOMAIN q
        /\ \A j, k \in 1 .. n : old(j) = old(k) => j = k
    BY <1>3
  <1> HIDE DEF old
  <1>5. Distinct(r)
    <2>1. SUFFICES ASSUME NEW j \in 1 .. n, NEW k \in 1 .. n, r[j].id = r[k].id
                   PROVE  j = k
      BY <1>3 DEF Distinct
    <2>2. old(j) \in DOMAIN q /\ old(k) \in DOMAIN q /\ q[old(j)].id = q[old(k)].id
      BY <1>1, <1>4, <2>1
    <2>3. old(j) = old(k)
      BY <2>2 DEF Distinct
    <2> QED
      BY <1>4, <2>3
  <1>6. \A k \in DOMAIN r : \E j \in DOMAIN q : r[k] = q[j]
    BY <1>1, <1>3, <1>4
  <1> QED
    BY <1>5, <1>6 DEF r

LEMMA TailOnce ==
    ASSUME NEW q \in Seq(Tasks), q # <<>>, Distinct(q)
    PROVE  /\ Distinct(Tail(q))
           /\ \A i \in DOMAIN Tail(q) :
                 /\ Tail(q)[i].id # Head(q).id
                 /\ \E j \in DOMAIN q : Tail(q)[i] = q[j]
           /\ \E j \in DOMAIN q : Head(q) = q[j]
  <1>1. /\ Head(q) = q[1] /\ 1 \in DOMAIN q
        /\ \A i \in DOMAIN Tail(q) :
              /\ Tail(q)[i] = q[i + 1]
              /\ i + 1 \in DOMAIN q /\ i + 1 # 1 /\ i \in Int
    BY TailEntries
  <1>2. Distinct(Tail(q))
    <2>1. SUFFICES ASSUME NEW i \in DOMAIN Tail(q), NEW j \in DOMAIN Tail(q),
                          Tail(q)[i].id = Tail(q)[j].id
                   PROVE  i = j
      BY DEF Distinct
    <2>2. i + 1 = j + 1
      BY <1>1, <2>1 DEF Distinct
    <2> QED
      BY <1>1, <2>2
  <1>3. \A i \in DOMAIN Tail(q) : Tail(q)[i].id # Head(q).id
    BY <1>1 DEF Distinct
  <1>4. \A i \in DOMAIN Tail(q) : \E j \in DOMAIN q : Tail(q)[i] = q[j]
    BY <1>1
  <1> QED
    BY <1>1, <1>2, <1>3, <1>4
-----------------------------------------------------------------------------
(* A process holds what it executes and what is in its inbox.                *)
HoldsIn(p, id) ==
    /\ p.state = "up"
    /\ \/ p.does # Idle /\ p.does.task.id = id
       \/ \E i \in DOMAIN p.inbox : p.inbox[i].id = id

LEMMA HoldsProcess ==
    ASSUME NEW id, NEW w \in Workers
    PROVE  /\ Holds(w, id) <=> pool /\ HoldsIn(proc[w], id)
           /\ Holds(w, id)' <=> pool' /\ HoldsIn(proc'[w], id)
  BY DEF Holds, Up, HoldsIn

(* A fresh process, and a dead one, hold nothing.                            *)
LEMMA FreshHoldsNothing ==
    ASSUME NEW id
    PROVE  /\ ~HoldsIn(Fresh, id)
           /\ \A how \in {"exited", "signalled"} :
                 ~HoldsIn([Fresh EXCEPT !.state = how], id)
  <1>1. Fresh.inbox = <<>> /\ Fresh.does = Idle /\ DOMAIN <<>> = {}
    BY EmptySeq, LenProperties DEF Fresh
  <1> QED
    BY <1>1 DEF HoldsIn, Fresh
(* Every variable of the queue only gives places up.                         *)
Shrinks ==
    /\ Distinct(pending')
    /\ \A id \in Ids : Queued(id)' => Queued(id)
    /\ \A w \in Workers : slot'[w] \in {slot[w], None}
    /\ \A id \in Ids, w \in Workers : Holds(w, id)' => Holds(w, id)

LEMMA ShrinkOnce ==
    ASSUME OnePlace, Shrinks
    PROVE  OnePlace' /\ \A id \in Ids : Nowhere(id) => Nowhere(id)'
  <1>0. \A id \in Ids : id # None
    BY TaskQueueAssumption
  <1>1. SlotsDiffer'
    BY DEF OnePlace, Shrinks, SlotsDiffer
  <1>2. QueuedIsFree'
    BY <1>0 DEF OnePlace, Shrinks, QueuedIsFree
  <1>3. HeldInSlot'
    BY <1>0 DEF OnePlace, Shrinks, HeldInSlot
  <1>4. SingleExecution'
    BY DEF OnePlace, Shrinks, SingleExecution
  <1>5. Distinct(pending)'
    BY DEF Shrinks, Distinct
  <1>6. \A id \in Ids : Nowhere(id) => Nowhere(id)'
    BY <1>0 DEF Shrinks, Nowhere
  <1> QED
    BY <1>1, <1>2, <1>3, <1>4, <1>5, <1>6 DEF OnePlace

(* One task is queued that is nowhere once the others have given up theirs.  *)
LEMMA EnqueueOnce ==
    ASSUME TypeOK, OnePlace, NEW t \in Tasks, NEW front \in BOOLEAN,
           pending' = Enqueued(pending, t, front),
           ~Queued(t.id),
           \A w \in Workers : /\ slot'[w] \in {slot[w], None} /\ slot'[w] # t.id
                              /\ ~Holds(w, t.id)',
           \A id \in Ids, w \in Workers : Holds(w, id)' => Holds(w, id)
    PROVE  OnePlace' /\ \A id \in Ids \ {t.id} : Nowhere(id) => Nowhere(id)'
  <1>0. \A id \in Ids : id # None
    BY TaskQueueAssumption
  <1>1. /\ Distinct(pending')
        /\ \A i \in DOMAIN pending' :
              pending'[i] = t \/ \E j \in DOMAIN pending : pending'[i] = pending[j]
    <2>1. pending \in Seq(Tasks) /\ Distinct(pending)
          /\ \A i \in DOMAIN pending : pending[i].id # t.id
      BY DEF TypeOK, OnePlace, Queued
    <2> QED
      BY <2>1, EnqueuedOnce
  <1>2. \A id \in Ids : Queued(id)' => Queued(id) \/ id = t.id
    BY <1>1 DEF Queued
  <1>3. SlotsDiffer'
    BY DEF OnePlace, SlotsDiffer
  <1>4. QueuedIsFree'
    BY <1>0, <1>2 DEF OnePlace, QueuedIsFree
  <1>5. HeldInSlot'
    BY <1>0 DEF OnePlace, HeldInSlot
  <1>6. SingleExecution'
    BY DEF OnePlace, SingleExecution
  <1>7. Distinct(pending)'
    BY <1>1 DEF Distinct
  <1>8. \A id \in Ids \ {t.id} : Nowhere(id) => Nowhere(id)'
    BY <1>0, <1>2 DEF Nowhere
  <1> QED
    BY <1>3, <1>4, <1>5, <1>6, <1>7, <1>8 DEF OnePlace

(* No result disappears, and nothing is asked for that was not.              *)
Results ==
    /\ \A id \in Ids : result'[id] = NoResult => result[id] = NoResult
    /\ bounds'.owner \subseteq bounds.owner
Asked ==
    /\ \A id \in Ids : Requested(id)' => Requested(id)
    /\ RequestedOnce'

(* What is queued is not fresh any more; everything else stays as fresh.     *)
LEMMA KeepsFresh ==
    ASSUME TypeOK, FreshInv, Results, Asked, NEW S \in SUBSET Ids, http' = http,
           http \notin S,
           \A id \in Ids \ S : Nowhere(id) => Nowhere(id)',
           \A id \in S : /\ id \notin OwnerIds => result'[id] # NoResult
                         /\ id \notin bounds'.owner
                         /\ ~Requested(id)'
    PROVE  FreshInv'
  <1>1. NoResultIsFresh'
    BY DEF FreshInv, NoResultIsFresh, Results
  <1>2. OwnersAreFresh'
    <2>1. bounds.owner \in SUBSET Ids
      BY DEF TypeOK
    <2> QED
      BY <2>1 DEF FreshInv, OwnersAreFresh, Results
  <1>3. RequestedAreFresh'
    BY DEF FreshInv, RequestedAreFresh, Results, Asked
  <1>4. PostedIsFresh'
    BY DEF FreshInv, PostedIsFresh, Results, TypeOK
  <1> QED
    BY <1>1, <1>2, <1>3, <1>4 DEF FreshInv, Asked

(* Events that stay, leave or do not ask for a subagent.                     *)
LEMMA AskedLess ==
    ASSUME TypeOK, FreshInv,
           \/ events' = events
           \/ events # <<>> /\ events' = Tail(events)
           \/ \E e \in Events : ~Schedule(e) /\ events' = Append(events, e)
    PROVE  Asked
  <1>0. events \in Seq(Events)
    BY DEF TypeOK
  <1>1. CASE events' = events
    BY <1>1 DEF Asked, FreshInv, RequestedOnce, Requested
  <1>2. CASE events # <<>> /\ events' = Tail(events)
    <2>1. \A i \in DOMAIN events' :
              events'[i] = events[i + 1] /\ i + 1 \in DOMAIN events /\ i \in Int
      BY <1>0, <1>2, TailEntries
    <2>2. \A i, j \in Int : i + 1 = j + 1 => i = j
      OBVIOUS
    <2> QED
      BY <2>1, <2>2 DEF Asked, FreshInv, RequestedOnce, Requested
  <1>3. ASSUME NEW e \in Events, ~Schedule(e), events' = Append(events, e)
        PROVE  Asked
    <2>1. \A i \in DOMAIN events' :
              \/ i \in DOMAIN events /\ events'[i] = events[i]
              \/ events'[i] = e
      BY <1>0, <1>3, LongerEntries
    <2>2. \A i \in DOMAIN events' : Schedule(events'[i]) =>
              i \in DOMAIN events /\ events'[i] = events[i]
      BY <1>3, <2>1
    <2> QED
      BY <2>2 DEF Asked, FreshInv, RequestedOnce, Requested
  <1> QED
    BY <1>1, <1>2, <1>3

(* The common case: places and sources only shrink.                          *)
LEMMA ShrinkFresh ==
    ASSUME TypeOK, OnePlace, FreshInv, Shrinks, Results, Asked, http' = http
    PROVE  OnePlace' /\ FreshInv'
  <1>1. OnePlace' /\ \A id \in Ids : Nowhere(id) => Nowhere(id)'
    BY ShrinkOnce
  <1>2. {} \in SUBSET Ids
    OBVIOUS
  <1>3. FreshInv'
    BY <1>1, <1>2, KeepsFresh
  <1> QED
    BY <1>1, <1>3
-----------------------------------------------------------------------------
(* A guarded write leaves its file with a status.                            *)
LEMMA WrittenResults ==
    ASSUME TypeOK, NEW id \in Ids, NEW s \in Files, s # NoResult
    PROVE  /\ Written(id, s)[id] # NoResult
           /\ \A j \in Ids : Written(id, s)[j] = NoResult => result[j] = NoResult
  <1>1. Guarded(result[id], s) # NoResult
    BY DEF Guarded
  <1> QED
    BY <1>1 DEF Written, TypeOK

(* A slot is freed and its process replaced.                                 *)
LEMMA FreedSlot ==
    ASSUME TypeOK, NEW w \in Workers,
           slot' = [slot EXCEPT ![w] = None], proc' = Respawned(w), pool' = pool
    PROVE  /\ slot'[w] = None
           /\ \A v \in Workers : slot'[v] \in {slot[v], None} /\ (v # w => slot'[v] = slot[v])
           /\ \A id \in Ids, v \in Workers : Holds(v, id)' => Holds(v, id) /\ v # w
  <1>1. /\ slot'[w] = None
        /\ \A v \in Workers : slot'[v] \in {slot[v], None} /\ (v # w => slot'[v] = slot[v])
    BY DEF TypeOK
  <1>2. \A v \in Workers : proc'[v] = IF v = w THEN Fresh ELSE proc[v]
    BY DEF TypeOK, Respawned
  <1>3. \A id \in Ids, v \in Workers : Holds(v, id)' => Holds(v, id) /\ v # w
    BY <1>2, HoldsProcess, FreshHoldsNothing
  <1> QED
    BY <1>1, <1>3

(* A task that was nowhere is queued.                                        *)
LEMMA FreshQueued ==
    ASSUME TypeOK, OnePlace, FreshInv, NEW t \in Tasks, NEW front \in BOOLEAN,
           Nowhere(t.id), t.id # http, http' = http,
           pending' = Enqueued(pending, t, front),
           \A w \in Workers : slot'[w] \in {slot[w], None},
           \A id \in Ids, w \in Workers : Holds(w, id)' => Holds(w, id),
           Results, Asked,
           t.id \notin OwnerIds => result'[t.id] # NoResult,
           t.id \notin bounds'.owner,
           ~Requested(t.id)'
    PROVE  OnePlace' /\ FreshInv'
  <1>1. t.id \in Ids /\ t.id # None /\ {t.id} \in SUBSET Ids
    BY TaskQueueAssumption DEF Tasks
  <1>2. OnePlace' /\ \A id \in Ids \ {t.id} : Nowhere(id) => Nowhere(id)'
    BY <1>1, EnqueueOnce DEF Nowhere
  <1>3. FreshInv'
    BY <1>1, <1>2, KeepsFresh
  <1> QED
    BY <1>2, <1>3

(* A task is queued again under its id when its slot is taken from it.       *)
LEMMA Requeued ==
    ASSUME TypeOK, OnePlace, FreshInv, NEW w \in Workers, NEW t \in Tasks,
           slot[w] = t.id,
           pending' = Enqueued(pending, t, TRUE),
           slot' = [slot EXCEPT ![w] = None], proc' = Respawned(w), pool' = pool,
           Results, events' = events, bounds' = bounds, http' = http
    PROVE  OnePlace' /\ FreshInv'
  <1>1. t.id \in Ids /\ t.id # None /\ {t.id} \in SUBSET Ids
    BY TaskQueueAssumption DEF Tasks
  <1>2. ~Nowhere(t.id) /\ ~Queued(t.id)
    BY <1>1 DEF Nowhere, OnePlace, QueuedIsFree
  <1>3. \A v \in Workers : slot'[v] \in {slot[v], None} /\ slot'[v] # t.id
    BY <1>1, FreedSlot DEF OnePlace, SlotsDiffer
  <1>4. /\ \A id \in Ids, v \in Workers : Holds(v, id)' => Holds(v, id)
        /\ \A v \in Workers : ~Holds(v, t.id)'
    BY <1>1, FreedSlot DEF OnePlace, HeldInSlot
  <1>5. OnePlace' /\ \A id \in Ids \ {t.id} : Nowhere(id) => Nowhere(id)'
    BY <1>2, <1>3, <1>4, EnqueueOnce
  <1>6. t.id \notin OwnerIds => result'[t.id] # NoResult
    BY <1>1, <1>2 DEF FreshInv, NoResultIsFresh, Results
  <1>7. t.id \notin bounds'.owner
    BY <1>2 DEF FreshInv, OwnersAreFresh
  <1>8. ~Requested(t.id)'
    BY <1>1, <1>2 DEF FreshInv, RequestedAreFresh, Requested
  <1>9. Asked
    BY AskedLess
  <1>10. t.id # http
    BY <1>1, <1>2 DEF FreshInv, PostedIsFresh
  <1>11. FreshInv'
    BY <1>1, <1>5, <1>6, <1>7, <1>8, <1>9, <1>10, KeepsFresh
  <1> QED
    BY <1>5, <1>11
-----------------------------------------------------------------------------
(* The drop loop's survivors are looked at in the drop phase only.           *)
LEMMA KeepElsewhere == phase' # "drop" => KeepInv'
  BY DEF KeepInv

LEMMA KeepStays ==
    ASSUME KeepInv, UNCHANGED <<phase, sweep, pending>>
    PROVE  KeepInv'
  BY DEF KeepInv, Distinct

(* The health pass frees slots, and requeues what a dead process had.        *)
LEMMA HealthOnce ==
    ASSUME TypeOK, OnceInv, http' = http, Health
    PROVE  OnceInv'
  <1>0. OnePlace /\ FreshInv /\ Distinct(pending)
    BY DEF OnceInv, OnePlace
  <1>1. ASSUME NEW w \in Workers, Reap(w), UNCHANGED pending, Results
        PROVE  OnceInv'
    <2>1. /\ \A v \in Workers : slot'[v] \in {slot[v], None}
          /\ \A id \in Ids, v \in Workers : Holds(v, id)' => Holds(v, id)
      BY <1>1, FreedSlot DEF Reap
    <2>2. Shrinks
      BY <1>0, <1>1, <2>1 DEF Shrinks, Queued, Distinct
    <2>3. Asked
      BY <1>0, <1>1, AskedLess DEF Reap
    <2>4. KeepInv'
      BY <1>1, KeepElsewhere DEF Reap, In
    <2> QED
      BY <1>0, <1>1, <2>2, <2>3, <2>4, ShrinkFresh DEF OnceInv
  <1>2. ASSUME NEW w \in Workers, ReapUntracked(w) \/ ReapFinished(w)
        PROVE  OnceInv'
    <2>1. Reap(w) /\ UNCHANGED <<pending, result, bounds>>
      BY <1>2 DEF ReapUntracked, ReapFinished, ReapTask, Reap
    <2> QED
      BY <1>1, <2>1 DEF Results
  <1>3. ASSUME NEW w \in Workers, ReapFailed(w)
        PROVE  OnceInv'
    <2>1. Reap(w) /\ UNCHANGED <<pending, bounds>> /\ slot[w] \in Ids
          /\ result' = Written(slot[w], "failed")
      BY <1>3, ReapTaskType DEF ReapFailed, ReapTask, Reap
    <2>2. Results
      BY <2>1, WrittenResults, StatusTypes DEF Results
    <2> QED
      BY <1>1, <2>1, <2>2
  <1>4. ASSUME NEW w \in Workers, ReapRetry(w)
        PROVE  OnceInv'
    <2> DEFINE t == Again(running[slot[w]].task, slot[w])
    <2>1. /\ Reap(w) /\ slot[w] \in Ids /\ t \in Tasks /\ t.id = slot[w]
          /\ pending' = Enqueued(pending, t, TRUE)
          /\ result' = Written(slot[w], "interrupted")
      BY <1>4, ReapTaskType, AgainType DEF ReapRetry, ReapTask, Again, Tasks
    <2> HIDE DEF t
    <2>2. Results
      BY <2>1, WrittenResults, StatusTypes DEF Results, Reap
    <2>3. OnePlace' /\ FreshInv'
      BY <1>0, <2>1, <2>2, Requeued DEF Reap
    <2>4. KeepInv'
      BY <2>1, KeepElsewhere DEF Reap, In
    <2> QED
      BY <2>3, <2>4 DEF OnceInv
  <1>5. CASE HealthEnd
    <2>1. Shrinks
      BY <1>0, <1>5 DEF HealthEnd, Shrinks, Queued, Distinct, Holds, Up, queueVars
    <2>2. Results /\ Asked
      BY <1>0, <1>5, AskedLess DEF HealthEnd, Results, eventVars, fileVars
    <2>3. KeepInv'
      BY <1>5, KeepElsewhere DEF HealthEnd
    <2> QED
      BY <1>0, <2>1, <2>2, <2>3, ShrinkFresh DEF OnceInv
  <1>6. CASE CrashStorm
    <2>1. Shrinks
      <3>1. DOMAIN pending' = {}
        BY <1>6, EmptySeq, LenProperties DEF CrashStorm
      <3> QED
        BY <1>6, <3>1 DEF CrashStorm, Shrinks, Queued, Distinct, Holds, Up
    <2>2. Results
      <3>1. \A id \in Ids : Guarded(result[id], "failed") = NoResult => result[id] = NoResult
        BY StatusTypes DEF Guarded, NoResult
      <3> QED
        BY <1>6, <3>1 DEF CrashStorm, Results
    <2>3. Asked
      BY <1>0, <1>6, AskedLess DEF CrashStorm
    <2>4. KeepInv'
      BY <1>6, KeepElsewhere DEF CrashStorm
    <2> QED
      BY <1>0, <2>1, <2>2, <2>3, <2>4, ShrinkFresh DEF OnceInv
  <1> QED
    BY <1>2, <1>3, <1>4, <1>5, <1>6 DEF Health
(* A step that moves no task.                                                *)
LEMMA StillOnce ==
    ASSUME TypeOK, OnePlace, FreshInv, UNCHANGED <<pending, slot, pool, proc, http>>,
           Results, Asked
    PROVE  OnePlace' /\ FreshInv'
  <1>1. Shrinks
    BY DEF OnePlace, Shrinks, Queued, Distinct, Holds, Up
  <1> QED
    BY <1>1, ShrinkFresh

LEMMA TaskDoneOnce ==
    ASSUME TypeOK, OnePlace, FreshInv, NEW id \in Ids, NEW by, TaskDone(id, by), Asked,
           http' = http
    PROVE  OnePlace' /\ FreshInv' /\ KeepInv'
  <1>1. /\ UNCHANGED <<pending, pool, proc, bounds, phase>> /\ phase = "drain"
        /\ \A w \in Workers : slot'[w] \in {slot[w], None}
    BY DEF TaskDone, In, loopVars
  <1>2. Shrinks
    BY <1>1 DEF OnePlace, Shrinks, Queued, Distinct, Holds, Up
  <1>3. Results
    <2>1. \E c : result' = [result EXCEPT ![id] = IF c = NoResult THEN "failed" ELSE c]
      BY DEF TaskDone
    <2>2. PICK c : result' = [result EXCEPT ![id] = IF c = NoResult THEN "failed" ELSE c]
      BY <2>1
    <2>3. \A i \in Ids : result'[i] = NoResult => i # id
      BY <2>2 DEF TypeOK, NoResult
    <2>4. \A i \in Ids : i # id => result'[i] = result[i]
      BY <2>2 DEF TypeOK
    <2> QED
      BY <1>1, <2>3, <2>4 DEF Results
  <1>4. KeepInv'
    BY <1>1, KeepElsewhere
  <1> QED
    BY <1>2, <1>3, <1>4, ShrinkFresh

(* A subagent that is taken from the events is asked for only once.          *)
LEMMA HeadRequestedOnce ==
    ASSUME RequestedOnce, events \in Seq(Events), events # <<>>, events' = Tail(events),
           Schedule(Head(events)), NEW n, n = Head(events).id
    PROVE  ~Requested(n)'
  <1>1. \A i \in DOMAIN events' :
            events'[i] = events[i + 1] /\ i + 1 \in DOMAIN events /\ i + 1 # 1
    BY TailEntries
  <1>2. events[1] = Head(events) /\ 1 \in DOMAIN events
    BY TailEntries
  <1>3. SUFFICES ASSUME NEW i \in DOMAIN events', Schedule(events'[i]), events'[i].id = n
                 PROVE  FALSE
    BY DEF Requested
  <1>4. Schedule(events[i + 1]) /\ Schedule(events[1]) /\ events[i + 1].id = events[1].id
    BY <1>1, <1>2, <1>3
  <1>5. i + 1 = 1
    BY <1>1, <1>2, <1>4 DEF RequestedOnce
  <1> QED
    BY <1>1, <1>5

(* The event loop: late task_done events free slots, and each requested      *)
(* subagent is queued for the first time.                                    *)
LEMMA DrainOnce ==
    ASSUME PostedLast, TypeOK, OnceInv, http' = http, Drain
    PROVE  OnceInv'
  <1>0. OnePlace /\ FreshInv
    BY DEF OnceInv
  <1>1. CASE DrainTaskDone
    <2>1. Asked
      BY <1>0, <1>1, AskedLess DEF DrainTaskDone
    <2> QED
      BY <1>0, <1>1, <2>1, HeadType, TaskDoneOnce DEF DrainTaskDone, OnceInv
  <1>2. ASSUME NEW id \in Ids, DrainNotice(id)
        PROVE  OnceInv'
    <2>1. Asked
      BY <1>0, <1>2, AskedLess DEF DrainNotice
    <2> QED
      BY <1>0, <1>2, <2>1, TaskDoneOnce DEF DrainNotice, OnceInv
  <1>3. CASE DrainReject
    <2>1. /\ UNCHANGED <<pending, slot, pool, proc, bounds, phase>> /\ phase = "drain"
          /\ Head(events).id \in Ids
          /\ \/ result' = Written(Head(events).id, "failed")
             \/ result' = Written(Head(events).id, "rejected_duplicate")
      BY <1>3, HeadType DEF DrainReject, In, queueVars, loopVars
    <2>2. Results
      BY <2>1, WrittenResults, StatusTypes DEF Results
    <2>3. Asked
      BY <1>0, <1>3, AskedLess DEF DrainReject
    <2>4. KeepInv'
      BY <2>1, KeepElsewhere
    <2> QED
      BY <1>0, <2>1, <2>2, <2>3, <2>4, StillOnce DEF OnceInv
  <1>4. CASE DrainSchedule
    <2>0. PICK n \in Ids : n = Head(events).id
      BY <1>4, HeadType DEF DrainSchedule
    <2>1. /\ UNCHANGED <<slot, pool, proc, bounds, phase>> /\ phase = "drain"
          /\ n \in Ids /\ New(n) \in Tasks /\ New(n).id = n
          /\ pending' = Enqueued(pending, New(n), FALSE)
          /\ result' = Written(n, "scheduled")
      BY <1>4, <2>0, NewType DEF DrainSchedule, In, loopVars, New
    <2>2. events \in Seq(Events) /\ events # <<>> /\ events' = Tail(events)
          /\ Schedule(Head(events))
      BY <1>4 DEF DrainSchedule, Schedule, TypeOK
    <2>3. Requested(n)
      BY <2>0, <2>2, TailEntries DEF Requested
    <2>4. n \in Subagents /\ Nowhere(n)
      BY <1>0, <2>1, <2>3 DEF FreshInv, RequestedAreFresh
    <2>5. n \notin OwnerIds /\ n \notin bounds'.owner /\ n # http
      BY <1>0, <2>1, <2>4, TaskQueueAssumption
      DEF PostedLast, FreshInv, OwnersAreFresh, PostedIsFresh
    <2>6. ~Requested(n)'
      BY <1>0, <2>0, <2>2, HeadRequestedOnce DEF FreshInv
    <2>7. Results
      BY <2>1, WrittenResults, StatusTypes DEF Results
    <2>8. Asked
      BY <1>0, <2>2, AskedLess
    <2>9. result'[n] # NoResult
      BY <2>1, WrittenResults, StatusTypes
    <2>10. /\ \A w \in Workers : slot'[w] \in {slot[w], None}
           /\ \A id \in Ids, w \in Workers : Holds(w, id)' => Holds(w, id)
      BY <2>1 DEF Holds, Up
    <2>11. OnePlace' /\ FreshInv'
      BY <1>0, <2>1, <2>4, <2>5, <2>6, <2>7, <2>8, <2>9, <2>10, FreshQueued
    <2>12. KeepInv'
      BY <2>1, KeepElsewhere
    <2> QED
      BY <2>11, <2>12 DEF OnceInv
  <1>5. CASE DrainCancel \/ DrainEnd
    <2>1. /\ UNCHANGED <<pending, slot, pool, proc, bounds, result>>
          /\ phase' # "drop"
          /\ \/ events' = events
             \/ events # <<>> /\ events' = Tail(events)
      <3>1. CASE DrainCancel
        BY <3>1 DEF DrainCancel, CancelBegin, In, queueVars, fileVars, loopVars
      <3>2. CASE DrainEnd
        BY <3>2 DEF DrainEnd, queueVars, fileVars, eventVars
      <3> QED
        BY <1>5, <3>1, <3>2
    <2>2. Results
      BY <2>1 DEF Results
    <2>3. Asked
      BY <1>0, <2>1, AskedLess
    <2>4. KeepInv'
      BY <2>1, KeepElsewhere
    <2> QED
      BY <1>0, <2>1, <2>2, <2>3, <2>4, StillOnce DEF OnceInv
  <1> QED
    BY <1>1, <1>2, <1>3, <1>4, <1>5 DEF Drain

(* cancel_task_by_id takes a task out of PENDING or kills its process.       *)
LEMMA CancelOnce ==
    ASSUME TypeOK, LockInv, OnceInv, http' = http, CancelStep
    PROVE  OnceInv'
  <1>0. OnePlace /\ FreshInv /\ Distinct(pending)
    BY DEF OnceInv, OnePlace
  <1>1. /\ cancel # NoCancel
        /\ UNCHANGED <<phase, events, bounds>>
        /\ \/ result' = result
           \/ result' = Written(cancel.id, "cancelled")
    <2>1. CASE CancelPending
      BY <2>1 DEF CancelPending, NoCancel, loopVars
    <2>2. ASSUME NEW w \in Workers, CancelRunning(w)
          PROVE  /\ cancel # NoCancel
                 /\ UNCHANGED <<phase, events, bounds>>
                 /\ result' = Written(cancel.id, "cancelled")
      BY <2>2 DEF CancelRunning, loopVars
    <2>3. CASE CancelRespawn
      BY <2>3 DEF CancelRespawn, loopVars, eventVars, fileVars
    <2>4. CASE CancelMiss
      BY <2>4 DEF CancelMiss, loopVars
    <2> QED
      BY <2>1, <2>2, <2>3, <2>4 DEF CancelStep
  <1>2. KeepInv'
    <2>1. phase \notin {"drop", "assign"}
      BY <1>1 DEF LockInv, OneHolder
    <2> QED
      BY <1>1, <2>1, KeepElsewhere
  <1>3. cancel.id \in Ids
    BY <1>1, CancelType
  <1>4. Asked
    BY <1>0, <1>1, AskedLess
  <1>5. Results
    BY <1>1, <1>3, WrittenResults, StatusTypes DEF Results
  <1>6. CASE CancelPending
    <2>1. cancel.at \in 1 .. Len(pending) /\ pending \in Seq(Tasks)
      <3>1. cancel.at \in Nat /\ cancel.at # 0 /\ Len(pending) \in Nat
        BY <1>1, <1>6, CancelType, LenProperties DEF CancelPending, TypeOK
      <3> QED
        BY <3>1 DEF LockInv, PopInRange, TypeOK
    <2>2. pending' = RemoveAt(pending, cancel.at) /\ UNCHANGED <<slot, pool, proc>>
      BY <1>6 DEF CancelPending
    <2>3. /\ Distinct(pending')
          /\ \A k \in DOMAIN pending' : \E j \in DOMAIN pending : pending'[k] = pending[j]
      BY <1>0, <2>1, <2>2, RemovedOnce
    <2>4. Shrinks
      BY <2>2, <2>3 DEF Shrinks, Queued, Holds, Up
    <2> QED
      BY <1>0, <1>2, <1>4, <1>5, <2>4, ShrinkFresh DEF OnceInv
  <1>7. ASSUME NEW w \in Workers, CancelRunning(w)
        PROVE  OnceInv'
    <2>1. \A v \in Workers :
              proc'[v] = IF v = w THEN [Fresh EXCEPT !.state = "signalled"] ELSE proc[v]
      BY <1>7 DEF CancelRunning, TypeOK
    <2>2. UNCHANGED <<pending, slot, pool>>
      BY <1>7 DEF CancelRunning
    <2>3. \A id \in Ids, v \in Workers : Holds(v, id)' => Holds(v, id)
      BY <2>1, <2>2, HoldsProcess, FreshHoldsNothing
    <2>4. Shrinks
      BY <1>0, <2>2, <2>3 DEF Shrinks, Queued, Distinct
    <2> QED
      BY <1>0, <1>2, <1>4, <1>5, <2>4, ShrinkFresh DEF OnceInv
  <1>8. CASE CancelRespawn
    <2>1. cancel.worker \in Workers
      BY <1>1, <1>8, CancelType DEF CancelRespawn
    <2>2. /\ \A v \in Workers : slot'[v] \in {slot[v], None}
          /\ \A id \in Ids, v \in Workers : Holds(v, id)' => Holds(v, id)
      BY <1>8, <2>1, FreedSlot DEF CancelRespawn
    <2>3. Shrinks
      BY <1>0, <1>8, <2>2 DEF CancelRespawn, Shrinks, Queued, Distinct
    <2> QED
      BY <1>0, <1>2, <1>4, <1>5, <2>3, ShrinkFresh DEF OnceInv
  <1>9. CASE CancelMiss
    <2>1. UNCHANGED <<pending, slot, pool, proc>>
      BY <1>9 DEF CancelMiss, queueVars
    <2> QED
      BY <1>0, <1>2, <1>4, <1>5, <2>1, StillOnce DEF OnceInv
  <1> QED
    BY <1>6, <1>7, <1>8, <1>9 DEF CancelStep
(* enforce_task_timeouts: a subagent is queued again under its id, any other *)
(* task under an id that uuid4 has just made.                                *)
LEMMA TimeoutsOnce ==
    ASSUME PostedLast, TypeOK, SlotInv, OnceInv, http' = http, Timeouts
    PROVE  OnceInv'
  <1>0. OnePlace /\ FreshInv /\ Distinct(pending)
    BY DEF OnceInv, OnePlace
  <1>1. ASSUME NEW id \in Ids, TimeoutPass(id) \/ TimeoutGrace(id)
        PROVE  OnceInv'
    <2>1. /\ UNCHANGED <<pending, slot, pool, proc, bounds, result, events, phase>>
          /\ phase = "timeouts"
      BY <1>1 DEF TimeoutPass, TimeoutGrace, At, In, queueVars, fileVars, eventVars
    <2>2. Results /\ Asked
      BY <1>0, <2>1, AskedLess DEF Results
    <2>3. KeepInv'
      BY <2>1, KeepElsewhere
    <2> QED
      BY <1>0, <2>1, <2>2, <2>3, StillOnce DEF OnceInv
  <1>2. ASSUME NEW id \in Ids, TimeoutStop(id)
        PROVE  /\ todo[id].worker \in Workers /\ todo[id].task \in Tasks
               /\ slot[todo[id].worker] = id
               /\ slot' = [slot EXCEPT ![todo[id].worker] = None]
               /\ proc' = Respawned(todo[id].worker)
               /\ UNCHANGED <<pool, events, bounds>>
               /\ KeepInv'
    <2>1. phase = "timeouts" /\ phase' = phase
      BY <1>2 DEF TimeoutStop, At, In
    <2>2. KeepInv'
      BY <2>1, KeepElsewhere
    <2>3. todo[id].worker \in Workers /\ todo[id].task \in Tasks
      BY <1>2, TodoType DEF TimeoutStop
    <2>4. slot[todo[id].worker] = id
      BY <1>2, <2>1 DEF TimeoutStop, At, SlotInv, TodoInv, RunningIsBusy
    <2> QED
      BY <1>2, <2>2, <2>3, <2>4 DEF TimeoutStop
  <1>3. ASSUME NEW id \in Ids, TimeoutFail(id)
        PROVE  OnceInv'
    <2>1. TimeoutStop(id) /\ UNCHANGED pending /\ result' = Written(id, "failed")
      BY <1>3 DEF TimeoutFail
    <2>2. Results
      BY <1>2, <2>1, WrittenResults, StatusTypes DEF Results
    <2>3. Asked
      BY <1>0, <1>2, <2>1, AskedLess
    <2>4. /\ \A v \in Workers : slot'[v] \in {slot[v], None}
          /\ \A i \in Ids, v \in Workers : Holds(v, i)' => Holds(v, i)
      <3> DEFINE w == todo[id].worker
      <3>1. /\ w \in Workers /\ slot' = [slot EXCEPT ![w] = None]
            /\ proc' = Respawned(w) /\ pool' = pool
        BY <1>2, <2>1
      <3> HIDE DEF w
      <3> QED
        BY <3>1, FreedSlot
    <2>5. Shrinks
      BY <1>0, <2>1, <2>4 DEF Shrinks, Queued, Distinct
    <2> QED
      BY <1>0, <1>2, <2>1, <2>2, <2>3, <2>5, ShrinkFresh DEF OnceInv
  <1>4. ASSUME NEW id \in Ids, NEW retry \in Ids, TimeoutRetry(id, retry)
        PROVE  OnceInv'
    <2>1. /\ TimeoutStop(id)
          /\ \/ retry = id
             \/ retry \in RetryIds /\ result[retry] = NoResult
          /\ result' = [result EXCEPT ![retry] = Guarded(@, "scheduled"),
                                      ![id] = Guarded(result[id], "interrupted")]
          /\ pending' = Enqueued(pending, Again(todo[id].task, retry), TRUE)
      BY <1>4 DEF TimeoutRetry
    <2>2. PICK w \in Workers, t \in Tasks :
              /\ t.id = retry /\ pending' = Enqueued(pending, t, TRUE)
              /\ slot[w] = id /\ slot' = [slot EXCEPT ![w] = None]
              /\ proc' = Respawned(w) /\ UNCHANGED <<pool, events, bounds>> /\ KeepInv'
      <3>1. /\ Again(todo[id].task, retry) \in Tasks
            /\ Again(todo[id].task, retry).id = retry
        BY <1>2, <2>1, AgainType DEF Again, Tasks
      <3> QED
        BY <1>2, <2>1, <3>1
    <2>3. Results /\ result'[retry] # NoResult
      <3>1. \A f : Guarded(f, "scheduled") # NoResult /\ Guarded(f, "interrupted") # NoResult
        BY StatusTypes DEF Guarded, TrulyTerminal
      <3> QED
        BY <2>1, <2>2, <3>1 DEF Results, TypeOK
    <2>4. CASE retry = id
      <3>1. OnePlace' /\ FreshInv'
        BY <1>0, <2>2, <2>3, <2>4, Requeued
      <3> QED
        BY <2>2, <3>1 DEF OnceInv
    <2>5. CASE retry \in RetryIds /\ result[retry] = NoResult
      <3>1. Nowhere(retry) /\ ~Requested(retry) /\ retry \notin bounds.owner /\ retry # http
        BY <1>0, <2>5, TaskQueueAssumption
        DEF PostedLast, FreshInv, NoResultIsFresh, RequestedAreFresh, OwnersAreFresh,
            PostedIsFresh
      <3>2. ~Requested(retry)' /\ retry \notin bounds'.owner
        BY <2>2, <3>1 DEF Requested
      <3>3. Asked
        BY <1>0, <2>2, AskedLess
      <3>4. /\ \A v \in Workers : slot'[v] \in {slot[v], None}
            /\ \A i \in Ids, v \in Workers : Holds(v, i)' => Holds(v, i)
        BY <2>2, FreedSlot
      <3>5. OnePlace' /\ FreshInv'
        BY <1>0, <2>2, <2>3, <3>1, <3>2, <3>3, <3>4, FreshQueued
      <3> QED
        BY <2>2, <3>5 DEF OnceInv
    <2> QED
      BY <2>1, <2>4, <2>5
  <1>5. CASE TimeoutsEnd
    <2>1. /\ UNCHANGED <<pending, slot, pool, proc, bounds, result, events>>
          /\ phase' = "produce"
      BY <1>5 DEF TimeoutsEnd, queueVars, fileVars, eventVars
    <2>2. Results /\ Asked
      BY <1>0, <2>1, AskedLess DEF Results
    <2>3. KeepInv'
      BY <2>1, KeepElsewhere
    <2> QED
      BY <1>0, <2>1, <2>2, <2>3, StillOnce DEF OnceInv
  <1> QED
    BY <1>1, <1>3, <1>4, <1>5 DEF Timeouts
(* assign_tasks: what the drop loop keeps was pending, and the first pending *)
(* task leaves PENDING for a free slot and the inbox of its process.         *)
LEMMA DropStepKeeps ==
    ASSUME TypeOK, OnceInv, DropStep
    PROVE  KeepInv'
  <1> DEFINE at == sweep.at
             keep == sweep.keep
  <1>1. /\ phase = "drop" /\ at \in DOMAIN pending /\ at \in Nat /\ keep \in Seq(Tasks)
        /\ pending \in Seq(Tasks) /\ pending[at] \in Tasks
    BY ElementOfSeq, LenProperties DEF DropStep, TypeOK
  <1>2. at # 0
    BY <1>1, LenProperties
  <1>3. /\ Distinct(keep)
        /\ \A i \in DOMAIN keep : \E j \in DOMAIN pending : keep[i] = pending[j] /\ j < at
    BY <1>1, <1>2 DEF OnceInv, KeepInv
  <1>4. /\ sweep'.at = at + 1 /\ UNCHANGED pending
        /\ sweep'.keep = keep \/ sweep'.keep = Append(keep, pending[at])
    BY DEF DropStep, TypeOK, queueVars
  <1> HIDE DEF at, keep
  <1>5. at + 1 # 0 /\ \A j \in Int : j < at => j < at + 1 /\ j # at
    BY <1>1
  <1>6. DOMAIN pending \subseteq Int /\ at < at + 1
    BY <1>1, LenProperties
  <1>7. ASSUME NEW k, Distinct(k),
               \A i \in DOMAIN k : \E j \in DOMAIN pending : k[i] = pending[j] /\ j < at + 1,
               sweep'.keep = k
        PROVE  KeepInv'
    BY <1>4, <1>5, <1>7 DEF KeepInv, Distinct
  <1>8. CASE sweep'.keep = keep
    BY <1>3, <1>5, <1>6, <1>7, <1>8
  <1>9. CASE sweep'.keep = Append(keep, pending[at])
    <2> DEFINE k == Append(keep, pending[at])
               n == Len(keep) + 1
    <2>1. /\ DOMAIN keep = 1 .. Len(keep) /\ DOMAIN k = 1 .. n /\ Len(keep) \in Nat
          /\ k[n] = pending[at]
          /\ \A i \in DOMAIN keep : k[i] = keep[i]
      BY <1>1, LongerEntries
    <2> HIDE DEF k
    <2>2. \A i \in DOMAIN k : i \in DOMAIN keep \/ i = n
      BY <2>1
    <2>3. \A i \in DOMAIN keep : keep[i].id # pending[at].id
      <3>1. Distinct(pending)
        BY DEF OnceInv, OnePlace
      <3> QED
        BY <1>1, <1>3, <1>5, <1>6, <3>1 DEF Distinct
    <2>4. Distinct(k)
      <3>1. \A i, j \in DOMAIN keep : k[i].id = k[j].id => i = j
        BY <1>3, <2>1 DEF Distinct
      <3>2. \A i \in DOMAIN keep : k[i].id # k[n].id
        BY <2>1, <2>3
      <3> QED
        BY <2>2, <3>1, <3>2 DEF Distinct
    <2>5. \A i \in DOMAIN k : \E j \in DOMAIN pending : k[i] = pending[j] /\ j < at + 1
      <3>1. \A i \in DOMAIN keep : \E j \in DOMAIN pending : k[i] = pending[j] /\ j < at + 1
        BY <1>3, <1>5, <1>6, <2>1
      <3> QED
        BY <1>1, <1>6, <2>1, <2>2, <3>1
    <2> QED
      BY <1>7, <1>9, <2>4, <2>5 DEF k
  <1> QED
    BY <1>4, <1>8, <1>9

LEMMA AssignOnce ==
    ASSUME TypeOK, OnceInv, http' = http, NEW w \in Workers, Assign(w)
    PROVE  OnceInv'
  <1>0. OnePlace /\ FreshInv
    BY DEF OnceInv
  <1>1. PICK t \in Tasks : t = Head(pending)
    BY HeadTailProperties DEF Assign, TypeOK
  <1>2. /\ phase = "assign" /\ phase' = phase /\ UNCHANGED <<pool, events, bounds>>
        /\ slot[w] = None /\ pending # <<>> /\ pending \in Seq(Tasks)
        /\ pending' = Tail(pending)
        /\ slot' = [slot EXCEPT ![w] = t.id]
        /\ proc' = [proc EXCEPT ![w].inbox = Append(@, t)]
        /\ result' = result \/ result' = Written(t.id, "running")
    BY <1>1 DEF Assign, TypeOK, eventVars, loopVars
  <1>3. t.id \in Ids /\ t.id # None /\ {t.id} \in SUBSET Ids
    BY TaskQueueAssumption DEF Tasks
  <1>4. /\ Distinct(pending')
        /\ \A id \in Ids : Queued(id)' => Queued(id) /\ id # t.id
        /\ Queued(t.id)
    <2>1. /\ Distinct(Tail(pending))
          /\ \A i \in DOMAIN Tail(pending) :
                /\ Tail(pending)[i].id # t.id
                /\ \E j \in DOMAIN pending : Tail(pending)[i] = pending[j]
          /\ \E j \in DOMAIN pending : t = pending[j]
      BY <1>0, <1>1, <1>2, TailOnce DEF OnePlace
    <2> QED
      BY <1>2, <2>1 DEF Queued
  <1>5. \A v \in Workers : slot[v] # t.id /\ ~Holds(v, t.id)
    BY <1>0, <1>3, <1>4 DEF OnePlace, QueuedIsFree
  <1>6. \A v \in Workers : slot'[v] = IF v = w THEN t.id ELSE slot[v]
    BY <1>2 DEF TypeOK
  <1>7. \A id \in Ids, v \in Workers : Holds(v, id)' => Holds(v, id) \/ (id = t.id /\ v = w)
    <2>1. /\ \A v \in Workers : v # w => proc'[v] = proc[v]
          /\ proc'[w] = [proc[w] EXCEPT !.inbox = Append(@, t)]
          /\ proc[w] \in Processes
      BY <1>2 DEF TypeOK
    <2>2. /\ proc'[w].state = proc[w].state /\ proc'[w].does = proc[w].does
          /\ proc'[w].inbox = Append(proc[w].inbox, t) /\ proc[w].inbox \in Seq(Tasks)
      BY <2>1 DEF Processes
    <2>3. \A i \in DOMAIN proc'[w].inbox :
              \/ i \in DOMAIN proc[w].inbox /\ proc'[w].inbox[i] = proc[w].inbox[i]
              \/ proc'[w].inbox[i] = t
      BY <2>2, LongerEntries
    <2>4. \A id \in Ids : HoldsIn(proc'[w], id) => HoldsIn(proc[w], id) \/ id = t.id
      BY <2>2, <2>3 DEF HoldsIn
    <2> QED
      BY <1>2, <2>1, <2>4, HoldsProcess
  <1>8. Results
    BY <1>2, <1>3, WrittenResults, StatusTypes DEF Results
  <1>9. Asked
    BY <1>0, <1>2, AskedLess
  <1>10. ~Nowhere(t.id)
    BY <1>4 DEF Nowhere
  <1>11. OnePlace'
    <2>1. SlotsDiffer'
      BY <1>0, <1>3, <1>5, <1>6 DEF OnePlace, SlotsDiffer
    <2>2. QueuedIsFree'
      BY <1>0, <1>4, <1>6, <1>7 DEF OnePlace, QueuedIsFree
    <2>3. HeldInSlot'
      <3>1. SUFFICES ASSUME NEW id \in Ids, NEW u \in Workers, NEW v \in Workers,
                            Holds(u, id)', slot'[v] = id
                     PROVE  u = v
        BY DEF HeldInSlot
      <3> QED
        BY <1>0, <1>3, <1>5, <1>6, <1>7, <3>1 DEF OnePlace, HeldInSlot
    <2>4. SingleExecution'
      BY <1>0, <1>5, <1>7 DEF OnePlace, SingleExecution
    <2>5. Distinct(pending)'
      BY <1>4 DEF Distinct
    <2> QED
      BY <2>1, <2>2, <2>3, <2>4, <2>5 DEF OnePlace
  <1>12. FreshInv'
    <2>1. \A id \in Ids \ {t.id} : Nowhere(id) => Nowhere(id)'
      BY <1>3, <1>4, <1>6, <1>7 DEF Nowhere
    <2>2. /\ t.id \notin OwnerIds => result'[t.id] # NoResult
          /\ t.id \notin bounds'.owner
          /\ ~Requested(t.id)'
          /\ t.id # http
      BY <1>0, <1>2, <1>3, <1>8, <1>10
      DEF FreshInv, NoResultIsFresh, OwnersAreFresh, RequestedAreFresh, PostedIsFresh,
          Results, Requested
    <2> QED
      BY <1>0, <1>3, <1>8, <1>9, <2>1, <2>2, KeepsFresh
  <1>13. KeepInv'
    BY <1>2, KeepElsewhere
  <1> QED
    BY <1>11, <1>12, <1>13 DEF OnceInv

LEMMA AssignTasksOnce ==
    ASSUME TypeOK, OnceInv, http' = http, AssignTasks
    PROVE  OnceInv'
  <1>0. OnePlace /\ FreshInv /\ Distinct(pending)
    BY DEF OnceInv, OnePlace
  <1>1. CASE AssignNothing \/ AssignBegin \/ AssignEnd
    <2>1. /\ UNCHANGED <<pending, slot, pool, proc, bounds, result, events>>
          /\ phase' = "drop" => sweep'.keep = <<>>
      BY <1>1 DEF AssignNothing, AssignBegin, AssignEnd, queueVars, fileVars, eventVars
    <2>2. Results /\ Asked
      BY <1>0, <2>1, AskedLess DEF Results
    <2>3. KeepInv'
      <3>1. DOMAIN <<>> = {}
        BY EmptySeq, LenProperties
      <3> QED
        BY <2>1, <3>1 DEF KeepInv, Distinct
    <2> QED
      BY <1>0, <2>1, <2>2, <2>3, StillOnce DEF OnceInv
  <1>2. CASE DropStep
    <2>1. /\ UNCHANGED <<pending, slot, pool, proc, bounds, events>>
          /\ sweep.at \in DOMAIN pending
          /\ \/ result' = result
             \/ result' = Written(pending[sweep.at].id, "cancelled")
      BY <1>2 DEF DropStep, queueVars
    <2>2. pending[sweep.at].id \in Ids
      <3>1. pending \in Seq(Tasks)
        BY DEF TypeOK
      <3>2. pending[sweep.at] \in Tasks
        BY <2>1, <3>1, ElementOfSeq, LenProperties
      <3> QED
        BY <3>2 DEF Tasks
    <2>3. Results /\ Asked
      BY <1>0, <2>1, <2>2, AskedLess, WrittenResults, StatusTypes DEF Results
    <2> QED
      BY <1>0, <1>2, <2>1, <2>3, StillOnce, DropStepKeeps DEF OnceInv
  <1>3. CASE DropDone
    <2>1. /\ UNCHANGED <<pending, slot, pool, proc, bounds, result, events, phase>>
          /\ sweep'.at = 0 /\ sweep'.keep = sweep.keep /\ phase = "drop"
      BY <1>3 DEF DropDone, TypeOK, queueVars, fileVars, eventVars
    <2>2. Results /\ Asked
      BY <1>0, <2>1, AskedLess DEF Results
    <2>3. KeepInv'
      BY <2>1 DEF OnceInv, KeepInv, Distinct
    <2> QED
      BY <1>0, <2>1, <2>2, <2>3, StillOnce DEF OnceInv
  <1>4. CASE DropEnd
    <2>1. /\ UNCHANGED <<slot, pool, proc, bounds, result, events>>
          /\ phase = "drop" /\ phase' = "assign"
          /\ pending' = pending \/ pending' = sweep.keep
      BY <1>4 DEF DropEnd, fileVars, eventVars
    <2>2. Results /\ Asked
      BY <1>0, <2>1, AskedLess DEF Results
    <2>3. Distinct(pending') /\ \A id \in Ids : Queued(id)' => Queued(id)
      BY <1>0, <2>1 DEF OnceInv, KeepInv, Queued
    <2>4. Shrinks
      BY <2>1, <2>3 DEF Shrinks, Holds, Up
    <2>5. KeepInv'
      BY <2>1, KeepElsewhere
    <2> QED
      BY <1>0, <2>2, <2>4, <2>5, ShrinkFresh DEF OnceInv
  <1> QED
    BY <1>1, <1>2, <1>3, <1>4, AssignOnce DEF AssignTasks

(* A due scheduled task, and one of the owner's, are queued the first time.  *)
LEMMA ProduceOnce ==
    ASSUME PostedLast, TypeOK, OnceInv, http' = http, Produce
    PROVE  OnceInv'
  <1>0. OnePlace /\ FreshInv
    BY DEF OnceInv
  <1>1. ASSUME NEW id \in Ids, Nowhere(id), New(id).id = id, New(id) \in Tasks,
               pending' = Enqueued(pending, New(id), FALSE),
               UNCHANGED <<slot, pool, proc, events, phase>>, phase # "drop",
               Results, id \notin OwnerIds => result'[id] # NoResult,
               id \notin bounds'.owner, ~Requested(id), id # http
        PROVE  OnceInv'
    <2>1. /\ \A w \in Workers : slot'[w] \in {slot[w], None}
          /\ \A i \in Ids, w \in Workers : Holds(w, i)' => Holds(w, i)
      BY <1>1 DEF Holds, Up
    <2>2. Asked /\ ~Requested(id)'
      BY <1>0, <1>1, AskedLess DEF Requested
    <2>3. PICK t \in Tasks : t = New(id)
      BY <1>1
    <2>4. OnePlace' /\ FreshInv'
      BY <1>0, <1>1, <2>1, <2>2, <2>3, FreshQueued
    <2>5. KeepInv'
      BY <1>1, KeepElsewhere
    <2> QED
      BY <2>4, <2>5 DEF OnceInv
  <1>2. \A id \in Ids : New(id).id = id /\ New(id) \in Tasks
    BY NewType DEF New
  <1>3. ASSUME NEW id \in Ids, CronDue(id)
        PROVE  OnceInv'
    <2>1. /\ pending' = Enqueued(pending, New(id), FALSE)
          /\ UNCHANGED <<slot, pool, proc, events, phase, bounds>> /\ phase # "drop"
          /\ result[id] = NoResult /\ id \notin OwnerIds
          /\ result' = Written(id, "scheduled")
      BY <1>3 DEF CronDue, In, PostedLast, eventVars, loopVars
    <2>2. Results /\ result'[id] # NoResult
      BY <2>1, WrittenResults, StatusTypes DEF Results
    <2>3. Nowhere(id) /\ ~Requested(id) /\ id \notin bounds'.owner /\ id # http
      BY <1>0, <2>1, TaskQueueAssumption
      DEF FreshInv, NoResultIsFresh, RequestedAreFresh, OwnersAreFresh, PostedIsFresh
    <2> QED
      BY <1>1, <1>2, <2>1, <2>2, <2>3
  <1>4. ASSUME NEW id \in Ids, OwnerQueues(id)
        PROVE  OnceInv'
    <2>1. /\ pending' = Enqueued(pending, New(id), FALSE)
          /\ UNCHANGED <<slot, pool, proc, events, phase, result>> /\ phase # "drop"
          /\ id \in bounds.owner /\ bounds'.owner = bounds.owner \ {id}
      BY <1>4 DEF OwnerQueues, In, TypeOK, eventVars, fileVars, loopVars
    <2>2. Results
      BY <2>1 DEF Results
    <2>3. Nowhere(id) /\ id \in OwnerIds
      BY <1>0, <2>1 DEF FreshInv, OwnersAreFresh
    <2>4. ~Requested(id) /\ id # http
      BY <1>0, <2>3, TaskQueueAssumption
      DEF PostedLast, FreshInv, RequestedAreFresh, PostedIsFresh
    <2> QED
      BY <1>1, <1>2, <2>1, <2>2, <2>3, <2>4
  <1> QED
    BY <1>3, <1>4 DEF Produce
-----------------------------------------------------------------------------
(* A worker's step that takes no new task.                                   *)
LEMMA WorkerKeeps ==
    ASSUME TypeOK, OnceInv, WorkerOnly, Results, Asked, http' = http, NEW w \in Workers,
           \A v \in Workers : v # w => proc'[v] = proc[v],
           \A id \in Ids : HoldsIn(proc'[w], id) => HoldsIn(proc[w], id)
    PROVE  OnceInv'
  <1>1. UNCHANGED <<pending, slot, pool, phase, sweep>>
    BY DEF WorkerOnly, queueVars, loopVars
  <1>2. \A id \in Ids, v \in Workers : Holds(v, id)' => Holds(v, id)
    BY <1>1, HoldsProcess
  <1>3. Shrinks
    BY <1>1, <1>2 DEF OnceInv, OnePlace, Shrinks, Queued, Distinct
  <1>4. KeepInv'
    BY <1>1, KeepStays DEF OnceInv
  <1> QED
    BY <1>3, <1>4, ShrinkFresh DEF OnceInv

(* A report of a status leaves no task without a result that had one.        *)
LEMMA ReportedResults ==
    ASSUME TypeOK, NEW task \in Tasks, NEW s \in Files, s # NoResult, Report(task, s),
           bounds' = bounds
    PROVE  Results
  <1>1. task.id \in Ids
    BY DEF Tasks
  <1> QED
    BY <1>1, WrittenResults DEF Report, Results

LEMMA WorkerOnce ==
    ASSUME PostedLast, TypeOK, OnceInv, http' = http, NEW w \in Workers, Worker(w)
    PROVE  OnceInv'
  <1>0. OnePlace /\ FreshInv
    BY DEF OnceInv
  <1>1. proc[w] \in Processes
    BY DEF TypeOK
  <1>2. CASE Take(w)
    <2>1. PICK p \in Processes, t \in Tasks : p = proc[w] /\ p.inbox # <<>> /\ t = Head(p.inbox)
      <3>1. proc[w].inbox \in Seq(Tasks) /\ proc[w].inbox # <<>>
        BY <1>1, <1>2, ProcessType DEF Take
      <3>2. Head(proc[w].inbox) \in Tasks
        BY <3>1, HeadTailProperties
      <3> QED
        BY <1>1, <3>1, <3>2
    <2>2. /\ WorkerOnly /\ UNCHANGED <<events, bounds>> /\ Report(t, "running")
          /\ p.state = "up"
          /\ proc' = [proc EXCEPT ![w].inbox = Tail(@),
                                  ![w].does = [kind |-> "working", task |-> t]]
      BY <1>2, <2>1 DEF Take, Up
    <2>3. /\ proc'[w].inbox = Tail(p.inbox) /\ p.inbox \in Seq(Tasks)
          /\ proc'[w].does = [kind |-> "working", task |-> t]
          /\ \A v \in Workers : v # w => proc'[v] = proc[v]
      BY <2>1, <2>2 DEF TypeOK, Processes
    <2>4. \A id \in Ids : HoldsIn(proc'[w], id) => HoldsIn(p, id)
      <3>1. proc'[w].does.task = t
        BY <2>3
      <3>2. /\ \A i \in DOMAIN proc'[w].inbox :
                  proc'[w].inbox[i] = p.inbox[i + 1] /\ i + 1 \in DOMAIN p.inbox
            /\ t = p.inbox[1] /\ 1 \in DOMAIN p.inbox
        BY <2>1, <2>3, TailEntries
      <3> QED
        BY <2>2, <3>1, <3>2 DEF HoldsIn
    <2>5. Results /\ Asked
      BY <1>0, <2>2, AskedLess, ReportedResults, StatusTypes
    <2> QED
      BY <2>1, <2>2, <2>3, <2>4, <2>5, WorkerKeeps
  <1>3. ASSUME NEW status \in {"completed", "failed"}, Store(w, status)
        PROVE  OnceInv'
    <2>1. /\ WorkerOnly /\ UNCHANGED <<events, bounds>> /\ proc[w].does # Idle
          /\ proc' = [proc EXCEPT ![w].does.kind = "stored"]
      BY <1>3 DEF Store, Working
    <2>2. Results
      <3>1. PICK t \in Tasks : t = proc[w].does.task
        BY <2>1, DoesType
      <3>2. status \in Files /\ status # NoResult
        BY StatusTypes
      <3> QED
        BY <1>3, <2>1, <3>1, <3>2, ReportedResults DEF Store
    <2>3. Asked
      BY <1>0, <2>1, AskedLess
    <2>4. /\ \A v \in Workers : v # w => proc'[v] = proc[v]
          /\ proc'[w].inbox = proc[w].inbox /\ proc'[w].does.task = proc[w].does.task
      <3>1. proc[w].does \in Busy
        BY <2>1, DoesType
      <3> QED
        BY <2>1, <3>1, <1>1 DEF TypeOK, Processes, Busy
    <2>5. \A id \in Ids : HoldsIn(proc'[w], id) => HoldsIn(proc[w], id)
      BY <1>3, <2>1, <2>4 DEF HoldsIn, Store, Working, Up
    <2> QED
      BY <2>1, <2>2, <2>3, <2>4, <2>5, WorkerKeeps
  <1>4. ASSUME Emit(w) \/ Break(w)
        PROVE  OnceInv'
    <2>1. /\ WorkerOnly /\ UNCHANGED <<result, bounds>>
          /\ proc' = [proc EXCEPT ![w].does = Idle]
          /\ \/ events' = events
             \/ /\ proc[w].does # Idle
                /\ events' = Append(events, [kind |-> "task_done", by |-> w,
                                             id |-> proc[w].does.task.id])
      BY <1>4 DEF Emit, Break
    <2>2. Asked
      <3>1. CASE events' = events
        BY <1>0, <3>1, AskedLess
      <3>2. CASE events' # events
        <4> DEFINE e == [kind |-> "task_done", by |-> w, id |-> proc[w].does.task.id]
        <4>1. e \in Events /\ ~Schedule(e)
          BY <2>1, <3>2, DoesType DEF Events, Schedule
        <4>2. events' = Append(events, e)
          BY <2>1, <3>2
        <4> HIDE DEF e
        <4> QED
          BY <1>0, <4>1, <4>2, AskedLess
      <3> QED
        BY <3>1, <3>2
    <2>3. Results
      BY <2>1 DEF Results
    <2>4. /\ \A v \in Workers : v # w => proc'[v] = proc[v]
          /\ proc'[w].inbox = proc[w].inbox /\ proc'[w].does = Idle
          /\ proc'[w].state = proc[w].state
      BY <2>1, <1>1 DEF TypeOK, Processes
    <2>5. \A id \in Ids : HoldsIn(proc'[w], id) => HoldsIn(proc[w], id)
      BY <2>4 DEF HoldsIn
    <2> QED
      BY <2>1, <2>2, <2>3, <2>4, <2>5, WorkerKeeps
  <1>5. ASSUME NEW how \in {"exited", "signalled"}, Die(w, how)
        PROVE  OnceInv'
    <2>1. /\ WorkerOnly /\ UNCHANGED <<result, events>>
          /\ bounds'.owner = bounds.owner
          /\ proc' = [proc EXCEPT ![w] = [Fresh EXCEPT !.state = how]]
      BY <1>5 DEF Die, TypeOK
    <2>2. Asked /\ Results
      BY <1>0, <2>1, AskedLess DEF Results
    <2>3. /\ \A v \in Workers : v # w => proc'[v] = proc[v]
          /\ proc'[w] = [Fresh EXCEPT !.state = how]
      BY <2>1 DEF TypeOK
    <2>4. \A id \in Ids : HoldsIn(proc'[w], id) => HoldsIn(proc[w], id)
      BY <2>3, FreshHoldsNothing
    <2> QED
      BY <2>1, <2>2, <2>3, <2>4, WorkerKeeps
  <1>6. ASSUME NEW id \in Ids, RequestCancel(w, id)
        PROVE  OnceInv'
    <2> DEFINE e == [kind |-> "cancel", id |-> id, by |-> w]
    <2>1. /\ WorkerOnly /\ UNCHANGED proc /\ bounds'.owner = bounds.owner
          /\ result' = Written(id, "cancel_requested")
          /\ events' = Append(events, e)
      BY <1>6 DEF RequestCancel, TypeOK
    <2>2. e \in Events /\ ~Schedule(e)
      BY DEF Events, Schedule
    <2> HIDE DEF e
    <2>3. Asked
      BY <1>0, <2>1, <2>2, AskedLess
    <2>4. Results
      BY <2>1, WrittenResults, StatusTypes DEF Results
    <2> QED
      BY <2>1, <2>3, <2>4, WorkerKeeps
  <1>7. ASSUME NEW id \in Ids, ScheduleSubagent(w, id)
        PROVE  OnceInv'
    <2> DEFINE e == [kind |-> "schedule", id |-> id, by |-> w]
    <2>1. /\ UNCHANGED <<pending, slot, pool, phase, sweep, proc, bounds>>
          /\ id \in Subagents /\ result[id] = NoResult
          /\ result' = Written(id, "requested")
          /\ events' = Append(events, e)
      BY <1>7 DEF ScheduleSubagent, WorkerOnly, queueVars, loopVars
    <2>2. e \in Events /\ e.id = id /\ events \in Seq(Events)
      BY DEF Events, TypeOK
    <2> HIDE DEF e
    <2>3. Nowhere(id) /\ ~Requested(id)
      BY <1>0, <2>1 DEF PostedLast, FreshInv, NoResultIsFresh, RequestedAreFresh
    <2>4. Results /\ result'[id] # NoResult
      BY <2>1, WrittenResults, StatusTypes DEF Results
    <2>5. Shrinks
      BY <1>0, <2>1 DEF OnePlace, Shrinks, Queued, Distinct, Holds, Up
    <2>6. OnePlace' /\ \A i \in Ids : Nowhere(i) => Nowhere(i)'
      BY <1>0, <2>5, ShrinkOnce
    <2>7. /\ DOMAIN events' = 1 .. Len(events) + 1 /\ DOMAIN events = 1 .. Len(events)
          /\ Len(events) \in Nat /\ events'[Len(events) + 1] = e
          /\ \A i \in DOMAIN events : events'[i] = events[i]
      BY <2>1, <2>2, LongerEntries
    <2>8. \A i \in DOMAIN events' : i \in DOMAIN events \/ i = Len(events) + 1
      BY <2>7
    <2>9. \A i \in Ids : Requested(i)' => Requested(i) \/ i = id
      BY <2>2, <2>7, <2>8 DEF Requested
    <2>10. RequestedOnce'
      <3>1. \A i, j \in DOMAIN events :
                Schedule(events'[i]) /\ Schedule(events'[j]) /\ events'[i].id = events'[j].id
                    => i = j
        BY <1>0, <2>7 DEF FreshInv, RequestedOnce
      <3>2. \A i \in DOMAIN events : Schedule(events'[i]) => events'[i].id # id
        BY <2>3, <2>7 DEF Requested
      <3>3. events'[Len(events) + 1].id = id
        BY <2>2, <2>7
      <3> QED
        BY <2>8, <3>1, <3>2, <3>3 DEF RequestedOnce
    <2>11. RequestedAreFresh'
      BY <1>0, <2>1, <2>3, <2>4, <2>6, <2>9 DEF FreshInv, RequestedAreFresh, Results
    <2>12. NoResultIsFresh' /\ OwnersAreFresh'
      <3>1. bounds.owner \in SUBSET Ids
        BY DEF TypeOK
      <3> QED
        BY <1>0, <2>1, <2>4, <2>6, <3>1
        DEF FreshInv, NoResultIsFresh, OwnersAreFresh, Results
    <2>14. PostedIsFresh'
      BY <1>0, <2>4, <2>6 DEF FreshInv, PostedIsFresh, Results, TypeOK
    <2>13. KeepInv'
      BY <2>1, KeepStays DEF OnceInv
    <2> QED
      BY <2>6, <2>10, <2>11, <2>12, <2>13, <2>14 DEF FreshInv, OnceInv
  <1> QED
    BY <1>2, <1>3, <1>4, <1>5, <1>6, <1>7 DEF Worker

(* A posted task gets its result, and then the last place in PENDING.        *)
LEMMA HttpOnce ==
    ASSUME PostedLast, TypeOK, OnceInv, Http
    PROVE  OnceInv'
  <1>0. OnePlace /\ FreshInv /\ KeepInv
    BY DEF OnceInv
  <1>1. ASSUME NEW id \in Ids, HttpCreate(id)
        PROVE  OnceInv'
    <2>1. /\ UNCHANGED <<pending, slot, pool, proc, events, phase, sweep, bounds>>
          /\ id \in HttpIds /\ result[id] = NoResult /\ http' = id
          /\ result' = Written(id, "scheduled")
      BY <1>1 DEF HttpCreate, queueVars, eventVars, loopVars
    <2>2. Results /\ Asked /\ result'[id] # NoResult
      BY <1>0, <2>1, AskedLess, WrittenResults, StatusTypes DEF Results
    <2>3. Shrinks
      BY <1>0, <2>1 DEF OnePlace, Shrinks, Queued, Distinct, Holds, Up
    <2>4. OnePlace' /\ \A i \in Ids : Nowhere(i) => Nowhere(i)'
      BY <1>0, <2>3, ShrinkOnce
    <2>5. id \notin OwnerIds /\ Nowhere(id)
      BY <1>0, <2>1 DEF PostedLast, FreshInv, NoResultIsFresh
    <2>6. PostedIsFresh'
      BY <2>1, <2>2, <2>4, <2>5 DEF PostedIsFresh
    <2>7. OwnersAreFresh'
      <3>1. bounds.owner \in SUBSET Ids
        BY DEF TypeOK
      <3> QED
        BY <1>0, <2>1, <2>4, <3>1 DEF FreshInv, OwnersAreFresh
    <2>8. NoResultIsFresh' /\ RequestedAreFresh' /\ RequestedOnce'
      BY <1>0, <2>2, <2>4 DEF FreshInv, NoResultIsFresh, RequestedAreFresh, Results, Asked
    <2>9. KeepInv'
      BY <1>0, <2>1, KeepStays
    <2> QED
      BY <2>4, <2>6, <2>7, <2>8, <2>9 DEF FreshInv, OnceInv
  <1>2. ASSUME HttpEnqueue
        PROVE  OnceInv'
    <2>1. PICK t \in Tasks : t = New(http) /\ t.id = http /\ t.origin = http
      BY <1>2, NewType DEF HttpEnqueue, TypeOK, New
    <2>2. /\ http \in HttpIds /\ http # None /\ result[http] # NoResult /\ Nowhere(http)
          /\ http \in Ids
      BY <1>0, <1>2 DEF FreshInv, PostedIsFresh, HttpEnqueue, TypeOK
    <2>3. /\ pending' = Enqueued(pending, t, FALSE) /\ http' = None
          /\ UNCHANGED <<slot, pool, proc, events, phase, sweep, result, bounds>>
      BY <1>2, <2>1 DEF HttpEnqueue, eventVars, fileVars, loopVars
    <2>4. OnePlace' /\ \A id \in Ids \ {t.id} : Nowhere(id) => Nowhere(id)'
      <3>1. /\ ~Queued(t.id)
            /\ \A w \in Workers : /\ slot'[w] \in {slot[w], None} /\ slot'[w] # t.id
                                  /\ ~Holds(w, t.id)'
            /\ \A id \in Ids, w \in Workers : Holds(w, id)' => Holds(w, id)
        BY <2>1, <2>2, <2>3 DEF Nowhere, Holds, Up
      <3> QED
        BY <1>0, <2>3, <3>1, EnqueueOnce
    <2>5. /\ http \notin OwnerIds /\ http \notin bounds.owner /\ ~Requested(http)
          /\ \A id \in Ids : Priority[id] <= Priority[t.origin]
      BY <1>0, <2>1, <2>2
      DEF PostedLast, FreshInv, OwnersAreFresh, RequestedAreFresh
    <2>6. NoResultIsFresh' /\ RequestedAreFresh'
      BY <1>0, <2>1, <2>2, <2>3, <2>4, <2>5
      DEF FreshInv, NoResultIsFresh, RequestedAreFresh, Requested
    <2>7. OwnersAreFresh'
      <3>1. bounds.owner \in SUBSET Ids
        BY DEF TypeOK
      <3> QED
        BY <1>0, <2>1, <2>3, <2>4, <2>5, <3>1 DEF FreshInv, OwnersAreFresh
    <2>8. RequestedOnce' /\ PostedIsFresh'
      BY <1>0, <2>3 DEF FreshInv, RequestedOnce, PostedIsFresh
    <2>9. KeepInv'
      <3>1. \A j \in DOMAIN pending : j \in DOMAIN pending' /\ pending'[j] = pending[j]
        <4>1. pending \in Seq(Tasks)
          BY DEF TypeOK
        <4> QED
          BY <2>3, <2>5, <4>1, EnqueuedLast
      <3> QED
        BY <1>0, <2>3, <3>1 DEF KeepInv, Distinct
    <2> QED
      BY <2>4, <2>6, <2>7, <2>8, <2>9 DEF FreshInv, OnceInv
  <1> QED
    BY <1>1, <1>2 DEF Http, HttpCancel, PostedLast

(* A step that touches none of it.                                           *)
LEMMA ElseOnce ==
    ASSUME TypeOK, OnceInv, http' = http, BudgetExhausted \/ UNCHANGED vars
    PROVE  OnceInv'
  <1>0. OnePlace /\ FreshInv /\ KeepInv
    BY DEF OnceInv
  <1>1. UNCHANGED <<pending, slot, pool, proc, bounds, result, events, phase, sweep>>
    BY DEF BudgetExhausted, vars, queueVars, fileVars, eventVars, loopVars
  <1>2. Results /\ Asked
    BY <1>0, <1>1, AskedLess DEF Results
  <1> QED
    BY <1>0, <1>1, <1>2, StillOnce, KeepStays DEF OnceInv
-----------------------------------------------------------------------------
LEMMA InitOnce == Init => OnceInv
  <1> SUFFICES ASSUME Init
               PROVE  OnceInv
    OBVIOUS
  <1>1. DOMAIN pending = {} /\ DOMAIN events = {}
    BY EmptySeq, LenProperties DEF Init
  <1>2. \A w \in Workers : slot[w] = None /\ proc[w] = Fresh
    BY DEF Init
  <1>3. \A id \in Ids, w \in Workers : ~Holds(w, id)
    BY <1>2, HoldsProcess, FreshHoldsNothing
  <1>4. \A id \in Ids : id # None
    BY TaskQueueAssumption
  <1>5. \A id \in Ids : Nowhere(id)
    BY <1>1, <1>2, <1>3, <1>4 DEF Nowhere, Queued
  <1>6. OnePlace
    BY <1>1, <1>2, <1>3 DEF OnePlace, Distinct, SlotsDiffer, QueuedIsFree, HeldInSlot,
                            SingleExecution, Queued
  <1>7. bounds.owner = OwnerIds /\ OwnerIds \subseteq Ids
    BY TaskQueueAssumption DEF Init
  <1>8. FreshInv
    BY <1>1, <1>5, <1>7 DEF Init, FreshInv, NoResultIsFresh, OwnersAreFresh,
                            RequestedAreFresh, Requested, RequestedOnce, PostedIsFresh
  <1>9. KeepInv
    BY DEF Init, KeepInv
  <1> QED
    BY <1>6, <1>8, <1>9 DEF OnceInv

(* Only the HTTP thread posts.                                               *)
LEMMA OnlyHttpPosts ==
    ASSUME [Next]_vars, ~Http
    PROVE  http' = http
  <1>1. CASE Health
    BY <1>1 DEF Health, ReapUntracked, ReapFinished, ReapFailed, ReapRetry, ReapTask,
                      Reap, HealthEnd, CrashStorm
  <1>2. CASE Drain
    BY <1>2 DEF Drain, DrainTaskDone, DrainNotice, TaskDone, DrainReject,
                      DrainSchedule, DrainCancel, CancelBegin, DrainEnd
  <1>3. CASE Timeouts
    BY <1>3 DEF Timeouts, TimeoutPass, TimeoutGrace, TimeoutFail, TimeoutRetry,
                      TimeoutStop, TimeoutsEnd
  <1>4. CASE AssignTasks
    BY <1>4 DEF AssignTasks, AssignNothing, AssignBegin, DropStep, DropDone, DropEnd,
                      Assign, AssignEnd
  <1>5. CASE Produce \/ CancelStep \/ BudgetExhausted
    BY <1>5 DEF Produce, CronDue, OwnerQueues, CancelStep, CancelPending,
                      CancelRunning, CancelRespawn, CancelMiss, BudgetExhausted
  <1>6. CASE \E w \in Workers : Worker(w)
    BY <1>6 DEF Worker, Take, Store, Emit, Break, Die, ScheduleSubagent,
                      RequestCancel, WorkerOnly
  <1>7. CASE UNCHANGED vars
    BY <1>7 DEF vars
  <1> QED
    BY <1>1, <1>2, <1>3, <1>4, <1>5, <1>6, <1>7 DEF Next, MainLoop

LEMMA StepOnce ==
    ASSUME PostedLast, TypeOK, LockInv, SlotInv, OnceInv, [Next]_vars
    PROVE  OnceInv'
  <1>1. CASE ~Http
    <2>1. http' = http
      BY <1>1, OnlyHttpPosts
    <2> QED
      BY <1>1, <2>1, HealthOnce, DrainOnce, CancelOnce, TimeoutsOnce, AssignTasksOnce,
         ProduceOnce, WorkerOnce, ElseOnce
      DEF Next, MainLoop
  <1> QED
    BY <1>1, HttpOnce

LEMMA OnceInvariant ==
    ASSUME PostedLast
    PROVE  Spec => []OnceInv
  <1>1. HttpCancels = {}
    BY DEF PostedLast
  <1>2. Spec => []SlotInv
    BY <1>1, SlotInvariant
  <1>3. QueueInv /\ SlotInv /\ OnceInv /\ [Next]_vars => OnceInv'
    BY StepOnce DEF QueueInv
  <1>4. QED
    BY <1>2, <1>3, InitOnce, QueueInvariant, PTL DEF Spec

(* No task id is ever in the hands of two live worker processes, whatever    *)
(* crashed, timed out, was retried, cancelled or reported late in between,   *)
(* and whether it was posted, scheduled or queued for the owner or an agent. *)
THEOREM ExecutedOnce ==
    ASSUME PostedLast
    PROVE  Spec => []SingleExecution
  <1>1. OnceInv => SingleExecution
    BY DEF OnceInv, OnePlace
  <1>2. QED
    BY <1>1, OnceInvariant, PTL
-----------------------------------------------------------------------------
(* The deployments without the HTTP endpoints, for the theorems that do not  *)
(* hold with them.                                                           *)
NoHttp ==
    /\ HttpIds = {} /\ HttpCancels = {}
    /\ OwnerIds \cap (RetryIds \cup CronIds \cup Subagents) = {}

Quiet == http = None

LEMMA NothingIsPosted ==
    ASSUME NoHttp
    PROVE  PostedLast
  BY DEF NoHttp, PostedLast

LEMMA HttpQuiet ==
    ASSUME NoHttp
    PROVE  Spec => []Quiet
  <1>1. Init => Quiet
    BY DEF Init, Quiet
  <1>2. Quiet /\ [Next]_vars => Quiet'
    BY OnlyHttpPosts DEF Quiet, Http, HttpCreate, HttpCancel, HttpEnqueue, NoHttp
  <1> QED
    BY <1>1, <1>2, PTL DEF Spec
=============================================================================
