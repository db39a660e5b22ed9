------------------------- MODULE TaskResults_proofs -------------------------
(* Machine-checked facts about the result store, for every set of tasks and  *)
(* writers and every choice of the statuses they write.                      *)
EXTENDS TaskResults, TLAPS

(* The guard never lets a write replace a terminal status by another one,    *)
(* nor a cancel request by anything but its teardown outcomes.               *)
LEMMA GuardProtects ==
    ASSUME NEW old \in Statuses, NEW new \in Statuses, ~IsRegression(old, new)
    PROVE  /\ old \in TrulyTerminal => new = old
           /\ old = "cancel_requested" => new \in {"cancel_requested", "cancelled", "failed"}
  BY DEF IsRegression

(* Forward progress is never refused: a file that is neither terminal nor    *)
(* cancel-requested takes any status.                                        *)
LEMMA GuardAdmitsProgress ==
    ASSUME NEW old \in Statuses \ (TrulyTerminal \cup {"cancel_requested"}),
           NEW new \in Statuses
    PROVE  ~IsRegression(old, new)
  <1>1. CASE old = Unranked
    BY <1>1 DEF IsRegression, Ranked, TrulyTerminal, Unranked
  <1>2. CASE old \in {"requested", "scheduled", "running", "interrupted"}
    <2>1. StatusRank[old] < RegressionGuardFloor
      BY <1>2 DEF StatusRank, RegressionGuardFloor, Ranked, TrulyTerminal
    <2>2. StatusRank[old] \in Nat /\ RegressionGuardFloor \in Nat
      BY <1>2 DEF StatusRank, RegressionGuardFloor, Ranked, TrulyTerminal
    <2>3. QED
      BY <1>2, <2>1, <2>2 DEF IsRegression, TrulyTerminal
  <1>3. QED
    BY <1>1, <1>2 DEF Statuses, Ranked

(* Every reachable state of the store is well typed. *)
THEOREM Typing == Spec => []TypeOK
  <1>1. Init => TypeOK
    BY DEF Init, TypeOK, Contents, Absent, Files, NoResult
  <1>2. TypeOK /\ [Next]_vars => TypeOK'
    <2> SUFFICES ASSUME TypeOK, [Next]_vars PROVE TypeOK'
      OBVIOUS
    <2>1. ASSUME NEW w \in Writers, NEW t \in Tasks, NEW s \in Statuses, Load(w, t, s)
          PROVE  TypeOK'
      <3>1. file[t].fields \cup {w} \in SUBSET Writers
        BY DEF TypeOK, Contents
      <3>2. QED
        BY <2>1, <3>1 DEF Load, TypeOK, Decided
    <2>2. ASSUME NEW w \in Writers, NEW t \in Tasks, NEW s \in Statuses, Refuse(w, t, s)
          PROVE  TypeOK'
      BY <2>2 DEF Refuse, TypeOK, vars
    <2>3. ASSUME NEW w \in Writers, Replace(w)
          PROVE  TypeOK'
      <3>1. inflight[w] \in Decided
        BY <2>3 DEF Replace, TypeOK
      <3>2. [status |-> inflight[w].status, fields |-> inflight[w].fields] \in Contents
        BY <3>1 DEF Decided, Contents, Files
      <3>3. QED
        BY <2>3, <3>1, <3>2 DEF Replace, TypeOK
    <2>4. ASSUME NEW w \in Writers, Killed(w)
          PROVE  TypeOK'
      BY <2>4 DEF Killed, TypeOK
    <2>5. CASE UNCHANGED vars
      BY <2>5 DEF TypeOK, vars
    <2>6. QED
      BY <2>1, <2>2, <2>3, <2>4, <2>5 DEF Next
  <1>3. QED
    BY <1>1, <1>2, PTL DEF Spec
-----------------------------------------------------------------------------
(* One step keeps a settled task settled and its status unchanged. *)
LEMMA SettledStep ==
    ASSUME TypeOK, [Next]_vars, NEW t \in Tasks, Settled(t)
    PROVE  Settled(t)' /\ file'[t].status = file[t].status
  <1>1. ASSUME NEW w \in Writers, NEW u \in Tasks, NEW s \in Statuses, Load(w, u, s)
        PROVE  Settled(t)' /\ file'[t].status = file[t].status
    <2>1. CASE u = t
      <3>1. file[t].status \in Statuses /\ file[t].status # NoResult
        BY DEF Settled, Statuses, Ranked, TrulyTerminal, NoResult
      <3>2. s = file[t].status
        BY <1>1, <2>1, <3>1, GuardProtects DEF Load, Settled
      <3>3. QED
        BY <1>1, <2>1, <3>2 DEF Load, Settled, Incoming, TypeOK
    <2>2. CASE u # t
      BY <1>1, <2>2 DEF Load, Settled, Incoming, TypeOK
    <2>3. QED
      BY <2>1, <2>2
  <1>2. ASSUME NEW w \in Writers, NEW u \in Tasks, NEW s \in Statuses, Refuse(w, u, s)
        PROVE  Settled(t)' /\ file'[t].status = file[t].status
    BY <1>2 DEF Refuse, Settled, Incoming, vars
  <1>3. ASSUME NEW w \in Writers, Replace(w)
        PROVE  Settled(t)' /\ file'[t].status = file[t].status
    <2>1. file'[t].status = file[t].status
      <3>1. CASE inflight[w].task = t
        BY <1>3, <3>1 DEF Replace, Settled, Incoming, TypeOK
      <3>2. CASE inflight[w].task # t
        BY <1>3, <3>2 DEF Replace, TypeOK
      <3>3. QED
        BY <3>1, <3>2
    <2>2. \A v \in Writers : inflight'[v] # Idle => v # w /\ inflight'[v] = inflight[v]
      BY <1>3 DEF Replace, TypeOK
    <2>3. QED
      BY <1>3, <2>1, <2>2 DEF Settled, Incoming
  <1>4. ASSUME NEW w \in Writers, Killed(w)
        PROVE  Settled(t)' /\ file'[t].status = file[t].status
    <2>1. \A v \in Writers : inflight'[v] # Idle => v # w /\ inflight'[v] = inflight[v]
      BY <1>4 DEF Killed, TypeOK
    <2>2. QED
      BY <1>4, <2>1 DEF Killed, Settled, Incoming
  <1>5. CASE UNCHANGED vars
    BY <1>5 DEF Settled, Incoming, vars
  <1>6. QED
    BY <1>1, <1>2, <1>3, <1>4, <1>5 DEF Next

(* A terminal status that no write in flight contradicts is never changed    *)
(* again: the sticky-terminal rule of _is_status_regression holds from the   *)
(* moment the last stale writer is gone, however many writers there are.     *)
THEOREM SettledFinality == Spec => SettledIsFinal
  <1>1. TypeOK /\ [Next]_vars
          => [\A t \in Tasks :
                Settled(t) => Settled(t)' /\ file'[t].status = file[t].status]_vars
    BY SettledStep
  <1>2. QED
    BY <1>1, Typing, PTL DEF Spec, SettledIsFinal

(* One step keeps a latched cancel request latched. *)
LEMMA LatchedStep ==
    ASSUME TypeOK, [Next]_vars, NEW t \in Tasks, Latched(t)
    PROVE  Latched(t)'
  <1> DEFINE Teardown == {"cancel_requested", "cancelled", "failed"}
  <1>1. ASSUME NEW w \in Writers, NEW u \in Tasks, NEW s \in Statuses, Load(w, u, s)
        PROVE  Latched(t)'
    <2>1. CASE u = t
      <3>1. file[t].status \in Statuses /\ file[t].status # NoResult
        BY DEF Latched, Statuses, Ranked, TrulyTerminal, NoResult
      <3>2. s \in Teardown
        BY <1>1, <2>1, <3>1, GuardProtects DEF Load, Latched, TrulyTerminal
      <3>3. QED
        BY <1>1, <2>1, <3>2 DEF Load, Latched, Incoming, TypeOK
    <2>2. CASE u # t
      BY <1>1, <2>2 DEF Load, Latched, Incoming, TypeOK
    <2>3. QED
      BY <2>1, <2>2
  <1>2. ASSUME NEW w \in Writers, NEW u \in Tasks, NEW s \in Statuses, Refuse(w, u, s)
        PROVE  Latched(t)'
    BY <1>2 DEF Refuse, Latched, Incoming, vars
  <1>3. ASSUME NEW w \in Writers, Replace(w)
        PROVE  Latched(t)'
    <2>1. file'[t].status \in Teardown
      <3>1. CASE inflight[w].task = t
        BY <1>3, <3>1 DEF Replace, Latched, Incoming, TypeOK
      <3>2. CASE inflight[w].task # t
        BY <1>3, <3>2 DEF Replace, Latched, TypeOK
      <3>3. QED
        BY <3>1, <3>2
    <2>2. \A v \in Writers : inflight'[v] # Idle => v # w /\ inflight'[v] = inflight[v]
      BY <1>3 DEF Replace, TypeOK
    <2>3. QED
      BY <1>3, <2>1, <2>2 DEF Latched, Incoming
  <1>4. ASSUME NEW w \in Writers, Killed(w)
        PROVE  Latched(t)'
    <2>1. \A v \in Writers : inflight'[v] # Idle => v # w /\ inflight'[v] = inflight[v]
      BY <1>4 DEF Killed, TypeOK
    <2>2. QED
      BY <1>4, <2>1 DEF Killed, Latched, Incoming
  <1>5. CASE UNCHANGED vars
    BY <1>5 DEF Latched, Incoming, vars
  <1>6. QED
    BY <1>1, <1>2, <1>3, <1>4, <1>5 DEF Next

(* Once a cancel request has latched and no contrary write is in flight, no  *)
(* writer turns the task into anything but cancelled or failed.              *)
THEOREM LatchFinality == Spec => LatchHolds
  <1>1. TypeOK /\ [Next]_vars => [\A t \in Tasks : Latched(t) => Latched(t)']_vars
    BY LatchedStep
  <1>2. QED
    BY <1>1, Typing, PTL DEF Spec, LatchHolds
-----------------------------------------------------------------------------
(* What a lone writer knows: the file still is what it loaded, so the write  *)
(* it has decided on is exactly the guarded update of the file.              *)
LoadIsFresh ==
    \A w \in Writers :
        inflight[w] # Idle =>
            LET d == inflight[w] IN
            /\ d.status \in MayWrite[w][d.task]
            /\ d.task \in Sole =>
                  /\ Guarded(file[d.task].status, d.status) = d.status
                  /\ d.fields = file[d.task].fields \cup {w}

(* Two writers with a write of one sole result in hand are the same writer.  *)
LEMMA SoleWriter ==
    ASSUME NEW t \in Sole, NEW v \in Writers, NEW w \in Writers,
           MayWrite[v][t] # {}, MayWrite[w][t] # {}
    PROVE  v = w
  BY DEF Sole

(* A result that one thread or process alone writes is atomic: with nobody   *)
(* to come between its load and its replace, write_task_result is the one    *)
(* guarded update that its readers are promised, and no writer of another    *)
(* result disturbs it.                                                       *)
THEOREM SingleWriterIsAtomic == Spec => AtomicSpec
  <1>0. /\ Statuses = Atomic!Statuses
        /\ \A old, new : Guarded(old, new) = Atomic!Guarded(old, new)
    BY DEF Statuses, Atomic!Statuses, Ranked, Atomic!Ranked, Unranked, Atomic!Unranked,
       TrulyTerminal, Atomic!TrulyTerminal, NoResult, Atomic!NoResult,
       StatusRank, Atomic!StatusRank, RegressionGuardFloor, Atomic!RegressionGuardFloor,
       IsRegression, Atomic!IsRegression, Guarded, Atomic!Guarded
  <1>1. Init => Atomic!Init /\ LoadIsFresh
    BY DEF Init, Atomic!Init, Absent, LoadIsFresh, NoResult, Atomic!NoResult,
       Sole, SoleFile
  <1>2. TypeOK /\ LoadIsFresh /\ [Next]_vars => LoadIsFresh' /\ [Atomic!Next]_SoleFile
    <2> SUFFICES ASSUME TypeOK, LoadIsFresh, [Next]_vars
                 PROVE  LoadIsFresh' /\ [Atomic!Next]_SoleFile
      OBVIOUS
    <2>0. Sole \subseteq Tasks
      BY DEF Sole
    <2>1. ASSUME NEW w \in Writers, NEW t \in Tasks, NEW s \in Statuses, Load(w, t, s)
          PROVE  LoadIsFresh' /\ UNCHANGED SoleFile
      <3>1. Guarded(file[t].status, s) = s
        BY <2>1 DEF Load, Guarded
      <3>2. inflight'[w] = [kind |-> "decided", task |-> t, status |-> s,
                            fields |-> file[t].fields \cup {w}]
        BY <2>1 DEF Load, TypeOK
      <3>3. QED
        BY <2>1, <3>1, <3>2 DEF Load, LoadIsFresh, SoleFile
    <2>2. ASSUME NEW w \in Writers, NEW t \in Tasks, NEW s \in Statuses, Refuse(w, t, s)
          PROVE  LoadIsFresh' /\ UNCHANGED SoleFile
      BY <2>2 DEF Refuse, LoadIsFresh, SoleFile, vars
    <2>3. ASSUME NEW w \in Writers, Replace(w)
          PROVE  LoadIsFresh' /\ [Atomic!Next]_SoleFile
      <3> DEFINE d == inflight[w]
      <3>1. d.task \in Tasks /\ d.status \in Statuses
        BY <2>3 DEF Replace, TypeOK, Decided
      <3>2. LoadIsFresh'
        <4> SUFFICES ASSUME NEW v \in Writers, inflight'[v] # Idle
                     PROVE  LET e == inflight'[v] IN
                            /\ e.status \in MayWrite[v][e.task]
                            /\ e.task \in Sole =>
                                  /\ Guarded(file'[e.task].status, e.status) = e.status
                                  /\ e.fields = file'[e.task].fields \cup {v}
          BY DEF LoadIsFresh
        <4>1. v # w /\ inflight'[v] = inflight[v] /\ inflight[v] # Idle
          BY <2>3 DEF Replace, TypeOK
        <4>2. inflight[v].task \in Sole => inflight[v].task # d.task
          BY <2>3, <4>1, SoleWriter DEF LoadIsFresh, Replace
        <4>3. inflight[v].task \in Sole => file'[inflight[v].task] = file[inflight[v].task]
          BY <2>0, <2>3, <3>1, <4>2 DEF Replace, TypeOK
        <4>4. QED
          BY <4>1, <4>3 DEF LoadIsFresh
      <3>3. CASE d.task \in Sole
        <4>1. SoleFile' = [SoleFile EXCEPT ![d.task] =
                  [status |-> d.status, fields |-> SoleFile[d.task].fields \cup {w}]]
          BY <2>0, <2>3, <3>3 DEF Replace, LoadIsFresh, SoleFile, TypeOK
        <4>2. /\ d.status \in MayWrite[w][d.task]
              /\ Atomic!Guarded(SoleFile[d.task].status, d.status) = d.status
          BY <1>0, <2>3, <3>3 DEF Replace, LoadIsFresh, SoleFile
        <4>3. d.status \in Atomic!Statuses
          BY <1>0, <3>1
        <4>4. Atomic!Next
          BY <3>3, <4>1, <4>2, <4>3 DEF Atomic!Next, Atomic!Write
        <4>5. QED
          BY <3>2, <4>4
      <3>4. CASE d.task \notin Sole
        BY <2>0, <2>3, <3>1, <3>2, <3>4 DEF Replace, SoleFile, TypeOK
      <3>5. QED
        BY <3>3, <3>4
    <2>4. ASSUME NEW w \in Writers, Killed(w)
          PROVE  LoadIsFresh' /\ UNCHANGED SoleFile
      BY <2>4 DEF Killed, LoadIsFresh, SoleFile, TypeOK
    <2>5. CASE UNCHANGED vars
      BY <2>5 DEF LoadIsFresh, SoleFile, vars
    <2>6. QED
      BY <2>1, <2>2, <2>3, <2>4, <2>5 DEF Next
  <1>3. QED
    BY <1>1, <1>2, Typing, PTL DEF Spec, AtomicSpec, Atomic!Spec
=============================================================================
