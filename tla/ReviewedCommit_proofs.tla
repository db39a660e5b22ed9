----------------------- MODULE ReviewedCommit_proofs ------------------------
(* What ReviewedCommit proves for every set of tasks and findings and every  *)
(* number of versions, attempts and calls: its types, and, where no call     *)
(* outlasts the git lock, that a commit and the obligations of a blocked one *)
(* are of the one diff both reviewers read.                                  *)
EXTENDS ReviewedCommit, Sequences, TLAPS

USE ReviewAssumption

(* Whoever is in an advisory review has the ledger it read.                  *)
AdviceThere ==
    \A t \in Tasks : front[t] = Advising =>
        advice[t] \in [of : Versions, ledger : Ledgers]
TInv == TypeOK /\ AdviceThere

(* A call is neither the free lock nor the lock of a dead holder.            *)
LEMMA Calling ==
    ASSUME NEW c \in Calls
    PROVE  /\ Owner(c) \in Tasks /\ Slot(c) \in {1, 2}
           /\ c \in Of(Owner(c))
           /\ c # Free /\ c # Gone
           /\ \A t \in Tasks : c \in Of(t) => Owner(c) = t
  <1>1. PICK t \in Tasks, i \in {1, 2} : c = <<t, i>>
    BY DEF Calls
  <1>2. Len(c) = 2 /\ Len(Free) = 1 /\ Len(Gone) = 1
    BY <1>1 DEF Free, Gone
  <1> QED
    BY <1>1, <1>2 DEF Owner, Slot, Of

(* What a loop waits for: nothing, one of two calls, or an advisory review.  *)
LEMMA FrontValues ==
    /\ Idle = 0 /\ Advising = 3
    /\ \A c \in Calls : Slot(c) # Idle /\ Slot(c) # Advising
  BY Calling DEF Idle, Advising

(* The ledger stays a ledger, whatever expires,                              *)
LEMMA ExpiredLedger ==
    ASSUME NEW l \in Ledgers
    PROVE  Expired(l) \in Ledgers
  <1> DEFINE as == [t \in Tasks |-> [n \in Numbers |->
                       IF Active(l.attempts[t][n]) /\ MayExpire(l, t, n)
                           THEN [status |-> "failed", late |-> FALSE]
                           ELSE l.attempts[t][n]]]
  <1>1. [status |-> "failed", late |-> FALSE] \in Attempts
    BY DEF Attempts, Statuses
  <1>2. l.attempts \in [Tasks -> [Numbers -> Attempts]]
    BY DEF Ledgers
  <1>3. as \in [Tasks -> [Numbers -> Attempts]]
    BY <1>1, <1>2
  <1> QED
    BY <1>3 DEF Expired, Ledgers

(* ... whatever is recorded,                                                 *)
LEMMA MergedLedger ==
    ASSUME NEW l \in Ledgers, NEW t \in Tasks, NEW n \in Numbers,
           NEW status \in Statuses, NEW late \in BOOLEAN,
           NEW found \in SUBSET Findings
    PROVE  Merged(l, t, n, status, late, found) \in Ledgers
  <1> DEFINE m == Merged(l, t, n, status, late, found)
  <1>1. [status |-> status, late |-> late] \in Attempts
    BY DEF Attempts
  <1>2. m.attempts \in [Tasks -> [Numbers -> Attempts]]
    BY <1>1 DEF Merged, Ledgers
  <1>3. m.open \in SUBSET Findings
    BY DEF Merged, Ledgers
  <1> QED
    BY <1>2, <1>3 DEF Merged, Ledgers

(* ... and whatever version an advisory review covers.                       *)
LEMMA ReviewedLedger ==
    ASSUME NEW l \in Ledgers, NEW v \in Versions \cup {NoVersion}
    PROVE  Reviewed(l, v) \in Ledgers
  BY DEF Reviewed, Ledgers

(* A record leaves a ledger and the number of one of its attempts.           *)
LEMMA Recorded ==
    ASSUME TypeOK, NEW t \in Tasks, NEW status \in Statuses, NEW late \in BOOLEAN,
           NEW found \in SUBSET Findings, Record(t, status, late, found)
    PROVE  ledger' \in Ledgers /\ number' \in [Tasks -> 0..MaxAttempt]
  <1>1. PICK l \in Current :
          LET n == Target(l, t, status)
          IN  /\ n \in Numbers
              /\ ledger' = Merged(l, t, n, status, late, found)
              /\ number' = [number EXCEPT ![t] =
                                IF status = "reviewing" \/ late THEN n ELSE 0]
    BY DEF Record
  <1>2. l \in Ledgers
    BY ExpiredLedger DEF Current, TypeOK
  <1>3. Numbers \subseteq 0..MaxAttempt /\ 0 \in 0..MaxAttempt
    BY DEF Numbers
  <1> DEFINE n == Target(l, t, status)
  <1>4. n \in Numbers /\ ledger' = Merged(l, t, n, status, late, found)
        /\ number' = [number EXCEPT ![t] = IF status = "reviewing" \/ late THEN n ELSE 0]
    BY <1>1
  <1> HIDE DEF n
  <1> QED
    BY <1>2, <1>3, <1>4, MergedLedger DEF TypeOK

(* A call moves to another step and keeps the rest.                          *)
LEMMA Goes ==
    ASSUME TypeOK, NEW c \in Calls, NEW s \in Steps, Go(c, s)
    PROVE  call' \in [Calls -> CallRecords]
  BY DEF TypeOK, Go, CallRecords

(* A call returns to the loop, which may no longer wait for it.              *)
Returns(c) ==
    /\ call' = [call EXCEPT ![c] = NoCall]
    /\ front' = [front EXCEPT ![Owner(c)] = IF @ = Slot(c) THEN Idle ELSE @]

(* A call that returned keeps the state typed.                               *)
LEMMA Returned ==
    ASSUME TInv, NEW c \in Calls, Returns(c)
    PROVE  /\ call' \in [Calls -> CallRecords]
           /\ front' \in [Tasks -> {Idle, 1, 2, Advising}]
           /\ \A t \in Tasks : front'[t] = Advising => front[t] = Advising
  <1>1. NoCall \in CallRecords
    BY DEF NoCall, CallRecords, Steps, Versions
  <1> QED
    BY <1>1, Calling, FrontValues DEF TInv, TypeOK, Returns

(* Every step of a call keeps the state typed.                               *)
LEMMA CallTyped ==
    ASSUME TInv, NEW c \in Calls, CallStep(c)
    PROVE  TInv'
  <1>0. TypeOK /\ Owner(c) \in Tasks
    BY Calling DEF TInv
  <1>a. {"blocked", "reviewing", "failed", "succeeded"} \subseteq Statuses
        /\ {} \in SUBSET Findings
    BY DEF Statuses
  <1>b. ASSUME UNCHANGED <<front, advice>> PROVE AdviceThere'
    BY <1>b DEF TInv, AdviceThere
  <1>c. ASSUME Returns(c), UNCHANGED advice PROVE AdviceThere'
    BY <1>c, Returned DEF TInv, AdviceThere
  <1>1. CASE Refuse(c)
    <2>1. Returns(c)
      BY <1>1 DEF Refuse, Returns
    <2> QED
      BY <1>0, <1>1, <1>a, <1>c, <2>1, Recorded, Returned DEF Refuse, TInv, TypeOK
  <1>2. CASE Enter(c)
    BY <1>0, <1>2, <1>a, <1>b, Recorded, Goes DEF Enter, TInv, TypeOK, Steps
  <1>3. CASE Lock(c)
    BY <1>0, <1>3, <1>b, Goes DEF Lock, TInv, TypeOK, Steps
  <1>4. CASE LockTimeout(c)
    <2>1. Returns(c)
      BY <1>4 DEF LockTimeout, Returns
    <2> QED
      BY <1>0, <1>4, <1>a, <1>c, <2>1, Recorded, Returned
      DEF LockTimeout, TInv, TypeOK
  <1>5. CASE Stage(c)
    <2>1. files' \in [head : Versions, index : Versions, tree : Versions]
      BY <1>0, <1>5 DEF Stage, TypeOK
    <2> QED
      BY <1>0, <1>5, <1>b, <2>1, Goes DEF Stage, TInv, TypeOK, Steps
  <1>6. CASE Gate(c)
    BY <1>0, <1>6, <1>b, Goes DEF Gate, TInv, TypeOK, Steps
  <1>7. CASE Bypass(c)
    <2>1. ledger' \in Ledgers
      BY <1>0, <1>7, ReviewedLedger DEF Bypass, TypeOK
    <2> QED
      BY <1>0, <1>7, <1>b, <2>1, Goes DEF Bypass, TInv, TypeOK, Steps
  <1>8. CASE GateRefuses(c)
    <2>1. files' \in [head : Versions, index : Versions, tree : Versions]
      BY <1>0, <1>8 DEF GateRefuses, TypeOK
    <2> QED
      BY <1>0, <1>8, <1>a, <1>b, <2>1, Recorded, Goes
      DEF GateRefuses, TInv, TypeOK, Steps
  <1>9. CASE PreflightFails(c)
    <2>1. files' \in [head : Versions, index : Versions, tree : Versions]
      BY <1>0, <1>9 DEF PreflightFails, TypeOK
    <2>2. ledger' \in Ledgers
      <3>1. PICK l \in Current :
              LET n == Target(l, Owner(c), "blocked")
                  stale == IF l.fresh = files.tree THEN Reviewed(l,
                  NoVersion) ELSE l
              IN  /\ n \in Numbers
                  /\ ledger' = Merged(stale, Owner(c), n, "blocked", FALSE, {})
        BY <1>9 DEF PreflightFails
      <3>2. l \in Ledgers /\ Reviewed(l, NoVersion) \in Ledgers
        BY <1>0, ExpiredLedger, ReviewedLedger DEF Current, TypeOK
      <3> DEFINE stale == IF l.fresh = files.tree THEN Reviewed(l, NoVersion) ELSE l
      <3>3. stale \in Ledgers
        BY <3>2
      <3>4. PICK n \in Numbers :
              ledger' = Merged(stale, Owner(c), n, "blocked", FALSE, {})
        BY <3>1
      <3> HIDE DEF stale
      <3> QED
        BY <1>0, <1>a, <3>3, <3>4, MergedLedger
    <2>3. number' \in [Tasks -> 0..MaxAttempt]
      BY <1>0, <1>9 DEF PreflightFails, TypeOK
    <2> QED
      BY <1>0, <1>9, <1>b, <2>1, <2>2, <2>3, Goes
      DEF PreflightFails, TInv, TypeOK, Steps
  <1>10. CASE Fingerprint(c)
    <2>1. call' \in [Calls -> CallRecords]
      <3>1. call[c] \in CallRecords /\ files.index \in Versions /\ "triad" \in Steps
        BY <1>0 DEF TypeOK, Steps
      <3>2. [call[c] EXCEPT !.at = "triad", !.pre = files.index] \in CallRecords
        BY <3>1 DEF CallRecords
      <3>3. call' = [call EXCEPT ![c] = [call[c] EXCEPT !.at = "triad",
                                                        !.pre = files.index]]
        BY <1>0, <1>10 DEF Fingerprint, TypeOK
      <3> QED
        BY <1>0, <3>2, <3>3 DEF TypeOK
    <2> QED
      BY <1>0, <1>10, <1>a, <1>b, <2>1, Recorded DEF Fingerprint, TInv, TypeOK
  <1>11. CASE Triad(c) \/ Scope(c)
    <2>1. call' \in [Calls -> CallRecords]
      BY <1>0, <1>11 DEF Triad, Scope, ReadDiff, TypeOK, CallRecords, Steps
    <2> QED
      BY <1>0, <1>11, <1>b, <2>1 DEF Triad, Scope, ReadDiff, TInv, TypeOK
  <1>12. CASE Mismatch(c)
    BY <1>0, <1>12, <1>a, <1>b, Recorded, Goes DEF Mismatch, TInv, TypeOK, Steps
  <1>13. CASE Judge(c)
    <2>1. call' \in [Calls -> CallRecords]
      <3>1. PICK found \in SUBSET Findings, s \in {"commit", "blocked"} :
              call' = [call EXCEPT ![c].findings = found, ![c].at = s]
        BY <1>13 DEF Judge
      <3>2. call[c] \in CallRecords /\ s \in Steps
        BY <1>0 DEF TypeOK, Steps
      <3>3. [call[c] EXCEPT !.findings = found, !.at = s] \in CallRecords
        BY <3>2 DEF CallRecords
      <3>4. call' = [call EXCEPT ![c] = [call[c] EXCEPT !.findings = found,
      !.at = s]]
        BY <1>0, <3>1 DEF TypeOK
      <3> QED
        BY <1>0, <3>3, <3>4 DEF TypeOK
    <2> QED
      BY <1>0, <1>13, <1>b, <2>1 DEF Judge, TInv, TypeOK
  <1>14. CASE Block(c)
    <2>1. files' \in [head : Versions, index : Versions, tree : Versions]
      BY <1>0, <1>14 DEF Block, TypeOK
    <2>2. call[c].findings \in SUBSET Findings
      BY <1>0 DEF TypeOK, CallRecords
    <2> QED
      BY <1>0, <1>14, <1>a, <1>b, <2>1, <2>2, Recorded, Goes
      DEF Block, TInv, TypeOK, Steps
  <1>15. CASE Commit(c)
    <2>1. files' \in [head : Versions, index : Versions, tree : Versions]
      BY <1>0, <1>15 DEF Commit, TypeOK
    <2> QED
      BY <1>0, <1>15, <1>b, <2>1, Goes DEF Commit, TInv, TypeOK, Steps
  <1>16. CASE Succeed(c) \/ Fail(c)
    BY <1>0, <1>16, <1>a, <1>b, Recorded, Goes
    DEF Succeed, Fail, TInv, TypeOK, Steps
  <1>17. CASE Release(c)
    <2>1. Returns(c)
      BY <1>17 DEF Release, Returns
    <2> QED
      BY <1>0, <1>17, <1>c, <2>1, Returned DEF Release, TInv, TypeOK
  <1> QED
    BY <1>1, <1>2, <1>3, <1>4, <1>5, <1>6, <1>7, <1>8, <1>9, <1>10, <1>11, <1>12,
       <1>13, <1>14, <1>15, <1>16, <1>17 DEF CallStep

(* So does what happens around a call: its begin, its timeouts,              *)
LEMMA LoopTyped ==
    ASSUME TInv, NEW c \in Calls,
    CommitReviewed(c) \/ SoftTimeout(c) \/ HardCeiling(c)
    PROVE  TInv'
  <1>0. TypeOK /\ Owner(c) \in Tasks
    BY Calling DEF TInv
  <1>a. {"blocked", "reviewing", "failed", "succeeded"} \subseteq Statuses
        /\ {} \in SUBSET Findings
    BY DEF Statuses
  <1>1. CASE CommitReviewed(c)
    <2>1. ledger' \in Ledgers
      BY <1>0, <1>1, ExpiredLedger DEF CommitReviewed, Current, TypeOK
    <2>2. bounds' \in [calls : 0..MaxCalls, moves : 0..MaxMoves]
      <3>1. bounds.calls - 1 \in 0..MaxCalls
        BY <1>0, <1>1 DEF CommitReviewed, TypeOK
      <3> QED
        BY <1>0, <1>1, <3>1 DEF CommitReviewed, TypeOK
    <2>3. front' \in [Tasks -> {Idle, 1, 2, Advising}]
          /\ \A t \in Tasks : front'[t] = Advising => front[t] = Advising
      BY <1>0, <1>1, Calling, FrontValues DEF CommitReviewed, TypeOK
    <2>4. call' \in [Calls -> CallRecords]
      BY <1>0, <1>1, Goes DEF CommitReviewed, Steps
    <2> QED
      BY <1>0, <1>1, <2>1, <2>2, <2>3, <2>4
      DEF CommitReviewed, TInv, TypeOK, AdviceThere
  <1>2. CASE SoftTimeout(c)
    <2>1. call' \in [Calls -> CallRecords]
      BY <1>0, <1>2 DEF SoftTimeout, TypeOK, CallRecords
    <2> QED
      BY <1>0, <1>2, <1>a, <2>1, Recorded DEF SoftTimeout, TInv, TypeOK, AdviceThere
  <1>3. CASE HardCeiling(c)
    <2>1. front' \in [Tasks -> {Idle, 1, 2, Advising}]
          /\ \A t \in Tasks : front'[t] = Advising => front[t] = Advising
      BY <1>0, <1>3, FrontValues DEF HardCeiling, TypeOK
    <2> QED
      BY <1>0, <1>3, <1>a, <2>1, Recorded DEF HardCeiling, TInv, TypeOK, AdviceThere
  <1> QED
    BY <1>1, <1>2, <1>3

(* ... and the other tools of the tasks.                                     *)
LEMMA TaskTyped ==
    ASSUME TInv, NEW t \in Tasks, TaskStep(t)
    PROVE  TInv'
  <1>0. TypeOK
    BY DEF TInv
  <1>1. ASSUME bounds.moves > 0, bounds' = [bounds EXCEPT !.moves = @ - 1]
        PROVE  bounds' \in [calls : 0..MaxCalls, moves : 0..MaxMoves]
    <2>1. bounds.moves - 1 \in 0..MaxMoves
      BY <1>0, <1>1 DEF TypeOK
    <2> QED
      BY <1>0, <1>1, <2>1 DEF TypeOK
  <1>2. CASE Edit(t)
    <2>1. files' \in [head : Versions, index : Versions, tree : Versions]
      BY <1>0, <1>2 DEF Edit, TypeOK
    <2>2. ledger' \in Ledgers
      BY <1>0, <1>2, ReviewedLedger DEF Edit, TypeOK
    <2> QED
      BY <1>0, <1>1, <1>2, <2>1, <2>2 DEF Edit, TInv, TypeOK, AdviceThere
  <1>3. CASE Restore(t)
    <2>1. files' \in [head : Versions, index : Versions, tree : Versions]
      BY <1>0, <1>3 DEF Restore, TypeOK
    <2> QED
      BY <1>0, <1>1, <1>3, <2>1 DEF Restore, TInv, TypeOK, AdviceThere
  <1>4. CASE Advise(t)
    <2>1. [of |-> files.tree, ledger |-> ledger] \in [of : Versions,
    ledger : Ledgers]
      BY <1>0 DEF TypeOK
    <2>2. front' \in [Tasks -> {Idle, 1, 2, Advising}]
          /\ \A u \in Tasks \ {t} : front'[u] = front[u]
      BY <1>0, <1>4 DEF Advise, TypeOK
    <2>3. advice' \in [Tasks -> [of : Versions, ledger : Ledgers] \cup {NoAdvice}]
          /\ advice'[t] \in [of : Versions, ledger : Ledgers]
          /\ \A u \in Tasks \ {t} : advice'[u] = advice[u]
      BY <1>0, <1>4, <2>1 DEF Advise, TypeOK
    <2> QED
      BY <1>0, <1>1, <1>4, <2>2, <2>3 DEF Advise, TInv, TypeOK, AdviceThere
  <1>5. CASE AdviceRecorded(t) \/ AdviceSaved(t)
    <2>1. AdviceEnds(t)
      BY <1>5 DEF AdviceRecorded, AdviceSaved
    <2>2. advice[t] \in [of : Versions, ledger : Ledgers]
      BY <2>1 DEF AdviceEnds, TInv, AdviceThere
    <2>3. ledger' \in Ledgers
      <3>1. CASE AdviceRecorded(t)
        BY <1>0, <2>2, <3>1, ReviewedLedger DEF AdviceRecorded, TypeOK
      <3>2. CASE AdviceSaved(t)
        <4>1. advice[t].ledger \in Ledgers /\ advice[t].of \in Versions
          BY <2>2
        <4>2. \A resolved \in SUBSET advice[t].ledger.open :
                [Reviewed(advice[t].ledger, advice[t].of) EXCEPT
                     !.open = advice[t].ledger.open \ resolved] \in Ledgers
          BY <4>1 DEF Reviewed, Ledgers
        <4> QED
          BY <3>2, <4>1, <4>2, ReviewedLedger DEF AdviceSaved
      <3> QED
        BY <1>5, <3>1, <3>2
    <2>4. front' \in [Tasks -> {Idle, 1, 2, Advising}]
          /\ \A u \in Tasks : front'[u] = Advising => u # t /\ front[u] = Advising
      BY <1>0, <2>1, FrontValues DEF AdviceEnds, TypeOK
    <2>5. advice' \in [Tasks -> [of : Versions, ledger : Ledgers] \cup {NoAdvice}]
          /\ \A u \in Tasks \ {t} : advice'[u] = advice[u]
      BY <1>0, <2>1 DEF AdviceEnds, TypeOK
    <2> QED
      BY <1>0, <2>1, <2>3, <2>4, <2>5 DEF AdviceEnds, TInv, TypeOK, AdviceThere
  <1>6. CASE WorkerDies(t)
    <2>1. call' \in [Calls -> CallRecords]
      <3>1. NoCall \in CallRecords
        BY DEF NoCall, CallRecords, Steps, Versions
      <3> QED
        BY <1>0, <1>6, <3>1 DEF WorkerDies, TypeOK
    <2>2. front' \in [Tasks -> {Idle, 1, 2, Advising}]
          /\ \A u \in Tasks : front'[u] = Advising => u # t /\ front[u] = Advising
      BY <1>0, <1>6, FrontValues DEF WorkerDies, TypeOK
    <2>3. advice' \in [Tasks -> [of : Versions, ledger : Ledgers] \cup {NoAdvice}]
          /\ \A u \in Tasks \ {t} : advice'[u] = advice[u]
      BY <1>0, <1>6 DEF WorkerDies, TypeOK
    <2>4. gitLock' \in Calls \cup {Free,
    Gone} /\ number' \in [Tasks -> 0..MaxAttempt]
      BY <1>0, <1>6 DEF WorkerDies, TypeOK
    <2> QED
      BY <1>0, <1>1, <1>6, <2>1, <2>2, <2>3, <2>4
      DEF WorkerDies, TInv, TypeOK, AdviceThere
  <1> QED
    BY <1>2, <1>3, <1>4, <1>5, <1>6 DEF TaskStep

(* So does every step.                                                       *)
LEMMA TypeStep ==
    ASSUME TInv, [Next]_vars
    PROVE  TInv'
  <1>1. CASE UNCHANGED vars
    BY <1>1 DEF vars, TInv, TypeOK, AdviceThere
  <1> QED
    BY <1>1, CallTyped, LoopTyped, TaskTyped DEF Next
-----------------------------------------------------------------------------
(* Where no call outlasts the lock, whoever is past it holds it.  While the  *)
(* reviewers read, the index is what was fingerprinted, or what is in HEAD   *)
(* since another task restored it; and as nobody else stages or commits, an  *)
(* index that is what was fingerprinted has been so all along.               *)
Held == {"stage", "gate", "preflight", "fingerprint", "triad", "scope", "judge",
         "blocked", "commit", "succeeded", "failed", "release"}
Early == {"idle", "refused", "enter", "lock", "stage", "gate", "preflight",
          "fingerprint"}
Reading == {"triad", "scope", "judge"}
Settled == {"blocked", "commit"}

Serial(at, pre, seen, lock, index, head, c) ==
    /\ at \in Held => lock = c
    /\ at \in Early => seen = {}
    /\ at \in Reading =>
          /\ seen \subseteq {pre, head}
          /\ index \in {pre, head}
          /\ index = pre => seen \subseteq {pre}
          /\ at # "triad" => seen # {}
    /\ at \in Settled => seen = {pre} /\ index \in {pre, head}
SInv ==
    \A c \in Calls : Serial(call[c].at, call[c].pre, call[c].seen, gitLock,
                            files.index, files.head, c)

(* A call's own step.                                                        *)
LEMMA OwnSerial ==
    ASSUME TypeOK, ~Slow, SInv, NEW i \in Calls, CallStep(i)
    PROVE  Serial(call'[i].at, call'[i].pre, call'[i].seen, gitLock',
                  files'.index, files'.head, i)
  <1>0. call[i] \in CallRecords /\ call \in [Calls -> CallRecords]
    BY DEF TypeOK
  <1>1. Serial(call[i].at, call[i].pre, call[i].seen, gitLock, files.index,
  files.head, i)
    BY DEF SInv
  <1>2. ASSUME NEW s, Go(i, s)
        PROVE  call'[i].at = s /\ call'[i].pre = call[i].pre /\ call'[i].seen = call[i].seen
    BY <1>0, <1>2 DEF Go, CallRecords
  <1>3. CASE Refuse(i) \/ LockTimeout(i) \/ Release(i)
    <2>1. call'[i] = NoCall
      BY <1>0, <1>3 DEF Refuse, LockTimeout, Release
    <2> QED
      BY <2>1 DEF NoCall, Serial, Held, Reading, Settled
  <1>4. CASE Enter(i)
    BY <1>1, <1>2, <1>4 DEF Enter, At, Serial, Held, Early, Reading, Settled
  <1>5. CASE Lock(i)
    BY <1>1, <1>2, <1>5 DEF Lock, At, Serial, Held, Early, Reading, Settled
  <1>6. CASE Stage(i) \/ Gate(i) \/ Bypass(i) \/ GateRefuses(i) \/ PreflightFails(i)
    <2>1. /\ call'[i].at \in {"failed", "gate", "fingerprint", "preflight",
                             "release"}
          /\ call'[i].seen = call[i].seen /\ UNCHANGED gitLock
          /\ call[i].at \in {"stage", "gate", "preflight"}
      BY <1>2, <1>6 DEF Stage, Gate, Bypass, GateRefuses, PreflightFails, At
    <2> QED
      BY <1>1, <2>1 DEF Serial, Held, Early, Reading, Settled
  <1>7. CASE Fingerprint(i)
    <2>1. call'[i].at = "triad" /\ call'[i].pre = files.index
          /\ call'[i].seen = call[i].seen
      BY <1>0, <1>7 DEF Fingerprint, CallRecords
    <2> QED
      BY <1>1, <1>7, <2>1
      DEF Fingerprint, At, Serial, Held, Early, Reading, Settled
  <1>8. CASE Triad(i) \/ Scope(i)
    <2>1. call'[i].pre = call[i].pre /\ call'[i].seen = call[i].seen \cup {files.index}
          /\ call'[i].at \in {"scope", "judge"} /\ call[i].at \in {"triad", "scope"}
      BY <1>0, <1>8 DEF Triad, Scope, ReadDiff, At, CallRecords
    <2> QED
      BY <1>1, <1>8, <2>1
      DEF Triad, Scope, ReadDiff, Serial, Held, Early, Reading, Settled
  <1>9. CASE Judge(i)
    <2>1. call'[i].pre = call[i].pre /\ call'[i].seen = call[i].seen
          /\ call'[i].at \in {"commit", "blocked"} /\ call[i].at = "judge"
      BY <1>0, <1>9 DEF Judge, At, CallRecords
    <2>2. files.index = call[i].pre /\ UNCHANGED <<files, gitLock>>
      BY <1>9 DEF Judge, Matches
    <2> QED
      BY <1>1, <2>1, <2>2 DEF Serial, Held, Early, Reading, Settled
  <1>10. CASE Mismatch(i) \/ Block(i) \/ Commit(i) \/ Succeed(i) \/ Fail(i)
    <2>1. call'[i].at \in {"release", "failed", "succeeded"} /\ UNCHANGED gitLock
          /\ call[i].at \in Held
      BY <1>2, <1>10 DEF Mismatch, Block, Commit, Succeed, Fail, At, Held
    <2> QED
      BY <1>1, <2>1 DEF Serial, Held, Early, Reading, Settled
  <1> QED
    BY <1>3, <1>4, <1>5, <1>6, <1>7, <1>8, <1>9, <1>10 DEF CallStep

(* The step of another call leaves this one alone, or this one is not past   *)
(* the lock.                                                                 *)
LEMMA OtherSerial ==
    ASSUME TypeOK, ~Slow, SInv, NEW i \in Calls, NEW c \in Calls, c # i, CallStep(c)
    PROVE  Serial(call'[i].at, call'[i].pre, call'[i].seen, gitLock',
                  files'.index, files'.head, i)
  <1>0. Serial(call[i].at, call[i].pre, call[i].seen, gitLock, files.index,
  files.head, i)
        /\ Serial(call[c].at, call[c].pre, call[c].seen, gitLock, files.index,
                  files.head, c)
    BY DEF SInv
  <1>1. call'[i] = call[i]
    BY DEF TypeOK, CallStep, Go, Refuse, Enter, Lock, LockTimeout, Stage, Gate,
           Bypass,
           GateRefuses, PreflightFails, Fingerprint, Triad, Scope, ReadDiff,
           Mismatch,
           Judge, Block, Commit, Succeed, Fail, Release
  <1>2. CASE UNCHANGED <<files, gitLock>>
    BY <1>0, <1>1, <1>2
  <1>3. CASE call[i].at \notin Held
    BY <1>0, <1>1, <1>3 DEF Serial, Held, Early, Reading, Settled
  <1>4. UNCHANGED <<files, gitLock>> \/ Lock(c) \/ call[c].at \in Held
    BY DEF CallStep, At, Held, Refuse, Enter, LockTimeout, Stage, Gate, Bypass,
           GateRefuses, PreflightFails, Fingerprint, Triad, Scope, ReadDiff,
           Mismatch,
           Judge, Block, Commit, Succeed, Fail, Release
  <1>5. CASE Lock(c)
    <2>1. gitLock \in {Free, Gone}
      BY <1>5 DEF Lock, Takeable
    <2>2. i # Free /\ i # Gone
      BY Calling
    <2>3. gitLock # i
      BY <2>1, <2>2
    <2> QED
      BY <1>0, <1>3, <2>3 DEF Serial
  <1>6. CASE call[c].at \in Held
    BY <1>0, <1>3, <1>6 DEF Serial
  <1> QED
    BY <1>2, <1>4, <1>5, <1>6

(* Every step keeps the lock, the index and the readers' diffs in order.     *)
LEMMA SerialStep ==
    ASSUME TInv, ~Slow, SInv, [Next]_vars
    PROVE  SInv'
  <1>0. TypeOK
    BY DEF TInv
  <1>1. SUFFICES ASSUME NEW i \in Calls
                 PROVE  Serial(call'[i].at, call'[i].pre, call'[i].seen, gitLock',
                               files'.index, files'.head, i)
    BY DEF SInv
  <1>2. Serial(call[i].at, call[i].pre, call[i].seen, gitLock, files.index,
  files.head, i)
    BY DEF SInv
  <1>3. CASE UNCHANGED <<call, gitLock, files>>
    BY <1>2, <1>3
  <1>4. ASSUME NEW c \in Calls, CallStep(c)
        PROVE  Serial(call'[i].at, call'[i].pre, call'[i].seen, gitLock',
                      files'.index, files'.head, i)
    BY <1>0, <1>4, OwnSerial, OtherSerial
  <1>5. ASSUME NEW c \in Calls, CommitReviewed(c)
        PROVE  Serial(call'[i].at, call'[i].pre, call'[i].seen, gitLock',
                      files'.index, files'.head, i)
    <2>1. CASE c = i
      <3>1. call'[i].at \in {"refused", "enter"} /\ call'[i].seen = call[i].seen
            /\ call[i].at = "idle"
        BY <1>0, <1>5, <2>1 DEF CommitReviewed, At, Go, TypeOK, CallRecords
      <3> QED
        BY <1>2, <3>1 DEF Serial, Held, Early, Reading, Settled
    <2>2. CASE c # i
      BY <1>0, <1>2, <1>5, <2>2 DEF CommitReviewed, Go, TypeOK
    <2> QED
      BY <2>1, <2>2
  <1>6. ASSUME NEW c \in Calls, SoftTimeout(c)
        PROVE  Serial(call'[i].at, call'[i].pre, call'[i].seen, gitLock',
                      files'.index, files'.head, i)
    <2>1. call'[i].at = call[i].at /\ call'[i].pre = call[i].pre
          /\ call'[i].seen = call[i].seen
      BY <1>0, <1>6 DEF SoftTimeout, TypeOK, CallRecords
    <2> QED
      BY <1>2, <1>6, <2>1 DEF SoftTimeout
  <1>7. ASSUME NEW t \in Tasks, TaskStep(t)
        PROVE  Serial(call'[i].at, call'[i].pre, call'[i].seen, gitLock',
                      files'.index, files'.head, i)
    <2>1. CASE Restore(t)
      <3>1. files'.index = files.head /\ files'.head = files.head
            /\ UNCHANGED <<call, gitLock>>
        BY <1>0, <2>1 DEF Restore, TypeOK
      <3> QED
        BY <1>2, <3>1 DEF Serial, Held, Early, Reading, Settled
    <2>2. CASE Edit(t)
      <3>1. files'.index = files.index /\ files'.head = files.head
            /\ UNCHANGED <<call, gitLock>>
        BY <1>0, <2>2 DEF Edit, TypeOK
      <3> QED
        BY <1>2, <3>1
    <2>3. CASE WorkerDies(t)
      <3>1. CASE Owner(i) = t
        <4>1. call'[i] = NoCall
          BY <1>0, <2>3, <3>1 DEF WorkerDies
        <4> QED
          BY <4>1 DEF NoCall, Serial, Held, Reading, Settled
      <3>2. CASE Owner(i) # t
        <4>1. call'[i] = call[i] /\ UNCHANGED files
          BY <1>0, <2>3, <3>2 DEF WorkerDies
        <4>2. gitLock = i => gitLock' = i
          BY <2>3, <3>2, Calling DEF WorkerDies
        <4> QED
          BY <1>2, <4>1, <4>2 DEF Serial
      <3> QED
        BY <3>1, <3>2
    <2>4. CASE Advise(t) \/ AdviceRecorded(t) \/ AdviceSaved(t)
      BY <1>3, <2>4 DEF Advise, AdviceRecorded, AdviceSaved, AdviceEnds
    <2> QED
      BY <1>7, <2>1, <2>2, <2>3, <2>4 DEF TaskStep
  <1> QED
    BY <1>3, <1>4, <1>5, <1>6, <1>7 DEF Next, HardCeiling, vars

(* The inductive invariant.                                                  *)
IInv == TInv /\ (~Slow => SInv)

LEMMA Inductive == Spec => []IInv
  <1>1. ASSUME Init PROVE IInv
    <2> USE <1>1
    <2>1. NoCall \in CallRecords /\ NoCall.at = "idle" /\ NoCall.seen = {}
      BY DEF NoCall, CallRecords, Steps, Versions
    <2>2. TypeOK
      <3>1. ledger \in Ledgers
        <4>1. NoAttempt \in Attempts
          BY DEF Attempts
        <4> QED
          BY <4>1 DEF Init, Ledgers
      <3>2. files \in [head : Versions, index : Versions, tree : Versions]
        BY DEF Init, Versions
      <3>3. bounds \in [calls : 0..MaxCalls, moves : 0..MaxMoves]
        BY DEF Init
      <3> QED
        BY <2>1, <3>1, <3>2, <3>3 DEF Init, TypeOK
    <2>3. AdviceThere
      BY FrontValues DEF Init, AdviceThere
    <2>4. SInv
      BY <2>1 DEF Init, SInv, Serial, Held, Reading, Settled
    <2> QED
      BY <2>2, <2>3, <2>4 DEF IInv, TInv
  <1>2. IInv /\ [Next]_vars => IInv'
    BY TypeStep, SerialStep DEF IInv
  <1> QED
    BY <1>1, <1>2, PTL DEF Spec

(* Whatever times out, expires or dies, the ledger, the calls, the advisory  *)
(* reviews and the lock are of their types: what an advisory review saves is *)
(* a ledger (review_state.py, claude_advisory_review.py).                    *)
THEOREM ReviewTyping == Spec => []TypeOK
  <1>1. IInv => TypeOK
    BY DEF IInv, TInv
  <1> QED
    BY <1>1, Inductive, PTL

(* CommitsWhatWasReviewed: between the two fingerprints only a restore, that *)
(* takes no lock, can change the index; it resets it to HEAD, and then the   *)
(* fingerprints differ or git finds nothing to commit (tools/git.py).        *)
THEOREM CommitIsReviewed == Spec => CommitsWhatWasReviewed
  <1>1. ASSUME IInv, [Next]_vars, ~Slow, NEW c \in Calls, Commits(c)
        PROVE  call[c].seen = {files'.head}
    <2>1. \A d \in Calls : Serial(call[d].at, call[d].pre, call[d].seen, gitLock,
                                  files.index, files.head, d)
      BY <1>1 DEF IInv, SInv
    <2>2. gitLock = c /\ call[c].seen = {call[c].pre}
          /\ files.index \in {call[c].pre, files.head}
      BY <1>1, <2>1 DEF Commits, At, Serial, Held, Settled
    <2>3. ASSUME NEW d \in Calls, CallStep(d) PROVE files'.head = files.index
      <3>1. files \in [head : Versions, index : Versions, tree : Versions]
        BY <1>1 DEF IInv, TInv, TypeOK
      <3> QED
        BY <1>1, <2>3, <3>1
        DEF CallStep, Commits, Refuse, Enter, Lock, LockTimeout, Stage, Gate,
            Bypass,
            GateRefuses, PreflightFails, Fingerprint, Triad, Scope, ReadDiff,
            Mismatch,
            Judge, Block, Commit, Succeed, Fail, Release
    <2>4. \E d \in Calls : CallStep(d)
      BY <1>1
      DEF IInv, TInv, TypeOK, Next, vars, CommitReviewed, SoftTimeout, HardCeiling,
          TaskStep, Edit, Restore, Advise, AdviceRecorded, AdviceSaved, AdviceEnds,
          WorkerDies, Commits
    <2> QED
      BY <1>1, <2>2, <2>3, <2>4 DEF Commits
  <1>2. IInv /\ [Next]_vars =>
          [~Slow => \A c \in Calls : Commits(c) => call[c].seen = {files'.head}]_vars
    BY <1>1
  <1> QED
    BY <1>2, Inductive, PTL DEF Spec, CommitsWhatWasReviewed

(* FindingsAreOfOneDiff: an index that matches its fingerprint after the     *)
(* reviews matched it when either of them read it, so that a block's         *)
(* obligations are of that diff (tools/git.py, review_state.py).             *)
THEOREM FindingsOfOneDiff == Spec => FindingsAreOfOneDiff
  <1>1. ASSUME IInv, ~Slow, NEW c \in Calls, Block(c)
        PROVE  call[c].seen = {call[c].pre}
    BY <1>1 DEF IInv, SInv, Serial, Block, At, Settled
  <1>2. IInv =>
          [~Slow => \A c \in Calls : Block(c) => call[c].seen = {call[c].pre}]_vars
    BY <1>1
  <1> QED
    BY <1>2, Inductive, PTL DEF FindingsAreOfOneDiff
=============================================================================
