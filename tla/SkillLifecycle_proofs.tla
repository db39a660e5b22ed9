----------------------- MODULE SkillLifecycle_proofs ------------------------
(* What SkillLifecycle proves for every number of workers, jobs, contents    *)
(* and events: its types, that the server runs reviewed contents only, and   *)
(* that a failed load undoes no other job's enable.                          *)
EXTENDS SkillLifecycle, TLAPS

USE SkillAssumption

(* A pickup is at a marker, and a verdict is of some content.                *)
MarkerThere == pickup # Unread => markers > 0
SeenThere ==
    \A j \in Jobs : At(j, "judged") \/ At(j, "saving") => job[j].seen # Gone
TInv == TypeOK /\ MarkerThere /\ SeenThere

(* The constants, and 0 as the absent job and the absent content.            *)
LEMMA Constants ==
    /\ MaxJobs \in Nat /\ MaxEvents \in Nat
    /\ Free \in 0..MaxJobs /\ Jobs \subseteq 0..MaxJobs
    /\ Gone \in Contents /\ Hashes \subseteq Contents
    /\ "server" \in Procs
  BY DEF Free, Gone, Contents, Jobs, Procs, Hashes

(* A job that has not ended has a full record.                               *)
LEMMA Alive ==
    ASSUME TypeOK, NEW j \in Jobs, ~Ended(j)
    PROVE  job[j] \in JobRecords
  BY DEF TypeOK, Ended, EndedJobs

(* Moving a job to another step keeps the jobs typed.                        *)
LEMMA Goes ==
    ASSUME TypeOK, NEW j \in Jobs, job[j] \in JobRecords, NEW s \in Steps, Go(j, s)
    PROVE  job' \in [Jobs -> JobRecords \cup EndedJobs]
  BY DEF TypeOK, Go, JobRecords

(* Ending a job keeps the jobs typed.                                        *)
LEMMA Ends ==
    ASSUME TypeOK, NEW j \in Jobs, End(j)
    PROVE  job' \in [Jobs -> JobRecords \cup EndedJobs]
  BY DEF TypeOK, End, EndedJobs

(* Giving up a lane keeps the lanes typed.                                   *)
LEMMA Frees ==
    ASSUME TypeOK, NEW j \in Jobs
    PROVE  FreedLane(j) \in [Procs -> 0..MaxJobs]
  BY Constants DEF TypeOK, FreedLane

(* A step of one job leaves the others where they are.                       *)
LEMMA OthersStay ==
    ASSUME TypeOK, NEW j \in Jobs, NEW i \in Jobs, i # j, JobStep(j)
    PROVE  job'[i] = job[i]
  BY DEF JobStep, TypeOK, TakeLane, TakeLock, Read, PreflightFails, NotSaved,
         MaySave,
         Save, AutoEnable, Toggle, ToggleRefused, DeleteUnloads, DeleteRemoves,
         ReconcileInWorker, AskServer, ReconcileInServer, Apply, Unlock,
         FinishSkipped,
         FinishReads, FinishWrites, Go, End

(* A job that goes on changes its step and nothing else of its record.       *)
LEMMA GoesTo ==
    ASSUME TypeOK, NEW j \in Jobs, job[j] \in JobRecords, NEW s, Go(j, s)
    PROVE  /\ job'[j].at = s
           /\ \A f \in {"kind", "proc", "hash", "seen", "guard", "revert", "want"} :
                 job'[j][f] = job[j][f]
  BY DEF TypeOK, Go, JobRecords

(* Only a job that has not ended takes a step.                               *)
LEMMA Started ==
    ASSUME TypeOK, NEW j \in Jobs, JobStep(j)
    PROVE  job[j] \in JobRecords
  BY Alive DEF JobStep, TakeLane, TakeLock, Read, PreflightFails, NotSaved, MaySave,
         Save, AutoEnable, Toggle, ToggleRefused, DeleteUnloads, DeleteRemoves,
         ReconcileInWorker, AskServer, ReconcileInServer, Apply, Unlock,
         FinishSkipped,
         FinishReads, FinishWrites, At, Ended

(* Every step keeps the state typed.                                         *)
LEMMA TypeStep ==
    ASSUME TInv, [Next]_vars
    PROVE  TypeOK'
  <1> USE Constants
  <1>0. TypeOK /\ MarkerThere /\ SeenThere
    BY DEF TInv
  <1> USE <1>0
  <1>1. ASSUME NEW j \in Jobs, TakeLane(j) PROVE TypeOK'
    BY <1>1, Alive, Goes
    DEF TakeLane, TypeOK, At, Ended, Steps, JobRecords, skill, writes, server,
        history
  <1>2. ASSUME NEW j \in Jobs, TakeLock(j) PROVE TypeOK'
    <2>1. job[j] \in JobRecords
      BY <1>2, Alive DEF TakeLock, At, Ended
    <2>2. FirstStep(job[j].kind) \in Steps
      BY <2>1 DEF FirstStep, Steps
    <2>3. record' \in Records \cup {NoRecord}
      BY <1>2, <2>1 DEF TakeLock, TypeOK, Records, JobRecords
    <2>4. job' \in [Jobs -> JobRecords \cup EndedJobs]
      BY <1>2, <2>1, <2>2, Goes DEF TakeLock
    <2> QED
      BY <1>2, <2>3, <2>4
      DEF TakeLock, TypeOK, Locked, skill, writes, server, history
  <1>3. ASSUME NEW j \in Jobs, Cancel(j) PROVE TypeOK'
    BY <1>3, Ends, Frees DEF Cancel, TypeOK, skill, writes, server, history
  <1>4. ASSUME NEW j \in Jobs, Read(j) PROVE TypeOK'
    <2>1. job[j] \in JobRecords
      BY <1>4, Alive DEF Read, At, Ended
    <2>2. record.job \in 0..MaxJobs
      <3>1. CASE record \in Records
        BY <3>1 DEF Records
      <3>2. CASE record = NoRecord
        BY <3>2 DEF NoRecord, Free
      <3> QED
        BY <3>1, <3>2 DEF TypeOK
    <2>3. job' \in [Jobs -> JobRecords \cup EndedJobs]
      BY <1>4, <2>1, <2>2 DEF Read, TypeOK, JobRecords, Steps
    <2> QED
      BY <1>4, <2>3 DEF Read, TypeOK, skill, locks, writes, server, history
  <1>5. ASSUME NEW j \in Jobs, PreflightFails(j) PROVE TypeOK'
    <2>1. job[j] \in JobRecords
      BY <1>5, Alive DEF PreflightFails, At, Ended
    <2>2. job' \in [Jobs -> JobRecords \cup EndedJobs]
      BY <1>5, <2>1, Goes DEF PreflightFails, Steps
    <2> QED
      BY <1>5, <2>1, <2>2
      DEF PreflightFails, TypeOK, JobRecords, locks, writes, server, history
  <1>6. ASSUME NEW j \in Jobs,
               NotSaved(j) \/ MaySave(j) \/ FinishReads(j) \/ ToggleRefused(j)
        PROVE  TypeOK'
    <2>1. job[j] \in JobRecords
      BY <1>6, Alive DEF NotSaved, MaySave, FinishReads, ToggleRefused, At, Ended
    <2>2. job' \in [Jobs -> JobRecords \cup EndedJobs]
      BY <1>6, <2>1, Goes DEF NotSaved, MaySave, FinishReads, ToggleRefused, Steps
    <2> QED
      BY <1>6, <2>2
      DEF NotSaved, MaySave, FinishReads, ToggleRefused, TypeOK, skill, locks,
          writes, server, history
  <1>7. ASSUME NEW j \in Jobs, Save(j) PROVE TypeOK'
    <2>1. job[j] \in JobRecords
      BY <1>7, Alive DEF Save, At, Ended
    <2>2. job' \in [Jobs -> JobRecords \cup EndedJobs]
      BY <1>7, <2>1, Goes DEF Save, Steps
    <2> QED
      BY <1>7, <2>1, <2>2
      DEF Save, TypeOK, JobRecords, SeenThere, Contents, Gone, locks,
                              writes, server
  <1>8. ASSUME NEW j \in Jobs, AutoEnable(j) \/ Toggle(j) PROVE TypeOK'
    <2>1. job[j] \in JobRecords
      BY <1>8, Alive DEF AutoEnable, Toggle, At, Ended
    <2>2. enabled' \in BOOLEAN
      BY <1>8 DEF AutoEnable, Toggle
    <2>3. job' \in [Jobs -> JobRecords \cup EndedJobs]
      BY <1>8, <2>1, <2>2 DEF AutoEnable, Toggle, TypeOK, JobRecords, Steps
    <2> QED
      BY <1>8, <2>2, <2>3 DEF AutoEnable, Toggle, TypeOK, locks, writes, server
  <1>9. ASSUME NEW j \in Jobs, DeleteUnloads(j) PROVE TypeOK'
    <2>1. job[j] \in JobRecords
      BY <1>9, Alive DEF DeleteUnloads, At, Ended
    <2>2. job' \in [Jobs -> JobRecords \cup EndedJobs]
      BY <1>9, <2>1, Goes DEF DeleteUnloads, Steps
    <2> QED
      BY <1>9, <2>2 DEF DeleteUnloads, TypeOK, skill, locks, writes, history
  <1>10. ASSUME NEW j \in Jobs, DeleteRemoves(j) PROVE TypeOK'
    <2>1. job[j] \in JobRecords
      BY <1>10, Alive DEF DeleteRemoves, At, Ended
    <2>2. job' \in [Jobs -> JobRecords \cup EndedJobs]
      BY <1>10, <2>1, Goes DEF DeleteRemoves, Steps
    <2> QED
      BY <1>10, <2>2 DEF DeleteRemoves, TypeOK, locks, writes, server
  <1>11. ASSUME NEW j \in Jobs, ReconcileInWorker(j) PROVE TypeOK'
    <2>1. job[j] \in JobRecords
      BY <1>11, Alive DEF ReconcileInWorker, At, Ended
    <2>2. job' \in [Jobs -> JobRecords \cup EndedJobs]
      BY <1>11, <2>1, Goes DEF ReconcileInWorker, Steps
    <2> QED
      BY <1>11, <2>2 DEF ReconcileInWorker, TypeOK, locks, writes, server
  <1>12. ASSUME NEW j \in Jobs, AskServer(j) PROVE TypeOK'
    <2>1. job[j] \in JobRecords
      BY <1>12, Alive DEF AskServer, At, Ended
    <2>2. job' \in [Jobs -> JobRecords \cup EndedJobs]
      BY <1>12, <2>1, Goes DEF AskServer, Steps
    <2> QED
      BY <1>12, <2>2 DEF AskServer, Marked, TypeOK, skill, locks, writes, history
  <1>13. Desired \in Contents
    BY DEF TypeOK, Desired
  <1>14. ASSUME NEW j \in Jobs, ReconcileInServer(j) PROVE TypeOK'
    <2>1. job[j] \in JobRecords
      BY <1>14, Alive DEF ReconcileInServer, At, Ended
    <2>2. job' \in [Jobs -> JobRecords \cup EndedJobs]
      BY <1>14, <1>13, <2>1 DEF ReconcileInServer, TypeOK, JobRecords, Steps
    <2>3. registry' \in 0..(MaxJobs + 1)
      BY <1>14 DEF ReconcileInServer, Jobs
    <2> QED
      BY <1>14, <2>2, <2>3 DEF ReconcileInServer, TypeOK, skill, writes, server
  <1>15. ASSUME NEW w \in Contents, NEW x \in Applied(w) PROVE x \in Contents
    BY <1>15 DEF Applied, Loaded, TypeOK
  <1>16. ASSUME NEW j \in Jobs, Apply(j) PROVE TypeOK'
    <2>1. job[j] \in JobRecords
      BY <1>16, Alive DEF Apply, At, Ended
    <2>2. job' \in [Jobs -> JobRecords \cup EndedJobs]
      BY <1>16, <2>1, Goes DEF Apply, Steps
    <2>3. live' \in Contents
      BY <1>15, <1>16, <2>1 DEF Apply, JobRecords
    <2>4. registry' \in 0..(MaxJobs + 1) /\ enabled' \in BOOLEAN
      BY <1>16 DEF Apply, Free, TypeOK
    <2> QED
      BY <1>16, <2>2, <2>3, <2>4 DEF Apply, TypeOK, writes
  <1>17. ASSUME PickupBegins PROVE TypeOK'
    <2>1. registry' \in 0..(MaxJobs + 1)
      BY <1>17 DEF PickupBegins
    <2>2. pickup' \in Pickups
      BY <1>13, <1>17 DEF PickupBegins, Pickups
    <2> QED
      BY <1>17, <2>1, <2>2 DEF PickupBegins, TypeOK, skill, writes
  <1>18. ASSUME PickupApplies PROVE TypeOK'
    <2>1. pickup \in Pickups
      BY <1>18 DEF PickupApplies, TypeOK
    <2>2. pickup' \in Pickups /\ live' \in Contents
      BY <1>15, <1>18, <2>1 DEF PickupApplies, Pickups
    <2> QED
      BY <1>18, <2>2 DEF PickupApplies, TypeOK, skill, writes, history, Free
  <1>19. ASSUME NEW j \in Jobs, Unlock(j) PROVE TypeOK'
    <2>1. job[j] \in JobRecords
      BY <1>19, Alive DEF Unlock, At, Ended
    <2>2. job' \in [Jobs -> JobRecords \cup EndedJobs]
      BY <1>19, <2>1, Goes, Ends DEF Unlock, Steps
    <2>3. lane' \in [Procs -> 0..MaxJobs] /\ lock' \in 0..MaxJobs
      BY <1>19, Frees DEF Unlock, TypeOK
    <2> QED
      BY <1>19, <2>2, <2>3 DEF Unlock, TypeOK, skill, writes, server, history
  <1>20. ASSUME NEW j \in Jobs, FinishSkipped(j) PROVE TypeOK'
    BY <1>20, Ends, Frees DEF FinishSkipped, TypeOK, skill, writes, server, history
  <1>21. ASSUME NEW j \in Jobs, FinishWrites(j) PROVE TypeOK'
    <2>1. job[j] \in JobRecords
      BY <1>21, Alive DEF FinishWrites, At, Ended
    <2>2. record' \in Records
      BY <1>21, <2>1 DEF FinishWrites, Records, JobRecords
    <2> QED
      BY <1>21, <2>2, Ends, Frees
      DEF FinishWrites, TypeOK, skill, writes, server, history
  <1>22. ASSUME NEW j \in Jobs, BeatReads(j) \/ BeatWrites(j) PROVE TypeOK'
    BY <1>22 DEF BeatReads, BeatWrites, TypeOK, Writes, NoWrite, NoRecord, skill,
                 locks, server, history
  <1>23. ASSUME SweepReads \/ SweepWrites PROVE TypeOK'
    <2>1. Stale => Interrupted(record) \in Records
      BY DEF Stale, Interrupted, Records, NoRecord, TypeOK
    <2> QED
      BY <1>23, <2>1
      DEF SweepReads, SweepWrites, TypeOK, Writes, NoWrite, skill, locks, server,
          history
  <1>24. ASSUME NEW j \in Jobs, NEW kind \in Kinds, NEW p \in Procs,
                Submit(j, kind, p) PROVE TypeOK'
    <2>1. record' \in Records \cup {NoRecord}
      BY <1>24 DEF Submit, Stale, Interrupted, Records, NoRecord, TypeOK
    <2>2. job' \in [Jobs -> JobRecords \cup EndedJobs]
      BY <1>24 DEF Submit, TypeOK, JobRecords, Steps
    <2> QED
      BY <1>24, <2>1, <2>2 DEF Submit, TypeOK, skill, locks, writes, server, history
  <1>25. ASSUME Edit \/ Sleep PROVE TypeOK'
    <2>1. events' \in 0..MaxEvents
      BY <1>25 DEF Edit, Sleep, Happens, TypeOK
    <2>2. CASE Edit
      BY <2>1, <2>2 DEF Edit, TypeOK, locks, writes, server, history
    <2>3. CASE Sleep
      BY <2>1, <2>3 DEF Sleep, TypeOK, skill, locks, server, history
    <2> QED
      BY <1>25, <2>2, <2>3
  <1>26. ASSUME NEW ps, Killed(ps)
         PROVE  /\ job' \in [Jobs -> JobRecords \cup EndedJobs]
                /\ lane' \in [Procs -> 0..MaxJobs]
                /\ lock' \in 0..MaxJobs
                /\ beat' \in [Jobs -> Writes]
                /\ slept' \subseteq Jobs
    BY <1>26 DEF Killed, TypeOK, EndedJobs, Writes
  <1>27. ASSUME NEW w \in Workers, WorkerDies(w) PROVE TypeOK'
    BY <1>26, <1>27 DEF WorkerDies, Happens, TypeOK, skill, server
  <1>28. ASSUME ServerRestarts PROVE TypeOK'
    <2>1. record' \in Records \cup {NoRecord}
      BY <1>28 DEF ServerRestarts, Interrupted, Records, NoRecord, TypeOK
    <2>2. events' \in 0..MaxEvents
      BY <1>28 DEF ServerRestarts, Happens, TypeOK
    <2>3. live' \in Contents /\ registry' \in 0..(MaxJobs + 1)
      BY <1>13, <1>28 DEF ServerRestarts, Free
    <2> QED
      BY <1>26, <1>28, <2>1, <2>2, <2>3
      DEF ServerRestarts, Happens, TypeOK, skill, Writes, Free
  <1>29. ASSUME PickupUnlinks PROVE TypeOK'
    BY <1>29 DEF PickupUnlinks, MarkerThere, TypeOK, skill, locks, writes, history
  <1>30. CASE UNCHANGED vars
    BY <1>30 DEF vars, TypeOK
  <1> QED
    BY <1>1, <1>2, <1>3, <1>4, <1>5, <1>6, <1>7, <1>8, <1>9, <1>10, <1>11, <1>12,
       <1>14, <1>16, <1>17, <1>18, <1>19, <1>20, <1>21, <1>22, <1>23, <1>24, <1>25,
       <1>27, <1>28, <1>29, <1>30 DEF Next, JobStep, Pickup

(* Every step keeps a pickup at a marker and a verdict at its content.       *)
LEMMA ThereStep ==
    ASSUME TInv, [Next]_vars
    PROVE  MarkerThere' /\ SeenThere'
  <1>0. TypeOK /\ MarkerThere /\ SeenThere
    BY DEF TInv
  <1>1. MarkerThere'
    <2>1. CASE UNCHANGED <<pickup, markers>>
      BY <1>0, <2>1 DEF MarkerThere
    <2>2. ASSUME NEW j \in Jobs, AskServer(j) PROVE MarkerThere'
      BY <1>0, <2>2 DEF MarkerThere, AskServer, Marked, TypeOK
    <2>3. CASE Pickup
      BY <1>0, <2>3
      DEF Pickup, PickupBegins, PickupApplies, PickupUnlinks, MarkerThere
    <2>4. CASE ServerRestarts
      BY <2>4 DEF ServerRestarts, MarkerThere
    <2>5. ASSUME NEW j \in Jobs, JobStep(j), ~AskServer(j)
          PROVE UNCHANGED <<pickup, markers>>
      BY <2>5 DEF JobStep, TakeLane, TakeLock, Read, PreflightFails, NotSaved,
                  MaySave,
         Save, AutoEnable, Toggle, ToggleRefused, DeleteUnloads, DeleteRemoves,
         ReconcileInWorker, ReconcileInServer, Apply, Unlock, FinishSkipped,
         FinishReads, FinishWrites, server
    <2>6. ASSUME NEW j \in Jobs, Cancel(j) \/ BeatReads(j) \/ BeatWrites(j)
          PROVE  UNCHANGED <<pickup, markers>>
      BY <2>6 DEF Cancel, BeatReads, BeatWrites, server
    <2>7. ASSUME NEW j \in Jobs, NEW kind \in Kinds, NEW p \in Procs,
                 Submit(j, kind, p)
          PROVE  UNCHANGED <<pickup, markers>>
      BY <2>7 DEF Submit, server
    <2>8. ASSUME NEW w \in Workers, WorkerDies(w)
          PROVE UNCHANGED <<pickup, markers>>
      BY <2>8 DEF WorkerDies, server
    <2>9. CASE SweepReads \/ SweepWrites \/ Edit \/ Sleep \/ UNCHANGED vars
      BY <2>1, <2>9 DEF SweepReads, SweepWrites, Edit, Sleep, vars, server
    <2> QED
      BY <2>1, <2>2, <2>3, <2>4, <2>5, <2>6, <2>7, <2>8, <2>9 DEF Next
  <1>2. SeenThere'
    <2>1. SUFFICES ASSUME NEW i \in Jobs, job'[i].at \in {"judged", "saving"}
                   PROVE  job'[i].seen # Gone
      BY DEF SeenThere, At
    <2>2. CASE job'[i] = job[i]
      BY <1>0, <2>1, <2>2 DEF SeenThere, At
    <2>3. ASSUME JobStep(i) PROVE job'[i].seen # Gone
      <3>1. job[i] \in JobRecords
        BY <1>0, <2>3, Started
      <3>2. CASE Read(i)
        BY <1>0, <2>1, <3>1, <3>2 DEF Read, TypeOK, JobRecords
      <3>3. CASE MaySave(i)
        BY <1>0, <3>1, <3>3, GoesTo DEF MaySave, SeenThere
      <3>4. ~TakeLock(i)
        BY <1>0, <2>1, <3>1, GoesTo DEF TakeLock, FirstStep
      <3> QED
        BY <1>0, <2>1, <2>3, <3>1, <3>2, <3>3, <3>4, GoesTo
        DEF JobStep, TakeLane, PreflightFails, NotSaved, Save, AutoEnable, Toggle,
            ToggleRefused, DeleteUnloads, DeleteRemoves, ReconcileInWorker,
            AskServer,
            ReconcileInServer, Apply, Unlock, FinishSkipped, FinishReads,
            FinishWrites,
            End, TypeOK, JobRecords
    <2>4. ASSUME NEW j \in Jobs, JobStep(j), j # i PROVE job'[i].seen # Gone
      BY <1>0, <2>2, <2>4, OthersStay
    <2>5. ASSUME NEW j \in Jobs, NEW kind \in Kinds, NEW p \in Procs,
                 Submit(j, kind, p)
          PROVE  job'[i].seen # Gone
      BY <1>0, <2>1, <2>2, <2>5 DEF Submit, TypeOK
    <2>6. ASSUME NEW j \in Jobs, Cancel(j) PROVE job'[i].seen # Gone
      BY <1>0, <2>1, <2>2, <2>6 DEF Cancel, End, TypeOK
    <2>7. ASSUME NEW ps, Killed(ps) PROVE job'[i].seen # Gone
      BY <2>1, <2>2, <2>7 DEF Killed
    <2> QED
      BY <1>0, <2>2, <2>3, <2>4, <2>5, <2>6, <2>7
      DEF Next, Pickup, BeatReads, BeatWrites, PickupBegins, PickupApplies,
          PickupUnlinks, SweepReads, SweepWrites, Edit, Sleep, ServerRestarts,
          WorkerDies, vars
  <1> QED BY <1>1, <1>2

(* What the server runs, is about to load or would load has passed a review. *)
WantKnown == \A j \in Jobs : At(j, "applying") => job[j].want \in passed \cup {Gone}
PickupKnown ==
    pickup # Unread /\ pickup.at = "applying" => pickup.want \in passed \cup {Gone}
Known ==
    /\ verdict.good => verdict.hash \in passed
    /\ RunsWhatPassed
    /\ WantKnown
    /\ PickupKnown

(* Which steps change what passed, the verdict, what is live and the pickup. *)
PassedBySave == passed' = passed \/ \E j \in Jobs : Save(j)
VerdictByJobs ==
    \/ verdict' = verdict
    \/ \E j \in Jobs : Save(j) \/ PreflightFails(j) \/ DeleteRemoves(j)
LiveByLoads ==
    \/ live' = live
    \/ \E j \in Jobs : Apply(j) \/ DeleteUnloads(j)
    \/ PickupApplies
    \/ ServerRestarts
PickupByServer == pickup' = pickup \/ Pickup \/ ServerRestarts

LEMMA WhoChangesWhat ==
    ASSUME [Next]_vars
    PROVE  PassedBySave /\ VerdictByJobs /\ LiveByLoads /\ PickupByServer
  <1>1. ASSUME NEW j \in Jobs, JobStep(j)
        PROVE  PassedBySave /\ VerdictByJobs /\ LiveByLoads /\ PickupByServer
    <2>1. CASE Save(j)
      BY <2>1 DEF Save, PassedBySave, VerdictByJobs, LiveByLoads, PickupByServer,
                  server
    <2>2. CASE PreflightFails(j) \/ DeleteRemoves(j)
      BY <2>2
      DEF PreflightFails, DeleteRemoves, PassedBySave, VerdictByJobs, LiveByLoads,
          PickupByServer, server, history
    <2>3. CASE Apply(j) \/ DeleteUnloads(j)
      BY <2>3 DEF Apply, DeleteUnloads, PassedBySave, VerdictByJobs, LiveByLoads,
                  PickupByServer, server, skill, history
    <2>4. CASE \/ TakeLane(j) \/ TakeLock(j) \/ Read(j) \/ NotSaved(j) \/ MaySave(j)
               \/ AutoEnable(j) \/ Toggle(j) \/ ToggleRefused(j)
      BY <2>4
      DEF TakeLane, TakeLock, Read, NotSaved, MaySave, AutoEnable, Toggle,
          ToggleRefused, PassedBySave, VerdictByJobs, LiveByLoads, PickupByServer,
          server, skill, history
    <2>5. CASE \/ ReconcileInWorker(j) \/ AskServer(j) \/ ReconcileInServer(j)
               \/ Unlock(j) \/ FinishSkipped(j) \/ FinishReads(j) \/ FinishWrites(j)
      BY <2>5
      DEF ReconcileInWorker, AskServer, ReconcileInServer, Unlock, FinishSkipped,
          FinishReads, FinishWrites, PassedBySave, VerdictByJobs, LiveByLoads,
          PickupByServer, server, skill, history
    <2> QED
      BY <1>1, <2>1, <2>2, <2>3, <2>4, <2>5 DEF JobStep
  <1>2. ASSUME NEW j \in Jobs,
               \/ \E kind \in Kinds, p \in Procs : Submit(j, kind, p)
               \/ Cancel(j) \/ BeatReads(j) \/ BeatWrites(j)
        PROVE  PassedBySave /\ VerdictByJobs /\ LiveByLoads /\ PickupByServer
    BY <1>2
    DEF Submit, Cancel, BeatReads, BeatWrites, PassedBySave, VerdictByJobs,
        LiveByLoads, PickupByServer, server, skill, history
  <1>3. CASE Pickup
    BY <1>3
    DEF Pickup, PickupBegins, PickupUnlinks, PickupApplies, PassedBySave,
        VerdictByJobs, LiveByLoads, PickupByServer, skill, history
  <1>4. CASE SweepReads \/ SweepWrites \/ Edit \/ Sleep
    BY <1>4
    DEF SweepReads, SweepWrites, Edit, Sleep, PassedBySave, VerdictByJobs,
        LiveByLoads, PickupByServer, server, skill, history
  <1>5. CASE ServerRestarts \/ \E w \in Workers : WorkerDies(w)
    BY <1>5
    DEF ServerRestarts, WorkerDies, PassedBySave, VerdictByJobs, LiveByLoads,
        PickupByServer, server, skill
  <1>6. CASE UNCHANGED vars
    BY <1>6
    DEF vars, PassedBySave, VerdictByJobs, LiveByLoads, PickupByServer
  <1> QED
    BY <1>1, <1>2, <1>3, <1>4, <1>5, <1>6 DEF Next

(* Whatever is loaded, or about to be loaded, passed a review.               *)
LEMMA KnownStep ==
    ASSUME TInv, Known, [Next]_vars
    PROVE  Known'
  <1>0. TypeOK /\ SeenThere
    BY DEF TInv
  <1>1. passed \subseteq passed'
    <2>1. passed' = passed \/ \E j \in Jobs : Save(j)
      BY WhoChangesWhat DEF PassedBySave
    <2>2. ASSUME NEW j \in Jobs, Save(j) PROVE passed \subseteq passed'
      BY <2>2 DEF Save
    <2> QED
      BY <2>1, <2>2
  <1>2. Desired \in passed \cup {Gone}
    BY DEF Known, Desired, Fresh
  <1>3. verdict'.good => verdict'.hash \in passed'
    <2>1. ASSUME NEW j \in Jobs, Save(j)
          PROVE verdict'.good => verdict'.hash \in passed'
      BY <2>1 DEF Save
    <2>2. ASSUME NEW j \in Jobs, PreflightFails(j) \/ DeleteRemoves(j)
          PROVE ~verdict'.good
      BY <2>2 DEF PreflightFails, DeleteRemoves
    <2>3. \/ verdict' = verdict
          \/ \E j \in Jobs : Save(j) \/ PreflightFails(j) \/ DeleteRemoves(j)
      BY WhoChangesWhat DEF VerdictByJobs
    <2> QED
      BY <1>1, <2>1, <2>2, <2>3 DEF Known
  <1>4. ASSUME NEW w \in passed \cup {Gone}, live' \in Applied(w)
        PROVE live' \in passed \cup {Gone}
    BY <1>4 DEF Applied, Loaded, Known, RunsWhatPassed
  <1>5. RunsWhatPassed'
    <2>1. ASSUME NEW j \in Jobs, Apply(j) PROVE live' \in passed \cup {Gone}
      BY <1>4, <2>1 DEF Apply, Known, WantKnown
    <2>2. CASE PickupApplies
      <3>1. pickup.want \in passed \cup {Gone}
        BY <2>2 DEF PickupApplies, Known, PickupKnown
      <3> QED
        BY <1>1, <1>4, <2>2, <3>1 DEF PickupApplies, RunsWhatPassed
    <2>3. ASSUME NEW j \in Jobs, DeleteUnloads(j) PROVE live' \in {live, Gone}
      BY <2>3 DEF DeleteUnloads
    <2>4. CASE ServerRestarts
      BY <1>1, <1>2, <2>4 DEF ServerRestarts, RunsWhatPassed
    <2>5. \/ live' = live
          \/ \E j \in Jobs : Apply(j) \/ DeleteUnloads(j)
          \/ PickupApplies
          \/ ServerRestarts
      BY WhoChangesWhat DEF LiveByLoads
    <2> QED
      BY <1>1, <2>1, <2>2, <2>3, <2>4, <2>5 DEF Known, RunsWhatPassed
  <1>6. WantKnown'
    <2>1. SUFFICES ASSUME NEW i \in Jobs, job'[i].at = "applying"
                   PROVE  job'[i].want \in passed \cup {Gone}
      BY <1>1 DEF WantKnown, At
    <2>2. CASE job'[i] = job[i]
      BY <2>1, <2>2 DEF Known, WantKnown, At
    <2>3. ASSUME JobStep(i) PROVE job'[i].want \in passed \cup {Gone}
      <3>1. job[i] \in JobRecords
        BY <1>0, <2>3, Started
      <3>2. CASE ReconcileInServer(i)
        BY <1>0, <1>2, <3>1, <3>2 DEF ReconcileInServer, TypeOK, JobRecords
      <3>3. ~Read(i) /\ ~AutoEnable(i) /\ ~Toggle(i)
        BY <1>0, <2>1, <3>1 DEF Read, AutoEnable, Toggle, TypeOK, JobRecords
      <3>4. ~TakeLock(i)
        BY <1>0, <2>1, <3>1, GoesTo DEF TakeLock, FirstStep
      <3> QED
        BY <1>0, <2>1, <2>3, <3>1, <3>2, <3>3, <3>4, GoesTo
        DEF JobStep, TakeLane, PreflightFails, NotSaved, MaySave, Save,
            ToggleRefused, DeleteUnloads, DeleteRemoves, ReconcileInWorker,
            AskServer,
            Apply, Unlock, FinishSkipped, FinishReads, FinishWrites,
            End, TypeOK
    <2>4. ASSUME NEW j \in Jobs, JobStep(j), j # i
          PROVE job'[i].want \in passed \cup {Gone}
      BY <1>0, <2>2, <2>4, OthersStay
    <2>5. ASSUME NEW j \in Jobs, NEW kind \in Kinds, NEW p \in Procs,
                 Submit(j, kind, p)
          PROVE  job'[i].want \in passed \cup {Gone}
      BY <1>0, <2>1, <2>2, <2>5 DEF Submit, TypeOK
    <2>6. ASSUME NEW j \in Jobs, Cancel(j) PROVE job'[i].want \in passed \cup {Gone}
      BY <1>0, <2>1, <2>2, <2>6 DEF Cancel, End, TypeOK
    <2>7. ASSUME NEW ps, Killed(ps) PROVE job'[i].want \in passed \cup {Gone}
      BY <2>1, <2>2, <2>7 DEF Killed
    <2> QED
      BY <1>0, <2>2, <2>3, <2>4, <2>5, <2>6, <2>7
      DEF Next, Pickup, BeatReads, BeatWrites, PickupBegins, PickupApplies,
          PickupUnlinks, SweepReads, SweepWrites, Edit, Sleep, ServerRestarts,
          WorkerDies, vars
  <1>7. PickupKnown'
    <2>1. CASE pickup' = pickup
      BY <1>1, <2>1 DEF Known, PickupKnown
    <2>2. CASE Pickup
      BY <1>0, <1>1, <1>2, <2>2
      DEF Pickup, PickupBegins, PickupApplies, PickupUnlinks, PickupKnown, TypeOK,
          Pickups
    <2>3. CASE ServerRestarts
      BY <2>3 DEF ServerRestarts, PickupKnown
    <2>4. pickup' = pickup \/ Pickup \/ ServerRestarts
      BY WhoChangesWhat DEF PickupByServer
    <2> QED
      BY <2>1, <2>2, <2>3, <2>4
  <1> QED
    BY <1>3, <1>5, <1>6, <1>7 DEF Known

(* A job between its lock and its unlock holds the file lock, so that nobody *)
(* else writes enabled.json; a job that may revert an enable wrote it.       *)
Locking == Steps \ {"queued", "waiting", "finish", "finishing"}
Deciding == {"queued", "waiting", "reviewing", "judged", "saving"}
Own ==
    \A j \in Jobs :
        /\ job[j].at \in Locking => lock = j
        /\ job[j].at \in Deciding => ~job[j].revert
        /\ job[j].at \in {"reconcile", "applying"} /\ job[j].revert => setter = j

(* Every step keeps the file lock and the enables with their jobs.           *)
LEMMA OwnStep ==
    ASSUME TInv, Own, [Next]_vars
    PROVE  Own'
  <1>0. TypeOK
    BY DEF TInv
  <1>1. SUFFICES ASSUME NEW i \in Jobs
                 PROVE  /\ job'[i].at \in Locking => lock' = i
                        /\ job'[i].at \in Deciding => ~job'[i].revert
                        /\ job'[i].at \in {"reconcile", "applying"}
                              /\ job'[i].revert => setter' = i
    BY DEF Own
  <1> DEFINE Fine == /\ job'[i].at \in Locking => lock' = i
                     /\ job'[i].at \in Deciding => ~job'[i].revert
                     /\ job'[i].at \in {"reconcile", "applying"} /\ job'[i].revert
                              => setter' = i
  <1>2. i # Free
    BY DEF Jobs, Free
  <1>3. ASSUME JobStep(i) PROVE Fine
    <2>1. job[i] \in JobRecords
      BY <1>0, <1>3, Started
    <2>2. CASE TakeLane(i) \/ TakeLock(i)
      BY <1>0, <2>1, <2>2, GoesTo
      DEF TakeLane, TakeLock, FirstStep, Locked, Own, Locking, Deciding, At
    <2>3. CASE Read(i) \/ AutoEnable(i) \/ Toggle(i) \/ ReconcileInServer(i)
      BY <1>0, <2>1, <2>3
      DEF Read, AutoEnable, Toggle, ReconcileInServer, TypeOK, JobRecords,
                              Own, Locking, Deciding, At, locks, history, Steps
    <2>4. CASE PreflightFails(i) \/ NotSaved(i) \/ MaySave(i) \/ Save(i)
               \/ ToggleRefused(i) \/ DeleteUnloads(i) \/ DeleteRemoves(i)
               \/ ReconcileInWorker(i)
               \/ AskServer(i) \/ Apply(i)
      BY <1>0, <2>1, <2>4, GoesTo
      DEF PreflightFails, NotSaved, MaySave, Save, ToggleRefused, DeleteUnloads,
          DeleteRemoves, ReconcileInWorker, AskServer, Apply, Own, Locking,
          Deciding,
          At, locks, Steps
    <2>5. CASE Unlock(i) \/ FinishSkipped(i) \/ FinishReads(i) \/ FinishWrites(i)
      BY <1>0, <2>1, <2>5, GoesTo
      DEF Unlock, FinishSkipped, FinishReads, FinishWrites, End, TypeOK, Locking,
          Deciding, Steps
    <2> QED
      BY <1>3, <2>2, <2>3, <2>4, <2>5 DEF JobStep
  <1>4. ASSUME NEW j \in Jobs, JobStep(j), j # i PROVE Fine
    <2>1. job'[i] = job[i]
      BY <1>0, <1>4, OthersStay
    <2>2. CASE UNCHANGED <<lock, setter>>
      BY <2>1, <2>2 DEF Own
    <2>3. CASE TakeLock(j)
      BY <1>2, <2>1, <2>3 DEF TakeLock, Own, Locking, history
    <2>4. CASE Unlock(j)
      BY <1>4, <2>1, <2>4 DEF Unlock, Own, Locking, Steps, At, history
    <2>5. CASE AutoEnable(j) \/ Toggle(j) \/ DeleteRemoves(j)
      BY <1>4, <2>1, <2>5
      DEF AutoEnable, Toggle, DeleteRemoves, Own, Locking, Steps, At, locks
    <2>6. UNCHANGED <<lock, setter>> \/ TakeLock(j) \/ Unlock(j)
          \/ AutoEnable(j) \/ Toggle(j) \/ DeleteRemoves(j)
      BY <1>4 DEF JobStep, TakeLane, Read, PreflightFails, NotSaved, MaySave, Save,
         ToggleRefused, DeleteUnloads, ReconcileInWorker, AskServer,
         ReconcileInServer, Apply,
         FinishSkipped, FinishReads, FinishWrites, locks, history
    <2> QED
      BY <2>2, <2>3, <2>4, <2>5, <2>6
  <1>5. ASSUME NEW j \in Jobs, NEW kind \in Kinds, NEW p \in Procs,
               Submit(j, kind, p)
        PROVE  Fine
    BY <1>0, <1>5 DEF Submit, TypeOK, Own, Locking, Deciding, locks, history
  <1>6. ASSUME NEW j \in Jobs, Cancel(j) PROVE Fine
    BY <1>0, <1>6 DEF Cancel, End, TypeOK, Own, Locking, Deciding, Steps, history
  <1>7. ASSUME NEW ps, Killed(ps), UNCHANGED setter PROVE Fine
    BY <1>2, <1>7 DEF Killed, Own, Locking, Deciding, Steps, Ended
  <1>8. CASE UNCHANGED <<job, lock, setter>>
    BY <1>8 DEF Own
  <1> QED
    BY <1>3, <1>4, <1>5, <1>6, <1>7, <1>8
    DEF Next, Pickup, BeatReads, BeatWrites, PickupBegins, PickupApplies,
        PickupUnlinks, SweepReads, SweepWrites, Edit, Sleep, ServerRestarts,
        WorkerDies, vars, locks, history

(* Which reviews the record and the heartbeats may show as running: one that *)
(* has the file lock, or has had it and not recorded its end, or has died.   *)
(* While a review has the lock, the record and its heartbeat show no other.  *)
Reviewing(r) == r.at \in Locking /\ r.kind = "review"
GoesOn(r) ==
    \/ r.at = "dead"
    \/ r.at \in Locking \cup {"finish", "finishing"} /\ r.kind = "review"
RecordGoesOn == record.status = "running" => GoesOn(job[record.job])
RecordIsMine ==
    \A j \in Jobs : Reviewing(job[j]) /\ record.status = "running" => record.job = j
BeatIsMine ==
    \A j \in Jobs : beat[j].status = "running" => beat[j].job = j /\ Reviewing(job[j])
SweepEnds == sweep.status # "running"
Shown == RecordGoesOn /\ RecordIsMine /\ BeatIsMine /\ SweepEnds

(* Where a step takes a review: it gets the lock, lets it go, or is over.    *)
LEMMA ReviewMoves ==
    ASSUME TypeOK, NEW j \in Jobs, JobStep(j)
    PROVE  /\ Reviewing(job'[j]) => Reviewing(job[j]) \/ TakeLock(j)
           /\ Reviewing(job[j]) => Reviewing(job'[j]) \/ Unlock(j)
           /\ GoesOn(job[j]) => GoesOn(job'[j]) \/ FinishSkipped(j) \/ FinishWrites(j)
  <1>1. job[j] \in JobRecords
    BY Started
  <1>2. CASE TakeLane(j) \/ TakeLock(j)
    BY <1>1, <1>2, GoesTo
    DEF TakeLane, TakeLock, Reviewing, GoesOn, IsReview, Locking, At
  <1>3. CASE Read(j) \/ AutoEnable(j) \/ Toggle(j) \/ ReconcileInServer(j)
    BY <1>1, <1>3
    DEF Read, AutoEnable, Toggle, ReconcileInServer, TypeOK, JobRecords, Reviewing,
        GoesOn, IsReview, Locking, Steps, At
  <1>4. CASE PreflightFails(j) \/ NotSaved(j) \/ MaySave(j) \/ Save(j)
             \/ ToggleRefused(j) \/ DeleteUnloads(j) \/ DeleteRemoves(j)
             \/ ReconcileInWorker(j) \/ AskServer(j) \/ Apply(j)
    BY <1>1, <1>4, GoesTo
    DEF PreflightFails, NotSaved, MaySave, Save, ToggleRefused, DeleteUnloads,
        DeleteRemoves, ReconcileInWorker, AskServer, Apply, Reviewing, GoesOn,
        IsReview, Locking, Steps, At
  <1>5. CASE Unlock(j) \/ FinishSkipped(j) \/ FinishReads(j) \/ FinishWrites(j)
    BY <1>1, <1>5, GoesTo
    DEF Unlock, FinishSkipped, FinishReads, FinishWrites, End, TypeOK, Reviewing,
        GoesOn, IsReview, Locking, Steps, At
  <1> QED
    BY <1>2, <1>3, <1>4, <1>5 DEF JobStep

(* Every step keeps the record, the heartbeats and the sweep true to that.   *)
LEMMA ShownStep ==
    ASSUME TInv, Own, Shown, [Next]_vars
    PROVE  Shown'
  <1>0. TypeOK /\ RecordGoesOn /\ RecordIsMine /\ BeatIsMine /\ SweepEnds
    BY DEF TInv, Shown
  <1>1. /\ NoWrite.status = "nothing" /\ NoRecord.status = "none"
        /\ record.status = "running" => record.job \in Jobs /\ record \in Records
    BY <1>0 DEF NoWrite, NoRecord, TypeOK, Records
  <1>2. \A i, j \in Jobs : Reviewing(job[i]) /\ Reviewing(job[j]) => i = j
    BY DEF Own, Reviewing
  <1>3. ASSUME NEW j \in Jobs, JobStep(j) PROVE Shown'
    <2>1. UNCHANGED <<beat, sweep>> /\ \A i \in Jobs : i # j => job'[i] = job[i]
      BY <1>0, <1>3, OthersStay
      DEF JobStep, TakeLane, TakeLock, Read, PreflightFails, NotSaved, MaySave, Save,
          AutoEnable, Toggle, ToggleRefused, DeleteUnloads, DeleteRemoves,
          ReconcileInWorker, AskServer, ReconcileInServer, Apply, Unlock,
          FinishSkipped, FinishReads, FinishWrites, writes
    <2>2. \A i \in Jobs : i # j => /\ Reviewing(job'[i]) <=> Reviewing(job[i])
                                   /\ GoesOn(job'[i]) <=> GoesOn(job[i])
      BY <2>1
    <2>3. BeatIsMine'
      <3>1. Unlock(j) => beat[j].status # "running"
        BY <1>1 DEF Unlock
      <3>2. \A i \in Jobs : beat[i].status = "running" => beat[i].job = i /\ Reviewing(job'[i])
        BY <1>0, <1>3, <2>2, <3>1, ReviewMoves DEF BeatIsMine
      <3> QED
        BY <2>1, <3>2 DEF BeatIsMine, Reviewing, IsReview
    <2>4. CASE TakeLock(j)
      <3>1. job[j] \in JobRecords /\ \A i \in Jobs : ~Reviewing(job[i])
        BY <1>0, <1>3, <2>4, Started DEF TakeLock, Own, Reviewing, Free, Jobs
      <3>2. \A i \in Jobs : Reviewing(job'[i]) => i = j
        BY <2>2, <3>1
      <3>3. CASE IsReview(j)
        <4>1. record'.job = j
          BY <2>4, <3>3 DEF TakeLock
        <4>2. job'[j].at = "reviewing" /\ job'[j].kind = "review"
          BY <1>0, <2>4, <3>1, <3>3, GoesTo DEF TakeLock, FirstStep, IsReview
        <4>3. GoesOn(job'[j])
          BY <4>2 DEF GoesOn, IsReview, Locking, Steps
        <4>4. RecordGoesOn'
          BY <4>1, <4>3 DEF RecordGoesOn, GoesOn, At, IsReview
        <4>5. RecordIsMine'
          BY <3>2, <4>1 DEF RecordIsMine, Reviewing, IsReview
        <4> QED
          BY <1>0, <2>1, <2>3, <4>4, <4>5 DEF Shown, SweepEnds
      <3>4. CASE ~IsReview(j)
        <4>1. record' = record
          BY <2>4, <3>4 DEF TakeLock
        <4>2. ~Reviewing(job'[j])
          BY <1>0, <2>4, <3>1, <3>4, GoesTo DEF TakeLock, Reviewing, IsReview
        <4>3. ~GoesOn(job[j])
          BY <2>4, <3>4 DEF TakeLock, GoesOn, Locking, At
        <4>4. RecordGoesOn'
          BY <1>0, <1>1, <2>2, <4>1, <4>3 DEF RecordGoesOn
        <4>5. RecordIsMine'
          BY <3>2, <4>2 DEF RecordIsMine
        <4> QED
          BY <1>0, <2>1, <2>3, <4>4, <4>5 DEF Shown, SweepEnds
      <3> QED
        BY <3>3, <3>4
    <2>5. CASE DeleteRemoves(j) \/ FinishWrites(j)
      <3>1. record'.status # "running"
        BY <1>1, <2>5 DEF DeleteRemoves, FinishWrites
      <3> QED
        BY <1>0, <2>1, <2>3, <3>1 DEF Shown, RecordGoesOn, RecordIsMine, SweepEnds
    <2>6. CASE ~(TakeLock(j) \/ DeleteRemoves(j) \/ FinishWrites(j))
      <3>1. record' = record
        BY <1>3, <2>6
        DEF JobStep, TakeLane, Read, PreflightFails, NotSaved, MaySave, Save,
            AutoEnable, Toggle, ToggleRefused, DeleteUnloads, ReconcileInWorker,
            AskServer, ReconcileInServer, Apply, Unlock, FinishSkipped, FinishReads
      <3>2. FinishSkipped(j) => ~(record.status = "running" /\ record.job = j)
        BY DEF FinishSkipped, Mine
      <3>3. record.status = "running" => GoesOn(job'[record.job])
        BY <1>0, <1>1, <1>3, <2>2, <2>6, <3>2, ReviewMoves
        DEF RecordGoesOn
      <3>4. RecordGoesOn'
        BY <3>1, <3>3 DEF RecordGoesOn
      <3>5. RecordIsMine'
        BY <1>0, <1>3, <2>2, <2>6, <3>1, ReviewMoves
        DEF RecordIsMine
      <3> QED
        BY <1>0, <2>1, <2>3, <3>4, <3>5 DEF Shown, SweepEnds
    <2> QED
      BY <2>4, <2>5, <2>6
  <1>4. ASSUME \A i \in Jobs : /\ Reviewing(job'[i]) => Reviewing(job[i])
                               /\ Reviewing(job[i]) =>
                                    Reviewing(job'[i]) \/ beat'[i] = NoWrite
                               /\ GoesOn(job[i]) => GoesOn(job'[i]),
               record' = record \/ record'.status # "running",
               \A i \in Jobs : beat'[i] \in {beat[i], NoWrite},
               sweep' = sweep \/ sweep'.status # "running"
        PROVE  Shown'
    <2>1. RecordGoesOn'
      BY <1>0, <1>1, <1>4 DEF RecordGoesOn
    <2>2. RecordIsMine'
      BY <1>0, <1>4 DEF RecordIsMine
    <2>3. BeatIsMine'
      BY <1>0, <1>1, <1>4 DEF BeatIsMine
    <2> QED
      BY <1>0, <1>4, <2>1, <2>2, <2>3 DEF Shown, SweepEnds
  <1>5. ASSUME UNCHANGED job
        PROVE  \A i \in Jobs : /\ Reviewing(job'[i]) <=> Reviewing(job[i])
                               /\ GoesOn(job'[i]) <=> GoesOn(job[i])
    BY <1>5
  <1>6. ASSUME NEW j \in Jobs, NEW kind \in Kinds, NEW p \in Procs, Submit(j, kind, p)
        PROVE  Shown'
    <2>1. UNCHANGED <<beat, sweep>> /\ \A i \in Jobs : i # j => job'[i] = job[i]
      BY <1>0, <1>6 DEF Submit, TypeOK, writes
    <2>2. job[j].at = "none" /\ job'[j].at \in {"queued", "waiting"}
      BY <1>0, <1>6 DEF Submit, NoJob, TypeOK
    <2>3. ~Reviewing(job[j]) /\ ~Reviewing(job'[j]) /\ ~GoesOn(job[j])
      BY <2>2 DEF Reviewing, GoesOn, At, Locking, Steps
    <2>4. record' = record \/ record'.status # "running"
      BY <1>1, <1>6 DEF Submit, Stale, Interrupted, Records
    <2>5. \A i \in Jobs : i # j => /\ Reviewing(job'[i]) <=> Reviewing(job[i])
                                   /\ GoesOn(job'[i]) <=> GoesOn(job[i])
      BY <2>1
    <2> QED
      BY <1>4, <2>1, <2>3, <2>4, <2>5
  <1>7. ASSUME NEW j \in Jobs, Cancel(j) PROVE Shown'
    <2>1. /\ UNCHANGED <<record, beat, sweep>> /\ \A i \in Jobs : i # j => job'[i] = job[i]
          /\ job'[j].at = "done"
      BY <1>0, <1>7 DEF Cancel, End, TypeOK, writes
    <2>2. ~Reviewing(job[j]) /\ ~Reviewing(job'[j]) /\ ~GoesOn(job[j])
      BY <1>7, <2>1 DEF Cancel, Reviewing, GoesOn, At, Locking, Steps
    <2>3. \A i \in Jobs : i # j => /\ Reviewing(job'[i]) <=> Reviewing(job[i])
                                   /\ GoesOn(job'[i]) <=> GoesOn(job[i])
      BY <2>1
    <2> QED
      BY <1>4, <2>1, <2>2, <2>3
  <1>8. ASSUME NEW j \in Jobs, BeatReads(j) PROVE Shown'
    <2>1. /\ UNCHANGED <<job, record, sweep>> /\ beat'[j] = record
          /\ \A i \in Jobs : i # j => beat'[i] = beat[i]
      BY <1>0, <1>8 DEF BeatReads, TypeOK
    <2>2. Reviewing(job[j])
      BY <1>8 DEF BeatReads, Beats, Beating, Reviewing, IsReview, Locking, Steps
    <2>3. BeatIsMine'
      <3>1. \A i \in Jobs : beat'[i].status = "running" => beat'[i].job = i /\ Reviewing(job[i])
        BY <1>0, <2>1, <2>2 DEF BeatIsMine, RecordIsMine
      <3> QED
        BY <2>1, <3>1 DEF BeatIsMine
    <2>4. RecordGoesOn' /\ RecordIsMine' /\ SweepEnds'
      BY <1>0, <2>1
      DEF RecordGoesOn, RecordIsMine, SweepEnds, GoesOn, Reviewing, IsReview, At
    <2> QED
      BY <2>3, <2>4 DEF Shown
  <1>9. ASSUME NEW j \in Jobs, BeatWrites(j) PROVE Shown'
    <2>1. /\ UNCHANGED <<job, sweep>> /\ record' = beat[j] /\ beat'[j] = NoWrite
          /\ \A i \in Jobs : i # j => beat'[i] = beat[i]
      BY <1>0, <1>9 DEF BeatWrites, TypeOK
    <2>2. CASE beat[j].status # "running"
      BY <1>4, <1>5, <2>1, <2>2
    <2>3. CASE beat[j].status = "running"
      <3>1. record'.job = j /\ Reviewing(job[j])
        BY <1>0, <2>1, <2>3 DEF BeatIsMine
      <3>2. GoesOn(job[j])
        BY <3>1 DEF Reviewing, GoesOn
      <3>3. RecordGoesOn'
        BY <2>1, <3>1, <3>2 DEF RecordGoesOn
      <3>4. RecordIsMine'
        BY <1>2, <2>1, <3>1 DEF RecordIsMine
      <3>5. BeatIsMine'
        BY <1>0, <1>1, <2>1 DEF BeatIsMine
      <3> QED
        BY <1>0, <2>1, <3>3, <3>4, <3>5 DEF Shown, SweepEnds
    <2> QED
      BY <2>2, <2>3
  <1>10. CASE SweepReads \/ SweepWrites
    <2>1. UNCHANGED <<job, beat>>
      BY <1>10 DEF SweepReads, SweepWrites
    <2>2. record' = record \/ record'.status # "running"
      BY <1>0, <1>10 DEF SweepReads, SweepWrites, SweepEnds
    <2>3. sweep'.status # "running"
      BY <1>1, <1>10 DEF SweepReads, SweepWrites, Stale, Interrupted, Records
    <2> QED
      BY <1>4, <1>5, <2>1, <2>2, <2>3
  <1>11. CASE Pickup \/ Edit \/ Sleep \/ UNCHANGED vars
    <2>1. UNCHANGED <<job, record, beat, sweep>>
      BY <1>11
      DEF Pickup, PickupBegins, PickupApplies, PickupUnlinks, Edit, Sleep, vars, writes
    <2> QED
      BY <1>4, <1>5, <2>1
  <1>12. ASSUME NEW ps, Killed(ps)
         PROVE  /\ \A i \in Jobs : /\ Reviewing(job'[i]) => Reviewing(job[i])
                                   /\ Reviewing(job[i]) => Reviewing(job'[i]) \/ beat'[i] = NoWrite
                                   /\ GoesOn(job[i]) => GoesOn(job'[i])
                /\ \A i \in Jobs : beat'[i] \in {beat[i], NoWrite}
    <2>1. \A i \in Jobs :
              \/ job'[i] = job[i] /\ beat'[i] = beat[i]
              \/ job'[i] = [at |-> "dead"] /\ beat'[i] = NoWrite
      BY <1>12 DEF Killed
    <2>2. \A i \in Jobs : job'[i] = [at |-> "dead"] => ~Reviewing(job'[i]) /\ GoesOn(job'[i])
      BY DEF Reviewing, GoesOn, At, Locking, Steps
    <2>3. \A i \in Jobs : job'[i] = job[i] => /\ Reviewing(job'[i]) <=> Reviewing(job[i])
                                              /\ GoesOn(job'[i]) <=> GoesOn(job[i])
      OBVIOUS
    <2> QED
      BY <2>1, <2>2, <2>3
  <1>13. ASSUME NEW w \in Workers, WorkerDies(w) PROVE Shown'
    BY <1>4, <1>12, <1>13 DEF WorkerDies
  <1>14. CASE ServerRestarts
    <2>1. record' = record \/ record'.status # "running"
      BY <1>1, <1>14 DEF ServerRestarts, Interrupted, Records
    <2>2. sweep'.status # "running" /\ Killed(Procs)
      BY <1>1, <1>14 DEF ServerRestarts
    <2> QED
      BY <1>4, <1>12, <2>1, <2>2
  <1> QED
    BY <1>3, <1>6, <1>7, <1>8, <1>9, <1>10, <1>11, <1>13, <1>14 DEF Next

IInv == TInv /\ Known /\ Own /\ Shown

(* The inductive invariant.                                                  *)
LEMMA Inductive == Spec => []IInv
  <1>1. ASSUME Init PROVE IInv
    <2> USE <1>1
    <2>1. \A j \in Jobs : job[j] = NoJob
      BY DEF Init
    <2>2. NoJob \in EndedJobs /\ NoJob.at = "none"
      BY DEF NoJob, EndedJobs
    <2>3. TypeOK
      <3>1. job \in [Jobs -> JobRecords \cup EndedJobs]
        BY <2>2 DEF Init
      <3>2. beat \in [Jobs -> Writes] /\ sweep \in Writes
        BY DEF Init, Writes
      <3>3. lane \in [Procs -> 0..MaxJobs] /\ lock \in 0..MaxJobs
            /\ registry \in 0..(MaxJobs + 1) /\ setter \in 0..MaxJobs
            /\ events \in 0..MaxEvents /\ markers \in Nat
        BY Constants DEF Init, Free
      <3>4. verdict \in [hash : Contents, good : BOOLEAN]
        BY Constants DEF Init
      <3>5. payload \in Contents /\ live \in Contents
        BY Constants DEF Init
      <3> QED
        BY <3>1, <3>2, <3>3, <3>4, <3>5 DEF Init, TypeOK
    <2>4. MarkerThere /\ SeenThere
      BY <2>1, <2>2 DEF Init, MarkerThere, SeenThere, At
    <2>5. Known
      BY <2>1, <2>2 DEF Init, Known, RunsWhatPassed, WantKnown, PickupKnown, At
    <2>6. Own
      BY <2>1, <2>2 DEF Own, Locking, Steps, Deciding
    <2>7. Shown
      BY <2>1, <2>2
      DEF Init, Shown, RecordGoesOn, RecordIsMine, BeatIsMine, SweepEnds, NoRecord, NoWrite
    <2> QED
      BY <2>3, <2>4, <2>5, <2>6, <2>7 DEF IInv, TInv
  <1>2. IInv /\ [Next]_vars => IInv'
    BY TypeStep, ThereStep, KnownStep, OwnStep, ShownStep DEF IInv, TInv
  <1> QED
    BY <1>1, <1>2, PTL DEF Spec

(* Whatever process dies between two steps of a job, the records, locks and  *)
(* pickups are of their types: a job that unlocks, finishes or beats has its *)
(* record (skill_lifecycle_queue.py, run_lifecycle_job).                     *)
THEOREM SkillTyping == Spec => []TypeOK
  <1>1. IInv => TypeOK
    BY DEF IInv, TInv
  <1> QED
    BY <1>1, Inductive, PTL

(* RunsWhatPassed: load_extension computes the hash of the payload again     *)
(* after runtime_state_for_skill_name did (extension_loader.py), so that an  *)
(* edit in between is never live without a review of its own.                *)
THEOREM ServerRunsWhatPassed == Spec => []RunsWhatPassed
  <1>1. IInv => RunsWhatPassed
    BY DEF IInv, Known
  <1> QED
    BY <1>1, Inductive, PTL

(* RevertsItsOwn: toggles and auto-enables write enabled.json under the file *)
(* lock and keep it until their reconcile is over, so that the load failure  *)
(* that undoes an enable (skill_review_runner.py, skills.py) meets the same  *)
(* job's enable.                                                             *)
THEOREM FailedLoadRevertsItsOwn == Spec => RevertsItsOwn
  <1>1. ASSUME IInv, NEW j \in Jobs, Reverts(j) PROVE setter = j
    <2>1. At(j, "reconcile") \/ At(j, "applying")
      BY <1>1 DEF Reverts, Apply, ReconcileInWorker
    <2>2. job[j].revert
      BY <1>1 DEF Reverts, Apply, ReconcileInWorker
    <2> QED
      BY <1>1, <2>1, <2>2 DEF IInv, Own, At
  <1>2. IInv => [\A j \in Jobs : Reverts(j) => setter = j]_vars
    BY <1>1
  <1> QED
    BY <1>2, Inductive, PTL DEF RevertsItsOwn
(* OverIsNotRunning: the record of a review that has ended is not written    *)
(* back as running: the heartbeat is joined before the file lock is released *)
(* and the end recorded, and the search for interrupted reviews writes       *)
(* interrupted only (skill_review_runner.py, skill_lifecycle_queue.py).      *)
THEOREM EndedIsNotRunning == Spec => []OverIsNotRunning
  <1>1. ASSUME IInv PROVE OverIsNotRunning
    <2>1. record.status = "running" => record.job \in Jobs
      BY <1>1 DEF IInv, TInv, TypeOK, NoRecord, Records
    <2>2. record.status = "running" => GoesOn(job[record.job])
      BY <1>1 DEF IInv, Shown, RecordGoesOn
    <2> QED
      BY <2>2 DEF OverIsNotRunning, GoesOn, At, Locking, Steps
  <1> QED
    BY <1>1, Inductive, PTL
=============================================================================
