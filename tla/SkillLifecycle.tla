--------------------------- MODULE SkillLifecycle ---------------------------
(* The life of one skill: reviews, toggles and its deletion, as jobs of      *)
(* several processes, and the extension that the server runs for it.         *)
(*                                                                           *)
(* A job waits for the lane of its process (a thread lock) and then for a    *)
(* file lock that all processes share.  Three things go past those locks:    *)
(* the server's pickup of the markers with which workers ask it to reconcile *)
(* the extension, whoever looks for reviews that were interrupted, and a     *)
(* finished review, which is recorded after the file lock was released.      *)
EXTENDS Naturals, FiniteSets

CONSTANTS
    Workers,    \* worker processes; the server is one more process
    MaxHash,    \* bound: contents the payload may have
    MaxJobs,    \* bound: jobs
    MaxEvents   \* bound: edits of the payload, deaths of processes and
                \* sleeps of the host

ASSUME SkillAssumption ==
    /\ "server" \notin Workers
    /\ {MaxHash, MaxJobs, MaxEvents} \subseteq Nat

VARIABLES
    payload,   \* content hash of the skill's files, or Gone
    verdict,   \* review.json: the content that was reviewed, and how
    enabled,   \* enabled.json
    record,    \* review_job.json
    job,       \* job[j]: where it is
    lane,      \* lane[p]: the job that holds the thread lock of process p
    lock,      \* the job that holds skill_lifecycle.lock
    beat,      \* beat[j]: what the heartbeat of review j is about to write
    sweep,     \* what the search for interrupted reviews is about to write
    live,      \* the server's registry: the content it runs, or Gone
    registry,  \* who holds the server's lifecycle lock of the extension
    pickup,    \* the server's pickup of a marker
    markers,   \* how many markers are in state/extension_reconcile
    slept,     \* running reviews whose last heartbeat is stale
    passed,    \* history: contents that passed a review
    unasked,   \* history: a worker died before it wrote its marker
    setter,    \* history: the job that wrote enabled.json last
    events     \* how many of MaxEvents are left

vars == <<payload, verdict, enabled, record, job, lane, lock, beat, sweep,
          live, registry, pickup, markers, slept, passed, unasked, setter,
          events>>

skill == <<payload, verdict, enabled>>
locks == <<lane, lock, registry>>
writes == <<beat, sweep, slept>>
server == <<live, pickup, markers>>
history == <<passed, unasked, setter>>

Procs == Workers \cup {"server"}
Jobs == 1..MaxJobs
Free == 0
Hashes == 1..MaxHash
Gone == 0
Contents == Hashes \cup {Gone}

Steps == {"queued", "waiting", "reviewing", "judged", "saving", "enabling",
          "toggling", "unloading", "deleting", "reconcile", "applying",
          "asking", "unlocking", "finish", "finishing"}
Kinds == {"review", "enable", "disable", "delete"}
NoJob == [at |-> "none"]
EndedJobs == [at : {"none", "done", "dead"}]
JobRecords == [kind : Kinds, proc : Procs, at : Steps, hash : Contents,
               seen : Contents, guard : 0..MaxJobs, revert : BOOLEAN,
               want : Contents]
NoRecord == [status |-> "none", job |-> 0, hash |-> Gone]
Records == [status : {"running", "interrupted", "completed", "failed"},
            job : Jobs, hash : Contents]
NoWrite == [status |-> "nothing"]
Writes == Records \cup {NoWrite}
Unread == [at |-> "idle"]
Pickups == [at : {"applying", "unlinking"}, want : Contents]

TypeOK ==
    /\ payload \in Contents
    /\ verdict \in [hash : Contents, good : BOOLEAN]
    /\ enabled \in BOOLEAN
    /\ record \in Records \cup {NoRecord}
    /\ job \in [Jobs -> JobRecords \cup EndedJobs]
    /\ lane \in [Procs -> 0..MaxJobs]
    /\ lock \in 0..MaxJobs
    /\ beat \in [Jobs -> Writes]
    /\ sweep \in Writes
    /\ live \in Contents
    /\ registry \in 0..(MaxJobs + 1)
    /\ pickup \in Pickups \cup {Unread}
    /\ markers \in Nat
    /\ slept \subseteq Jobs
    /\ passed \subseteq Hashes
    /\ unasked \in BOOLEAN
    /\ setter \in 0..MaxJobs
    /\ events \in 0..MaxEvents

Init ==
    /\ payload \in Hashes
    /\ verdict = [hash |-> Gone, good |-> FALSE]
    /\ enabled = FALSE
    /\ record = NoRecord
    /\ job = [j \in Jobs |-> NoJob]
    /\ lane = [p \in Procs |-> Free]
    /\ lock = Free
    /\ beat = [j \in Jobs |-> NoWrite]
    /\ sweep = NoWrite
    /\ live = Gone
    /\ registry = Free
    /\ pickup = Unread
    /\ markers = 0
    /\ slept = {}
    /\ passed = {}
    /\ unasked = FALSE
    /\ setter = 0
    /\ events = MaxEvents
-----------------------------------------------------------------------------
At(j, step) == job[j].at = step
Go(j, step) == job' = [job EXCEPT ![j].at = step]
End(j) == job' = [job EXCEPT ![j] = [at |-> "done"]]
Ended(j) == job[j].at \in {"none", "done", "dead"}
IsReview(j) == job[j].kind = "review"

\* toggle_skill takes the file lock only.
UsesLane(kind, p) == kind \in {"review", "delete"} \/ p = "server"

(* The review is good, and of what is there now.                             *)
Fresh == verdict.good /\ verdict.hash = payload /\ payload # Gone

(* runtime_state_for_skill_name: what should be live.                        *)
Desired == IF enabled /\ Fresh THEN payload ELSE Gone

(* mark_stale_review_job_interrupted: the process of the job that is said to *)
(* run has exited, or its heartbeat is two hours old.                        *)
Stale == record.status = "running"
         /\ (At(record.job, "dead") \/ record.job \in slept)

(* A seeded bug: a status that no reader of the record knows.                *)
Unknown(r) == [r EXCEPT !.status = "stale"]

Interrupted(r) == [r EXCEPT !.status = "interrupted"]

(* run_lifecycle_job registers the job.  A review marks what is stale and is *)
(* turned away when its process has a job for the same content.              *)
Submit(j, kind, p) ==
    /\ job[j] = NoJob
    /\ \A i \in Jobs : i < j => job[i] # NoJob
    /\ kind = "delete" => p = "server"
    /\ payload # Gone
    /\ kind = "review" => ~\E i \in Jobs :
           /\ ~Ended(i) /\ IsReview(i)
           /\ job[i].proc = p /\ job[i].hash = payload
    /\ record' = IF kind = "review" /\ Stale THEN Interrupted(record)
                                             ELSE record
    /\ job' = [job EXCEPT ![j] =
                  [kind |-> kind, proc |-> p, seen |-> Gone, guard |-> 0,
                   hash |-> IF kind = "review" THEN payload ELSE Gone,
                   revert |-> FALSE, want |-> Gone,
                   at |-> IF UsesLane(kind, p) THEN "queued" ELSE "waiting"]]
    /\ UNCHANGED <<skill, locks, writes, server, history, events>>

TakeLane(j) ==
    /\ At(j, "queued")
    /\ lane[job[j].proc] = Free
    /\ lane' = [lane EXCEPT ![job[j].proc] = j]
    /\ Go(j, "waiting")
    /\ UNCHANGED <<skill, writes, server, history, record, lock, registry,
                   events>>

FirstStep(kind) == CASE kind = "review" -> "reviewing"
                     [] kind = "delete" -> "unloading"
                     [] OTHER -> "toggling"

(* A seeded bug: the file lock is only looked at.                            *)
NotLocked(j) == Free

Locked(j) == j

(* The file lock; _on_started of a review then writes its record.            *)
TakeLock(j) ==
    /\ At(j, "waiting")
    /\ lock = Free
    /\ lock' = Locked(j)
    /\ record' = IF IsReview(j)
                     THEN [status |-> "running", job |-> j,
                           hash |-> job[j].hash]
                     ELSE record
    /\ Go(j, FirstStep(job[j].kind))
    /\ UNCHANGED <<skill, writes, server, history, lane, registry, events>>

FreedLane(j) == [p \in Procs |-> IF lane[p] = j THEN Free ELSE lane[p]]

(* The client of an HTTP toggle or delete goes away while the job waits.     *)
Cancel(j) ==
    /\ At(j, "queued") \/ At(j, "waiting")
    /\ ~IsReview(j) /\ job[j].proc = "server"
    /\ lane' = FreedLane(j)
    /\ End(j)
    /\ UNCHANGED <<skill, writes, server, history, record, lock, registry,
                   events>>
-----------------------------------------------------------------------------
(* A review.  The job id that is in the record when the runner starts is the *)
(* one it expects there from now on; review_skill then reads the payload.    *)
Read(j) ==
    /\ At(j, "reviewing")
    /\ job' = [job EXCEPT ![j].at = IF payload = Gone THEN "reconcile"
                                                      ELSE "judged",
                          ![j].seen = payload,
                          ![j].guard = record.job]
    /\ UNCHANGED <<skill, locks, writes, server, history, record, events>>

(* The preflight fails and is saved at once.                                 *)
PreflightFails(j) ==
    /\ At(j, "judged")
    /\ verdict' = [hash |-> job[j].seen, good |-> FALSE]
    /\ Go(j, "reconcile")
    /\ UNCHANGED <<locks, writes, server, history, payload, enabled, record,
                   events>>

(* _can_persist_review_outcome says no.                                      *)
Superseded(j) ==
    /\ record # NoRecord
    /\ \/ record.job # job[j].guard
       \/ record.hash # job[j].seen
       \/ record.status \in {"interrupted", "failed"}

(* A transport failure, no quorum, or the outcome is not to be saved.        *)
NotSaved(j) ==
    /\ At(j, "judged")
    /\ Go(j, "reconcile")
    /\ UNCHANGED <<skill, locks, writes, server, history, record, events>>

MaySave(j) ==
    /\ At(j, "judged")
    /\ ~Superseded(j)
    /\ Go(j, "saving")
    /\ UNCHANGED <<skill, locks, writes, server, history, record, events>>

(* The verdict is saved; with auto_flow, and its dependencies installed, a   *)
(* skill that passed is enabled next.                                        *)
Save(j) ==
    /\ At(j, "saving")
    /\ \E good \in BOOLEAN, auto \in BOOLEAN :
          /\ verdict' = [hash |-> job[j].seen, good |-> good]
          /\ passed' = IF good THEN passed \cup {job[j].seen} ELSE passed
          /\ Go(j, IF good /\ auto THEN "enabling" ELSE "reconcile")
    /\ UNCHANGED <<locks, writes, server, payload, enabled, record, unasked,
                   setter, events>>

AutoEnable(j) ==
    /\ At(j, "enabling")
    /\ enabled' = TRUE
    /\ setter' = j
    /\ job' = [job EXCEPT ![j].at = "reconcile", ![j].revert = TRUE]
    /\ UNCHANGED <<locks, writes, server, payload, verdict, record, passed,
                   unasked, events>>
-----------------------------------------------------------------------------
(* toggle_skill and _run_toggle_sync.                                        *)
Toggle(j) ==
    /\ At(j, "toggling")
    /\ payload # Gone
    /\ job[j].kind = "enable" => Fresh
    /\ enabled' = (job[j].kind = "enable")
    /\ setter' = j
    /\ job' = [job EXCEPT ![j].at = "reconcile", ![j].revert = enabled']
    /\ UNCHANGED <<locks, writes, server, payload, verdict, record, passed,
                   unasked, events>>

(* Not found, no fresh review, grants or dependencies missing.               *)
ToggleRefused(j) ==
    /\ At(j, "toggling")
    /\ payload = Gone \/ job[j].kind = "enable"
    /\ Go(j, "unlocking")
    /\ UNCHANGED <<skill, locks, writes, server, history, record, events>>

(* _run_delete_sync: unload_extension under the lock of the extension, then  *)
(* the payload and the state of the skill are removed.                       *)
DeleteUnloads(j) ==
    /\ At(j, "unloading")
    /\ registry = Free
    /\ IF payload = Gone
           THEN Go(j, "unlocking") /\ UNCHANGED live
           ELSE Go(j, "deleting") /\ live' = Gone
    /\ UNCHANGED <<skill, locks, writes, history, record, pickup, markers,
                   events>>

DeleteRemoves(j) ==
    /\ At(j, "deleting")
    /\ payload' = Gone
    /\ verdict' = [hash |-> Gone, good |-> FALSE]
    /\ enabled' = FALSE
    /\ setter' = j
    /\ record' = NoRecord
    /\ Go(j, "unlocking")
    /\ UNCHANGED <<locks, writes, server, passed, unasked, events>>
-----------------------------------------------------------------------------
(* reconcile_extension, in a worker: on its own registry, where all that     *)
(* matters here is whether the load fails and reverts the enable; the server *)
(* is asked to reconcile by a marker.                                        *)
ReconcileInWorker(j) ==
    /\ At(j, "reconcile")
    /\ job[j].proc # "server"
    /\ \/ UNCHANGED enabled
       \/ Desired # Gone /\ job[j].revert /\ enabled' = FALSE
    /\ UNCHANGED setter
    /\ Go(j, "asking")
    /\ UNCHANGED <<locks, writes, server, payload, verdict, record, passed,
                   unasked, events>>

(* A seeded bug: a marker per skill, so that a newer one is the older one.   *)
OneMarker(n) == 1

Marked(n) == n + 1

AskServer(j) ==
    /\ At(j, "asking")
    /\ markers' = Marked(markers)
    /\ Go(j, "unlocking")
    /\ UNCHANGED <<skill, locks, writes, history, record, live, pickup,
                   events>>

(* In the server, for a job or for a marker: what should be live is read,    *)
(* and then loaded or unloaded, under the lock of the extension.             *)
ReconcileInServer(j) ==
    /\ At(j, "reconcile")
    /\ job[j].proc = "server"
    /\ registry = Free
    /\ registry' = j
    /\ job' = [job EXCEPT ![j].at = "applying", ![j].want = Desired]
    /\ unasked' = FALSE
    /\ UNCHANGED <<skill, writes, server, record, lane, lock, passed, setter,
                   events>>

(* A seeded bug: what was read is loaded, whatever is there now.             *)
LoadedUnseen(want) == {want, payload}

(* load_extension computes the hash again; the load may fail, and then       *)
(* nothing is live.                                                          *)
Loaded(want) == IF want = payload THEN {want, Gone} ELSE {Gone}

Applied(want) ==
    IF want = Gone THEN {Gone}
    ELSE IF want = live THEN {live} ELSE Loaded(want)

Apply(j) ==
    /\ At(j, "applying")
    /\ live' \in Applied(job[j].want)
    /\ LET fails == job[j].want # Gone /\ live' = Gone
       IN  enabled' = (enabled /\ ~(fails /\ job[j].revert))
    /\ UNCHANGED setter
    /\ registry' = Free
    /\ Go(j, "unlocking")
    /\ UNCHANGED <<writes, payload, verdict, record, lane, lock, pickup,
                   markers, passed, unasked, events>>

PickupBegins ==
    /\ pickup = Unread
    /\ markers > 0
    /\ registry = Free
    /\ registry' = MaxJobs + 1
    /\ pickup' = [at |-> "applying", want |-> Desired]
    /\ unasked' = FALSE
    /\ UNCHANGED <<skill, writes, record, job, lane, lock, live, markers,
                   passed, setter, events>>

PickupApplies ==
    /\ pickup # Unread
    /\ pickup.at = "applying"
    /\ live' \in Applied(pickup.want)
    /\ registry' = Free
    /\ pickup' = [pickup EXCEPT !.at = "unlinking"]
    /\ UNCHANGED <<skill, writes, history, record, job, lane, lock, markers,
                   events>>

PickupUnlinks ==
    /\ pickup # Unread
    /\ pickup.at = "unlinking"
    /\ markers' = markers - 1
    /\ pickup' = Unread
    /\ UNCHANGED <<skill, locks, writes, history, record, job, live, events>>
-----------------------------------------------------------------------------
(* The file lock is released, by a review after its heartbeat has stopped;   *)
(* only then is a review recorded as finished, and the lane given up.        *)
Unlock(j) ==
    /\ At(j, "unlocking")
    /\ beat[j] = NoWrite
    /\ lock' = IF lock = j THEN Free ELSE lock
    /\ IF IsReview(j) THEN Go(j, "finish") /\ UNCHANGED lane
                      ELSE End(j) /\ lane' = FreedLane(j)
    /\ UNCHANGED <<skill, writes, server, history, record, registry, events>>

(* _review_job_finish_skip_reason                                            *)
Mine(j) == record = NoRecord \/ (record.job = j /\ record.status = "running")

(* A seeded bug: the lane is kept when the record is another job's.          *)
KeepsLane(j) ==
    /\ At(j, "finish")
    /\ ~Mine(j)
    /\ End(j)
    /\ UNCHANGED <<skill, locks, writes, server, history, record, events>>

FinishSkipped(j) ==
    /\ At(j, "finish")
    /\ ~Mine(j)
    /\ lane' = FreedLane(j)
    /\ End(j)
    /\ UNCHANGED <<skill, writes, server, history, record, lock, registry,
                   events>>

FinishReads(j) ==
    /\ At(j, "finish")
    /\ Mine(j)
    /\ Go(j, "finishing")
    /\ UNCHANGED <<skill, locks, writes, server, history, record, events>>

FinishWrites(j) ==
    /\ At(j, "finishing")
    /\ \E status \in {"completed", "failed"} :
          record' = [status |-> status, job |-> j,
                     hash |-> IF job[j].seen # Gone THEN job[j].seen
                                                    ELSE job[j].hash]
    /\ lane' = FreedLane(j)
    /\ End(j)
    /\ UNCHANGED <<skill, writes, server, history, lock, registry, events>>
-----------------------------------------------------------------------------
(* _review_job_heartbeat: the record is read and, if it is of the expected   *)
(* job, written back with a new time.                                        *)
Beating(j) ==
    /\ job[j].at \in {"judged", "saving", "enabling", "reconcile", "applying",
                      "asking"}
    /\ IsReview(j)

Expected(j) == record.job = job[j].guard

(* A seeded bug: the heartbeat runs on while the finish is recorded.         *)
BeatsOn(j) == Beating(j) \/ (job[j].at = "finishing" /\ IsReview(j))

Beats(j) == Beating(j)

BeatReads(j) ==
    /\ Beats(j)
    /\ beat[j] = NoWrite
    /\ record # NoRecord
    /\ Expected(j)
    /\ beat' = [beat EXCEPT ![j] = record]
    /\ UNCHANGED <<skill, locks, server, history, record, job, sweep, slept,
                   events>>

BeatWrites(j) ==
    /\ beat[j] # NoWrite
    /\ record' = beat[j]
    /\ slept' = slept \ {j}
    /\ beat' = [beat EXCEPT ![j] = NoWrite]
    /\ UNCHANGED <<skill, locks, server, history, job, sweep, events>>

(* The lifecycle endpoint of the server looks for interrupted reviews.       *)
SweepReads ==
    /\ sweep = NoWrite
    /\ Stale
    /\ sweep' = Interrupted(record)
    /\ UNCHANGED <<skill, locks, server, history, record, job, beat, slept,
                   events>>

SweepWrites ==
    /\ sweep # NoWrite
    /\ record' = sweep
    /\ sweep' = NoWrite
    /\ UNCHANGED <<skill, locks, server, history, job, beat, slept, events>>
-----------------------------------------------------------------------------
Happens == events > 0 /\ events' = events - 1

(* An agent edits the files of the skill; no lock keeps it out.              *)
Edit ==
    /\ payload # Gone
    /\ Happens
    /\ payload' \in Hashes \ {payload}
    /\ UNCHANGED <<locks, writes, server, history, verdict, enabled, record,
                   job>>

(* The host sleeps for hours: no heartbeat is recent.                        *)
Sleep ==
    /\ Happens
    /\ slept' = {j \in Jobs : ~Ended(j) /\ IsReview(j)}
    /\ slept' # {}
    /\ UNCHANGED <<skill, locks, server, history, record, job, beat, sweep>>

(* The jobs of dead processes; their locks go with them.                     *)
Killed(ps) ==
    LET died(j) == ~Ended(j) /\ job[j].proc \in ps
    IN  /\ job' = [j \in Jobs |-> IF died(j) THEN [at |-> "dead"] ELSE job[j]]
        /\ lane' = [p \in Procs |-> IF p \in ps THEN Free ELSE lane[p]]
        /\ lock' = IF lock # Free /\ died(lock) THEN Free ELSE lock
        /\ beat' = [j \in Jobs |-> IF died(j) THEN NoWrite ELSE beat[j]]
        /\ slept' = {j \in slept : ~died(j)}

WorkerDies(w) ==
    /\ Happens
    /\ Killed({w})
    /\ job' # job
    /\ unasked' = \/ unasked
                   \/ \E j \in Jobs : job[j].at \in {"reconcile", "asking"}
    /\ UNCHANGED <<skill, server, record, sweep, registry, passed, setter>>

(* The server goes down with its workers and starts again: it looks for      *)
(* interrupted reviews and reloads the extension.                            *)
ServerRestarts ==
    /\ Happens
    /\ Killed(Procs)
    /\ record' = IF record.status = "running" /\ job'[record.job].at = "dead"
                     THEN Interrupted(record) ELSE record
    /\ live' \in {Desired, Gone}
    /\ sweep' = NoWrite
    /\ registry' = Free
    /\ pickup' = Unread
    /\ unasked' = FALSE
    /\ UNCHANGED <<skill, markers, passed, setter>>
-----------------------------------------------------------------------------
JobStep(j) ==
    \/ TakeLane(j) \/ TakeLock(j)
    \/ Read(j) \/ PreflightFails(j) \/ NotSaved(j) \/ MaySave(j) \/ Save(j)
    \/ AutoEnable(j)
    \/ Toggle(j) \/ ToggleRefused(j) \/ DeleteUnloads(j) \/ DeleteRemoves(j)
    \/ ReconcileInWorker(j) \/ AskServer(j) \/ ReconcileInServer(j) \/ Apply(j)
    \/ Unlock(j) \/ FinishSkipped(j) \/ FinishReads(j) \/ FinishWrites(j)

Pickup == PickupBegins \/ PickupApplies \/ PickupUnlinks

Next ==
    \/ \E j \in Jobs :
          \/ \E kind \in Kinds, p \in Procs : Submit(j, kind, p)
          \/ JobStep(j) \/ Cancel(j) \/ BeatReads(j) \/ BeatWrites(j)
    \/ Pickup
    \/ SweepReads \/ SweepWrites
    \/ Edit \/ Sleep \/ ServerRestarts
    \/ \E w \in Workers : WorkerDies(w)

(* The pickup task polls for as long as the server runs; a job's thread goes *)
(* on, and a waiting one polls its locks.                                    *)
Spec == Init /\ [][Next]_vars
FairSpec ==
    /\ Spec
    /\ WF_vars(Pickup)
    /\ WF_vars(\E j \in Jobs : JobStep(j))
    /\ WF_vars(\E j \in Jobs : BeatWrites(j))
-----------------------------------------------------------------------------
(* A review that is over is not shown as running, although a heartbeat, the  *)
(* search for interrupted reviews and the next review all write the record.  *)
OverIsNotRunning ==
    record.status = "running" => ~At(record.job, "done")

(* Whatever is edited or reviewed while the server reads and loads, it runs  *)
(* contents only that passed a review.                                       *)
RunsWhatPassed == live # Gone => live \in passed

(* Agents in several processes and the owner toggle one skill: a load that   *)
(* fails undoes the enable of its own job only, never a later one's.         *)
Reverts(j) == (Apply(j) \/ ReconcileInWorker(j)) /\ enabled /\ ~enabled'
RevertsItsOwn == [][\A j \in Jobs : Reverts(j) => setter = j]_vars

(* Whichever process died with a lock, every job that was submitted ends.    *)
JobsEnd == <>[](\A j \in Jobs : Ended(j))

(* What the server runs is in the end enabled and not found bad, unless a    *)
(* worker died between its change and its marker.                            *)
Outdated ==
    /\ payload # Gone
    /\ live # Gone
    /\ ~enabled \/ (verdict.hash = live /\ ~verdict.good)
ServerFollows == <>[](Outdated => unasked)

(* "It unloads live extension surfaces, removes the local payload, and       *)
(* removes data/state/skills/<name>" (docs/ARCHITECTURE.md): what is deleted *)
(* is not live.                                                              *)
DeletedIsUnloaded ==
    [][\A j \in Jobs : DeleteRemoves(j) => live = Gone /\ registry = Free]_vars
=============================================================================
