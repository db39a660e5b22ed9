--------------------------- MODULE ReviewedCommit ---------------------------
(* commit_reviewed: how tasks that share one repository get a diff from      *)
(* their working tree, past an advisory review, the commit gate and two      *)
(* reviewers, into a commit.                                                 *)
(*                                                                           *)
(* The tasks meet in three places: the git tree and index, the git lock      *)
(* file, and the review ledger (state/advisory_review.json).  Most writers   *)
(* of the ledger read, change and write it under a lock; the advisory review *)
(* reads it when it starts and writes that copy back minutes later.  A       *)
(* version stands for the content of the changed files.                      *)
EXTENDS Naturals, FiniteSets

CONSTANTS
    Tasks,          \* tasks with a worker of their own
    Findings,       \* what a reviewer may object to
    Blocking,       \* review enforcement is "blocking", not "advisory"
    Slow,           \* a call may outlast the 600 s after which its lock is stale
    MaxVersion,     \* bound: contents of the working tree
    MaxAttempt,     \* bound: numbers of a task's attempts
    MaxCalls,       \* bound: calls of commit_reviewed
    MaxMoves        \* bound: edits, restores, advisory reviews, workers' deaths

ASSUME ReviewAssumption ==
    /\ {Blocking, Slow} \subseteq BOOLEAN
    /\ {MaxVersion, MaxAttempt, MaxCalls, MaxMoves} \subseteq Nat

VARIABLES
    files,    \* versions in HEAD, in the index, in the working tree
    ledger,   \* advisory_review.json
    number,   \* number[t]: ctx._current_review_attempt_number, 0 for None
    front,    \* front[t]: what the task's loop waits for
    call,     \* call[c]: the thread that executes a commit_reviewed
    advice,   \* advice[t]: the version under advisory review, and the ledger it read
    gitLock,  \* locks/git.lock: its holder, Free, or Gone when the holder died
    bounds    \* what is left of the bounds

vars == <<files, ledger, number, front, call, advice, gitLock, bounds>>

Versions == 0..MaxVersion
NoVersion == MaxVersion + 1
Numbers == 1..MaxAttempt

\* After the hard ceiling a task may have a second call beside the late one.
Calls == Tasks \X {1, 2}
Of(t) == {<<t, 1>>, <<t, 2>>}
Owner(c) == c[1]
Slot(c) == c[2]
Free == <<"free">>
Gone == <<"gone">>

Idle == 0
Advising == 3

Steps == {"idle", "refused", "enter", "lock", "stage", "gate", "preflight",
          "fingerprint", "triad", "scope", "judge", "blocked", "commit",
          "succeeded", "failed", "release"}
Statuses == {"reviewing", "blocked", "failed", "succeeded"}
NoAttempt == [status |-> "none", late |-> FALSE]
Attempts == [status : Statuses, late : BOOLEAN] \cup {NoAttempt}
Ledgers == [fresh : Versions \cup {NoVersion},
            attempts : [Tasks -> [Numbers -> Attempts]],
            open : SUBSET Findings]
NoAdvice == [of |-> NoVersion]
CallRecords == [at : Steps, pre : Versions, seen : SUBSET Versions,
                findings : SUBSET Findings, late : BOOLEAN]
NoCall == [at |-> "idle", pre |-> 0, seen |-> {}, findings |-> {}, late |-> FALSE]

TypeOK ==
    /\ files \in [head : Versions, index : Versions, tree : Versions]
    /\ ledger \in Ledgers
    /\ number \in [Tasks -> 0..MaxAttempt]
    /\ front \in [Tasks -> {Idle, 1, 2, Advising}]
    /\ call \in [Calls -> CallRecords]
    /\ advice \in [Tasks -> [of : Versions, ledger : Ledgers] \cup {NoAdvice}]
    /\ gitLock \in Calls \cup {Free, Gone}
    /\ bounds \in [calls : 0..MaxCalls, moves : 0..MaxMoves]

Init ==
    /\ files = [head |-> 0, index |-> 0, tree |-> 0]
    /\ ledger = [fresh |-> NoVersion,
                 attempts |-> [t \in Tasks |-> [n \in Numbers |-> NoAttempt]],
                 open |-> {}]
    /\ number = [t \in Tasks |-> 0]
    /\ front = [t \in Tasks |-> Idle]
    /\ call = [c \in Calls |-> NoCall]
    /\ advice = [t \in Tasks |-> NoAdvice]
    /\ gitLock = Free
    /\ bounds = [calls |-> MaxCalls, moves |-> MaxMoves]
-----------------------------------------------------------------------------
(* The ledger's attempts.                                                    *)
Active(a) == a.status = "reviewing" \/ a.late
InFlight(t) == \E c \in Of(t) : call[c].at # "idle"

Taken(l, t) == {n \in Numbers : l.attempts[t][n] # NoAttempt}
Latest(l, t) == IF Taken(l, t) = {} THEN 0
                ELSE CHOOSE n \in Taken(l, t) : \A m \in Taken(l, t) : m <= n

(* expire_stale_attempts: 1920 s after it started an attempt has failed.  A  *)
(* call that is not slow ends earlier, and so does its attempt.              *)
MayExpire(l, t, n) == Slow \/ ~InFlight(t) \/ n # Latest(l, t)

(* A seeded bug: what has expired is over, but in a status of its own that no *)
(* reader of the ledger knows.                                               *)
GivenUp(l) ==
    [l EXCEPT !.attempts =
        [t \in Tasks |-> [n \in Numbers |->
            IF Active(l.attempts[t][n]) /\ MayExpire(l, t, n)
                THEN [status |-> "expired", late |-> FALSE]
                ELSE l.attempts[t][n]]]]

Expired(l) ==
    [l EXCEPT !.attempts =
        [t \in Tasks |-> [n \in Numbers |->
            IF Active(l.attempts[t][n]) /\ MayExpire(l, t, n)
                THEN [status |-> "failed", late |-> FALSE]
                ELSE l.attempts[t][n]]]]

(* The ledger as an update finds it: its old attempts expired, if it is time. *)
Current == {ledger, Expired(ledger)}

(* The attempt that _record_commit_attempt writes to: the one in ctx, unless *)
(* it is over and a review begins; without one, the task's latest if that is *)
(* under review; or else the next.                                           *)
Target(l, t, status) ==
    LET n == number[t]
        last == Latest(l, t)
    IN  CASE status = "reviewing" /\ n # 0 /\ Active(l.attempts[t][n]) -> n
          [] status = "reviewing" -> last + 1
          [] n # 0 -> n
          [] last # 0 /\ l.attempts[t][last].status = "reviewing" -> last
          [] OTHER -> last + 1

(* record_attempt: the record replaces the attempt's; a block opens its      *)
(* findings as obligations, a commit closes all of them.                     *)
Merged(l, t, n, status, late, found) ==
    [l EXCEPT !.attempts[t][n] = [status |-> status, late |-> late],
              !.open = CASE status = "blocked" -> l.open \cup found
                         [] status = "succeeded" -> {}
                         [] OTHER -> l.open]

Record(t, status, late, found) ==
    \E l \in Current :
        LET n == Target(l, t, status)
        IN  /\ n \in Numbers
            /\ ledger' = Merged(l, t, n, status, late, found)
            /\ number' = [number EXCEPT ![t] =
                              IF status = "reviewing" \/ late THEN n ELSE 0]

(* add_run: the one version whose latest advisory run is good, if any.       *)
Reviewed(l, version) == [l EXCEPT !.fresh = version]

(* get_active_attempts of every task, not only of the caller's.              *)
Overlaps(l) == \E t \in Tasks : \E n \in Numbers : Active(l.attempts[t][n])
-----------------------------------------------------------------------------
At(c, step) == call[c].at = step
Go(c, step) == call' = [call EXCEPT ![c].at = step]

(* The tool call begins: what is active refuses it.  The check and the       *)
(* record that follows it are two updates of the ledger.                     *)
CommitReviewed(c) ==
    /\ front[Owner(c)] = Idle
    /\ At(c, "idle")
    /\ bounds.calls > 0
    /\ bounds' = [bounds EXCEPT !.calls = @ - 1]
    /\ front' = [front EXCEPT ![Owner(c)] = Slot(c)]
    /\ ledger' \in Current
    /\ Go(c, IF Overlaps(ledger') THEN "refused" ELSE "enter")
    /\ UNCHANGED <<files, number, advice, gitLock>>

(* A seeded bug: the refused call waits for what refused it.                 *)
RefuseWaits(c) ==
    /\ At(c, "refused")
    /\ ~Overlaps(ledger)
    /\ Record(Owner(c), "blocked", FALSE, {})
    /\ call' = [call EXCEPT ![c] = NoCall]
    /\ front' = [front EXCEPT ![Owner(c)] = IF @ = Slot(c) THEN Idle ELSE @]
    /\ UNCHANGED <<files, advice, gitLock, bounds>>

Refuse(c) ==
    /\ At(c, "refused")
    /\ Record(Owner(c), "blocked", FALSE, {})
    /\ call' = [call EXCEPT ![c] = NoCall]
    /\ front' = [front EXCEPT ![Owner(c)] = IF @ = Slot(c) THEN Idle ELSE @]
    /\ UNCHANGED <<files, advice, gitLock, bounds>>

Enter(c) ==
    /\ At(c, "enter")
    /\ Record(Owner(c), "reviewing", FALSE, {})
    /\ Go(c, "lock")
    /\ UNCHANGED <<files, front, advice, gitLock, bounds>>

(* A seeded bug: any lock file is taken over at once.                        *)
AlwaysTakeable(l) == TRUE

(* acquire_exclusive_file_lock: a lock file older than 600 s is taken over,  *)
(* whether its holder is dead or only slow; after 120 s the waiter gives up. *)
Takeable(l) == l \in {Free, Gone} \/ Slow

Lock(c) ==
    /\ At(c, "lock")
    /\ Takeable(gitLock)
    /\ gitLock' = c
    /\ Go(c, "stage")
    /\ UNCHANGED <<files, ledger, number, front, advice, bounds>>

LockTimeout(c) ==
    /\ At(c, "lock")
    /\ gitLock # Free
    /\ Record(Owner(c), "failed", FALSE, {})
    /\ call' = [call EXCEPT ![c] = NoCall]
    /\ front' = [front EXCEPT ![Owner(c)] = IF @ = Slot(c) THEN Idle ELSE @]
    /\ UNCHANGED <<files, advice, gitLock, bounds>>

(* git add; without a change there is nothing to commit.                     *)
Stage(c) ==
    /\ At(c, "stage")
    /\ files' = [files EXCEPT !.index = files.tree]
    /\ Go(c, IF files.tree = files.head THEN "failed" ELSE "gate")
    /\ UNCHANGED <<ledger, number, front, advice, gitLock, bounds>>

(* _check_advisory_freshness: the advisory covers the working tree, and no   *)
(* obligation is open or enforcement is advisory.                            *)
Gate(c) ==
    /\ At(c, "gate")
    /\ ledger.fresh = files.tree
    /\ Blocking => ledger.open = {}
    /\ Go(c, "fingerprint")
    /\ UNCHANGED <<files, ledger, number, front, advice, gitLock, bounds>>

(* skip_advisory_review: an audited bypass, and then the preflight tests.    *)
Bypass(c) ==
    /\ At(c, "gate")
    /\ ledger' = Reviewed(ledger, files.tree)
    /\ Go(c, "preflight")
    /\ UNCHANGED <<files, number, front, advice, gitLock, bounds>>

(* The gate refuses: no advisory, obligations, commit-readiness debt,        *)
(* protected paths.  The index is unstaged.                                  *)
GateRefuses(c) ==
    /\ At(c, "gate")
    /\ files' = [files EXCEPT !.index = files.head]
    /\ Record(Owner(c), "blocked", FALSE, {})
    /\ Go(c, "release")
    /\ UNCHANGED <<front, advice, gitLock, bounds>>

(* The bypass no longer counts as an advisory of what is in the tree now.    *)
PreflightFails(c) ==
    /\ At(c, "preflight")
    /\ files' = [files EXCEPT !.index = files.head]
    /\ \E l \in Current :
          LET n == Target(l, Owner(c), "blocked")
              stale == IF l.fresh = files.tree THEN Reviewed(l, NoVersion) ELSE l
          IN  /\ n \in Numbers
              /\ ledger' = Merged(stale, Owner(c), n, "blocked", FALSE, {})
    /\ number' = [number EXCEPT ![Owner(c)] = 0]
    /\ Go(c, "release")
    /\ UNCHANGED <<front, advice, gitLock, bounds>>

(* The staged diff is fingerprinted and the review recorded as begun.        *)
Fingerprint(c) ==
    /\ At(c, "preflight") \/ At(c, "fingerprint")
    /\ Record(Owner(c), "reviewing", FALSE, {})
    /\ call' = [call EXCEPT ![c].at = "triad", ![c].pre = files.index]
    /\ UNCHANGED <<files, front, advice, gitLock, bounds>>

(* _run_parallel_review: triad and scope review read the index, each for     *)
(* itself.                                                                   *)
ReadDiff(c, step, next) ==
    /\ At(c, step)
    /\ call' = [call EXCEPT ![c].at = next, ![c].seen = @ \cup {files.index}]
    /\ UNCHANGED <<files, ledger, number, front, advice, gitLock, bounds>>

Triad(c) == ReadDiff(c, "triad", "scope")
Scope(c) == ReadDiff(c, "scope", "judge")

(* A seeded bug: the diff is not looked at again.                            *)
AnyDiff(c) == TRUE

(* The staged diff is fingerprinted again.  Findings that were made of       *)
(* another diff are dropped, and the index is left as it is.                 *)
Matches(c) == files.index = call[c].pre

Mismatch(c) ==
    /\ At(c, "judge")
    /\ ~Matches(c)
    /\ Record(Owner(c), "blocked", FALSE, {})
    /\ Go(c, "release")
    /\ UNCHANGED <<files, front, advice, gitLock, bounds>>

Judge(c) ==
    /\ At(c, "judge")
    /\ Matches(c)
    /\ \E found \in SUBSET Findings :
          /\ ~Blocking => found = {}
          /\ call' = [call EXCEPT ![c].findings = found,
                          ![c].at = IF found = {} THEN "commit" ELSE "blocked"]
    /\ UNCHANGED <<files, ledger, number, front, advice, gitLock, bounds>>

Block(c) ==
    /\ At(c, "blocked")
    /\ Record(Owner(c), "blocked", FALSE, call[c].findings)
    /\ files' = [files EXCEPT !.index = files.head]
    /\ Go(c, "release")
    /\ UNCHANGED <<front, advice, gitLock, bounds>>

(* git commit commits the index as it is now.                                *)
Commit(c) ==
    /\ At(c, "commit")
    /\ files' = [files EXCEPT !.head = files.index]
    /\ Go(c, IF files.index = files.head THEN "failed" ELSE "succeeded")
    /\ UNCHANGED <<ledger, number, front, advice, gitLock, bounds>>

Succeed(c) ==
    /\ At(c, "succeeded")
    /\ Record(Owner(c), "succeeded", FALSE, {})
    /\ Go(c, "release")
    /\ UNCHANGED <<files, front, advice, gitLock, bounds>>

Fail(c) ==
    /\ At(c, "failed")
    /\ Record(Owner(c), "failed", FALSE, {})
    /\ Go(c, "release")
    /\ UNCHANGED <<files, front, advice, gitLock, bounds>>

(* After the tests of the commit whatever lock file is there is removed, and *)
(* the call returns.                                                         *)
Release(c) ==
    /\ At(c, "release")
    /\ gitLock' = Free
    /\ call' = [call EXCEPT ![c] = NoCall]
    /\ front' = [front EXCEPT ![Owner(c)] = IF @ = Slot(c) THEN Idle ELSE @]
    /\ UNCHANGED <<files, ledger, number, advice, bounds>>
-----------------------------------------------------------------------------
(* _execute_with_timeout, in the loop's thread.  After the tool's timeout    *)
(* the attempt is marked late and the loop waits on; at the hard ceiling it  *)
(* is marked failed, and the loop goes on without the call.  The tool's 360 s *)
(* are not over before the tests and the reviews, which take the time.       *)
TakesTime == {"preflight", "fingerprint", "triad", "scope", "judge", "blocked",
              "commit", "succeeded", "failed", "release"}

SoftTimeout(c) ==
    /\ call[c].at \in TakesTime
    /\ front[Owner(c)] = Slot(c)
    /\ ~call[c].late
    /\ Record(Owner(c), "reviewing", TRUE, {})
    /\ call' = [call EXCEPT ![c].late = TRUE]
    /\ UNCHANGED <<files, front, advice, gitLock, bounds>>

HardCeiling(c) ==
    /\ Slow
    /\ call[c].at \in TakesTime
    /\ front[Owner(c)] = Slot(c)
    /\ call[c].late
    /\ Record(Owner(c), "failed", TRUE, {})
    /\ front' = [front EXCEPT ![Owner(c)] = Idle]
    /\ UNCHANGED <<files, call, advice, gitLock, bounds>>
-----------------------------------------------------------------------------
(* write_file, edit_text and the rest: the tree changes, advisories go stale. *)
Edit(t) ==
    /\ front[t] = Idle
    /\ bounds.moves > 0
    /\ bounds' = [bounds EXCEPT !.moves = @ - 1]
    /\ \E v \in Versions \ {files.tree} : files' = [files EXCEPT !.tree = v]
    /\ ledger' = Reviewed(ledger, NoVersion)
    /\ UNCHANGED <<number, front, call, advice, gitLock>>

(* vcs_restore: index and tree back to HEAD, without the git lock.           *)
Restore(t) ==
    /\ front[t] = Idle
    /\ bounds.moves > 0
    /\ bounds' = [bounds EXCEPT !.moves = @ - 1]
    /\ files.tree # files.head
    /\ files' = [files EXCEPT !.tree = files.head, !.index = files.head]
    /\ UNCHANGED <<ledger, number, front, call, advice, gitLock>>

(* advisory_review hashes the tree and reads the ledger.                     *)
Advise(t) ==
    /\ front[t] = Idle
    /\ files.tree # files.head
    /\ bounds.moves > 0
    /\ bounds' = [bounds EXCEPT !.moves = @ - 1]
    /\ front' = [front EXCEPT ![t] = Advising]
    /\ advice' = [advice EXCEPT ![t] = [of |-> files.tree, ledger |-> ledger]]
    /\ UNCHANGED <<files, ledger, number, call, gitLock>>

AdviceEnds(t) ==
    /\ front[t] = Advising
    /\ front' = [front EXCEPT ![t] = Idle]
    /\ advice' = [advice EXCEPT ![t] = NoAdvice]
    /\ UNCHANGED <<files, number, call, gitLock, bounds>>

(* The audited bypass, a skipped review and a failure update the ledger.     *)
AdviceRecorded(t) ==
    /\ AdviceEnds(t)
    /\ \E version \in {advice[t].of, NoVersion} : ledger' = Reviewed(ledger, version)

(* A verdict, which may resolve obligations, and an answer that cannot be    *)
(* parsed are put in the ledger that was read at the start, and that ledger  *)
(* is saved.                                                                 *)
AdviceSaved(t) ==
    /\ AdviceEnds(t)
    /\ \/ ledger' = Reviewed(advice[t].ledger, NoVersion)
       \/ \E resolved \in SUBSET advice[t].ledger.open :
             ledger' = [Reviewed(advice[t].ledger, advice[t].of) EXCEPT
                            !.open = advice[t].ledger.open \ resolved]
-----------------------------------------------------------------------------
(* The worker of a task dies, with all its threads; the task may be retried. *)
WorkerDies(t) ==
    /\ bounds.moves > 0
    /\ InFlight(t) \/ front[t] = Advising
    /\ bounds' = [bounds EXCEPT !.moves = @ - 1]
    /\ call' = [c \in Calls |-> IF Owner(c) = t THEN NoCall ELSE call[c]]
    /\ gitLock' = IF gitLock \in Of(t) THEN Gone ELSE gitLock
    /\ number' = [number EXCEPT ![t] = 0]
    /\ front' = [front EXCEPT ![t] = Idle]
    /\ advice' = [advice EXCEPT ![t] = NoAdvice]
    /\ UNCHANGED <<files, ledger>>

(* The steps of a call that its thread takes by itself.                      *)
CallStep(c) ==
    \/ Refuse(c) \/ Enter(c) \/ Lock(c) \/ LockTimeout(c) \/ Stage(c)
    \/ Gate(c) \/ Bypass(c) \/ GateRefuses(c)
    \/ PreflightFails(c)
    \/ Fingerprint(c) \/ Triad(c) \/ Scope(c) \/ Mismatch(c) \/ Judge(c)
    \/ Block(c) \/ Commit(c) \/ Succeed(c) \/ Fail(c)
    \/ Release(c)

TaskStep(t) ==
    \/ Edit(t) \/ Restore(t) \/ Advise(t) \/ AdviceRecorded(t)
    \/ AdviceSaved(t) \/ WorkerDies(t)

Next ==
    \/ \E c \in Calls :
          CommitReviewed(c) \/ CallStep(c) \/ SoftTimeout(c) \/ HardCeiling(c)
    \/ \E t \in Tasks : TaskStep(t)

Spec == Init /\ [][Next]_vars

(* A thread goes on with its call; its reviewers and tests have timeouts.    *)
FairSpec == Spec /\ \A c \in Calls : WF_vars(CallStep(c))
-----------------------------------------------------------------------------
(* Where no call outlasts the lock: what is committed is what both reviewers *)
(* of that very call read, whatever the other tasks stage, unstage, restore  *)
(* and commit meanwhile.                                                     *)
Commits(c) == At(c, "commit") /\ files'.head # files.head
CommitsWhatWasReviewed ==
    [][~Slow => \A c \in Calls : Commits(c) => call[c].seen = {files'.head}]_vars

(* The findings that block a commit, and become obligations, are of the one  *)
(* diff that was fingerprinted before both reviewers read it.                *)
FindingsAreOfOneDiff ==
    [][~Slow => \A c \in Calls : Block(c) => call[c].seen = {call[c].pre}]_vars

(* A call of commit_reviewed ends: a lock whose holder died does not keep it, *)
(* nor does the ledger.                                                      *)
CallsEnd == \A c \in Calls : ~At(c, "idle") ~> At(c, "idle")

(* "Every blocking commit_reviewed result creates open obligations [...]     *)
(* Open obligations are cleared automatically on a successful commit"        *)
(* (docs/CHECKLISTS.md): nothing but a commit or an advisory that was told   *)
(* of an obligation closes it.                                               *)
ObligationsKept ==
    [][\A f \in ledger.open \ ledger'.open :
          \/ \E c \in Calls : Succeed(c)
          \/ \E t \in Tasks : AdviceSaved(t) /\ f \in advice[t].ledger.open]_vars

(* "... is still active. Do not start another reviewed attempt for this repo *)
(* until it finishes" (commit_gate.py): once the task's calls have returned, *)
(* none of its attempts is active.                                           *)
FinishedIsNotActive ==
    [][\A c \in Calls :
          Release(c) /\ (\A d \in Of(Owner(c)) \ {c} : At(d, "idle"))
          => \A n \in Numbers : ~Active(ledger.attempts[Owner(c)][n])]_vars

(* "The staged snapshot, advisory coverage, triad evidence, scope evidence,  *)
(* and post-review fingerprint must describe the same diff"                  *)
(* (docs/ARCHITECTURE.md), of calls that do not outlast their lock or do.    *)
CommitsOneDiff ==
    [][\A c \in Calls : Commits(c) => call[c].seen = {files'.head}]_vars

=============================================================================
