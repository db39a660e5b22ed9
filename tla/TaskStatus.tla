----------------------------- MODULE TaskStatus -----------------------------
(* The lifecycle statuses of a durable task result file and the guard that   *)
(* every write of one goes through (ouroboros/task_results.py).  This module *)
(* has no state: TaskResults and TaskQueue write results through Guarded.    *)
EXTENDS Naturals

(* No result file exists for the task. *)
NoResult == "none"

(* A status written by a newer or foreign writer that this code does not rank. *)
Unranked == "unranked"

TrulyTerminal == {"completed", "failed", "cancelled", "rejected_duplicate"}

Ranked == {"requested", "scheduled", "running", "interrupted", "cancel_requested"}
            \cup TrulyTerminal

Statuses == Ranked \cup {Unranked}

Files == Statuses \cup {NoResult}

(* _STATUS_RANK *)
StatusRank ==
    [s \in Ranked |->
        IF s = "requested" THEN 0
        ELSE IF s = "scheduled" THEN 1
        ELSE IF s \in {"running", "interrupted"} THEN 2
        ELSE IF s = "cancel_requested" THEN 3
        ELSE 4]

RegressionGuardFloor == StatusRank["cancel_requested"]

(* Seeded bugs for IsRegression: one of its two rules is missing.            *)
LatchRuleOnly(existing, new) ==
    existing = "cancel_requested" /\ new \notin {"cancel_requested", "cancelled", "failed"}
TerminalRuleOnly(existing, new) == existing \in TrulyTerminal /\ new # existing

(* _is_status_regression: would writing new over existing undo a cancel      *)
(* intent or a terminal outcome?                                             *)
IsRegression(existing, new) ==
    \/ existing \in TrulyTerminal /\ new # existing
    \/ existing = "cancel_requested"
       /\ new \notin {"cancel_requested", "cancelled", "failed"}
    \/ /\ existing \in Ranked \ (TrulyTerminal \cup {"cancel_requested"})
       /\ new \in Ranked
       /\ StatusRank[existing] >= RegressionGuardFloor
       /\ StatusRank[new] < StatusRank[existing]

(* What write_task_result leaves in the file when no other writer comes      *)
(* between its load and its replace.                                         *)
Guarded(existing, new) ==
    IF existing # NoResult /\ IsRegression(existing, new) THEN existing ELSE new
=============================================================================
