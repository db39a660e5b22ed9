--------------------------- MODULE AtomicResults ----------------------------
(* What the result store promises its readers: every write is one guarded    *)
(* update of the file (task_results.py, the comment over the status ranks    *)
(* and the docstring of _is_status_regression).  A write that would regress  *)
(* the status changes nothing; any other replaces the status and adds the    *)
(* writer's fields to those already there.                                   *)
EXTENDS TaskStatus

CONSTANTS Tasks, Writers, MayWrite

VARIABLE file

Init == file = [t \in Tasks |-> [status |-> NoResult, fields |-> {}]]

Write(w, t, s) ==
    /\ s \in MayWrite[w][t]
    /\ Guarded(file[t].status, s) = s
    /\ file' = [file EXCEPT ![t] =
            [status |-> s, fields |-> file[t].fields \cup {w}]]

Next == \E w \in Writers, t \in Tasks, s \in Statuses : Write(w, t, s)

Spec == Init /\ [][Next]_file
=============================================================================
