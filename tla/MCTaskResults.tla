--------------------------- MODULE MCTaskResults ----------------------------
(* The writers of one deployment: the supervisor's main loop, a worker       *)
(* process and the parent agent's tools, each with the statuses its calls of *)
(* write_task_result pass.                                                   *)
EXTENDS TaskResults

CONSTANTS supervisor, worker, parent, t1, t2

(* t1 is the result of a subagent, which all of them write; t2 one that the  *)
(* worker alone writes, with any status.                                     *)
MCMayWrite ==
    [w \in Writers |->
        [t \in Tasks |->
            CASE t = t2 -> IF w = worker THEN Statuses ELSE {}
              [] w = supervisor ->
                    {"scheduled", "running", "interrupted", "failed", "cancelled",
                     "rejected_duplicate"}
              [] w = worker -> {"running", "completed", "failed"}
              [] OTHER -> {"requested", "cancel_requested"}]]
=============================================================================
