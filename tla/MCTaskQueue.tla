---------------------------- MODULE MCTaskQueue -----------------------------
(* Small deployments of the task queue.                                      *)
EXTENDS TaskQueue

CONSTANT h1

AllSame == [id \in Ids |-> 0]

(* h1 is posted with a higher priority than the others have. *)
HttpFirst == [id \in Ids |-> IF id = h1 THEN 0 ELSE 1]

(* Nothing tells one worker slot from another. *)
Interchangeable == Permutations(Workers)

(* Nor one subagent from another: all have the same priority. *)
InterchangeableSubagents == Permutations(Subagents)
=============================================================================
