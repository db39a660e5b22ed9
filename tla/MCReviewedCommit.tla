-------------------------- MODULE MCReviewedCommit --------------------------
(* The tasks of ReviewedCommit are interchangeable.                          *)
EXTENDS ReviewedCommit, TLC

TaskSymmetry == Permutations(Tasks)
=============================================================================
