--------------------------- MODULE MCBuildExecutor ---------------------------
(* Instances of BuildExecutor for TLC.                                     *)
EXTENDS BuildExecutor, TLC

CONSTANTS j1, j2, j3, t1

\* The scheduler gives every job of a run the run's token.
SharedToken == [j \in Jobs |-> t1]

JobSymmetry == Permutations(Jobs)
=============================================================================
