--------------------------- MODULE MCCoordinator ---------------------------
(* Instances of Coordinator for TLC.                                       *)
EXTENDS Coordinator, TLC

GoalSymmetry == Permutations(Goals)
=============================================================================
