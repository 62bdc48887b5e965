------------------------ MODULE MCExplorationHistory ------------------------
(* Instances of ExplorationHistory for TLC: three centroids on a line, two  *)
(* of them within LoopRadius and AvoidRadius of each other.                 *)
EXTENDS ExplorationHistory, TLC

GoalSymmetry == Permutations(Goals)
=============================================================================
