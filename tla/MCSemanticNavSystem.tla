------------------------ MODULE MCSemanticNavSystem ------------------------
(* Instances of SemanticNavSystem for TLC.                                  *)
EXTENDS SemanticNavSystem
=============================================================================
