-------------------------------- MODULE Line --------------------------------
(***************************************************************************)
(* The semantic map, the query and the goals made of its answers measure   *)
(* distances in the plane; their models, on a line.                        *)
(***************************************************************************)
EXTENDS Integers

(* The distance of two points.                                             *)
Gap(a, b) == IF a < b THEN b - a ELSE a - b
=============================================================================
