-------------------------- MODULE MCLandmarkMemory --------------------------
(* Instances of LandmarkMemory for TLC.                                     *)
EXTENDS LandmarkMemory

PersonOrBench == {"person", "bench"}
Ranges == [l \in Labels |-> 2]
Twice == [l \in Labels |-> 2]

(* Cells 0 to 5 mapped, with some occupied.  Like the island search, which  *)
(* sees no more than its window, the map finds the centre of what is        *)
(* occupied within a cell of the one asked for.                             *)
Window(occupied, c) == occupied \cap ((c - 1)..(c + 1))
Centre(S) == (Min(S) + Max(S)) \div 2
Grid(occupied) ==
  [cells |-> 0..5,
   found |-> [q \in Labels \X (0..5) |->
                IF Window(occupied, q[2]) = {} THEN None ELSE Centre(Window(occupied, q[2]))],
   fits |-> Labels \X (0..5)]

(* Two obstacles.  The wide one is found at 0, 1 or 2, depending on where   *)
(* it is seen from, so means drift on it; the other at 5.                   *)
TwoObstacles == {Grid(0..2 \cup {5})}

ASSUME TwoIslands == IslandsLieApart /\ Cardinality(Obstacles) = 4
=============================================================================
