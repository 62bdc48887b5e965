------------------------ MODULE MCFrontierDetection ------------------------
(* Instances of FrontierDetection for TLC: maps of one size, two costmaps   *)
(* shifted and scaled against them.                                         *)
EXTENDS FrontierDetection

(* Maps of free and unknown cells with at most one occupied cell.           *)
SmallMaps == {m \in [Cells -> {-1, 0, 100}] : Cardinality({c \in Cells : m[c] = 100}) <= 1}

(* One map after any costmaps: MapCallback reads nothing that an earlier    *)
(* map has left behind.                                                     *)
FirstMapSpec == Init /\ [][map = None /\ Next]_vars

(* Cost 60 on costly cells, 100 on lethal ones, one unknown diagonal.       *)
Costmap(x, y, r, w, h, costly, lethal) ==
  [ox |-> x, oy |-> y, res |-> r, width |-> w, height |-> h,
   data |-> [c \in (0..w-1) \X (0..h-1) |-> IF c \in costly THEN 60
                                            ELSE IF c \in lethal THEN 100
                                            ELSE IF c[1] = c[2] + 2 THEN -1 ELSE 0]]

(* One aligned with the map, one shifted and coarser.                       *)
TwoCostmaps == {Costmap(-1, -1, 1, 5, 5, {<<2, 2>>}, {<<1, 3>>}),
                Costmap(-2, -1, 2, 3, 3, {}, {<<1, 1>>})}
=============================================================================
