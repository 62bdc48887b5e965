------------------------- MODULE MCLiveSemanticMap -------------------------
(* Instance of LiveSemanticMap: twelve angles in a turn, four layouts of   *)
(* the scan, benches and persons, two refined states.                      *)
EXTENDS LiveSemanticMap

MCNames == [bench |-> "table", person |-> "person"]

MCPoses == {[x |-> 0, facing |-> 1], [x |-> 4, facing |-> -1]}

(* A table at 1 in front of the left of the image, one at 3 on its right.  *)
MCScans ==
  {[min |-> 0,  step |-> 1, ranges |-> <<1, 1, 1>> \o [i \in 1..6 |-> NoReturn] \o <<3, 3, 3>>],
   [min |-> -6, step |-> 1, ranges |-> [i \in 1..6 |-> 3] \o [i \in 1..7 |-> 1]],
   [min |-> -1, step |-> 1, ranges |-> <<3, 2, 1>>],
   [min |-> 0,  step |-> 2, ranges |-> <<2, 1, NoReturn, NoReturn, NoReturn, 9>>]}

MCMaps == {[low |-> 0, high |-> 2]}

Refined(id, x, conf) == [id |-> id, name |-> "table", x |-> x, conf |-> conf]

(* Two tables near each other, one of them surer, a place of both, a       *)
(* relation between them and one to the place, and anchors; and a table    *)
(* that the refiner is not sure of.                                        *)
MCRefinedStates ==
  {[entities  |-> <<Refined("a", 2, 6), Refined("b", 2, 8)>>,
    places    |-> {[id |-> "p", members |-> {"a", "b"}, x |-> 6, conf |-> 8]},
    relations |-> {[subject |-> "a", predicate |-> "near", object |-> "b", conf |-> 8],
                   [subject |-> "b", predicate |-> "in", object |-> "p", conf |-> 8]},
    anchors   |-> <<[target |-> "a", x |-> 0, conf |-> 8], [target |-> "b", x |-> 0, conf |-> 8],
                    [target |-> "b", x |-> 0, conf |-> 9]>>],
   [entities  |-> <<Refined("a", 1, 4), Refined("b", 3, 7)>>,
    places    |-> {[id |-> "p", members |-> {"a"}, x |-> 9, conf |-> 8]},
    relations |-> {[subject |-> "b", predicate |-> "in", object |-> "p", conf |-> 8]},
    anchors   |-> <<[target |-> "a", x |-> 9, conf |-> 8]>>]}
=============================================================================
