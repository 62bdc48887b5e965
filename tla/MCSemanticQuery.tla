--------------------------- MODULE MCSemanticQuery ---------------------------
(* Instance of SemanticQuery: tables and persons in three maps, commands   *)
(* with and without a relation, and some that ask for nothing.             *)
EXTENDS SemanticQuery

MCModes == [semanticMap : BOOLEAN, preferAnchor : BOOLEAN]

MCTargets   == [table |-> "bench", person |-> "person"]
MCAliases   == [bench |-> "table"]
MCRelations == [near |-> "near", next_to |-> "near"]

MCSentences ==
  {<<"go", "to", "the", "table">>, <<"person">>, <<"bench", "table", "person">>,
   <<"table", "near", "person">>, <<"person", "table", "next_to", "the", "table">>,
   <<"go", "near", "table">>, <<"dance">>}

Thing(id, name, x, conf) == [id |-> id, name |-> name, label |-> MCTargets[name], x |-> x, conf |-> conf]
Bare(id, label, x, conf) == [id |-> id, name |-> "", label |-> label, x |-> x, conf |-> conf]
Near(s, o, conf) == [subject |-> s, predicate |-> "near", object |-> o, conf |-> conf]

MCMessages ==
  {[frame |-> "map",
    objects |-> <<Thing("t0", "table", 0, 2), Thing("t1", "table", 5, 2),
                  Thing("p0", "person", 6, 1), Bare("t2", "bench", 3, 1)>>,
    relations |-> <<Near("t1", "p0", 2), Near("t0", "t2", 0), Near("p0", "t2", 2)>>,
    anchors |-> <<[target |-> "t1", x |-> 4, conf |-> 1], [target |-> "p0", x |-> 8, conf |-> 1],
                  [target |-> "t1", x |-> 6, conf |-> 2]>>],
   [frame |-> "map",
    objects |-> <<Thing("t0", "table", 3, 2), Thing("t1", "table", 4, 2)>>,
    relations |-> <<Near("t0", "t1", 1)>>, anchors |-> <<>>],
   [frame |-> "base_link",
    objects |-> <<Thing("p0", "person", 4, 1), Thing("t0", "table", 1, 3)>>,
    relations |-> <<Near("p0", "t0", 1)>>, anchors |-> <<>>]}
=============================================================================
