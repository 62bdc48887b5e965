----------------------------- MODULE Enrichment -----------------------------
(***************************************************************************)
(* enrichment.py with place_builder.py, relation_builder.py and            *)
(* anchor_builder.py: the message that is published of a list of live      *)
(* entities, and what a refined state of the refiner may add to it.        *)
(*                                                                         *)
(* Live entities are a sequence of [id, name, x]; a refined state has a    *)
(* sequence of entities [id, name, x, conf] and sequences of places,       *)
(* relations and anchors, each with a conf.  In the message, places,       *)
(* relations and anchors are sets.  Positions are points of a line.  A     *)
(* live place is named by its members, an anchor by its kind and target;   *)
(* confidences of what is published are left out.                          *)
(***************************************************************************)
EXTENDS Line, Sequences, FiniteSets

CONSTANTS
  ClusterDistance,    \* cluster_distance_m of build_places
  NearDistance,       \* near_distance_m of build_relations
  AnchorDistance,     \* how far before its target an approach anchor lies
  RefinedDistance,    \* refinement_match_distance_m
  MinConfidence       \* refinement_min_confidence

ASSUME EnrichmentConstants ==
  {ClusterDistance, NearDistance, AnchorDistance, RefinedDistance, MinConfidence}
    \subseteq Nat

Ids(entities) == {entities[i].id : i \in DOMAIN entities}

(* The first of those at the smallest distance, as a set.                  *)
FirstNearest(candidates, Distance(_)) ==
  {i \in candidates : \A j \in candidates :
     Distance(i) < Distance(j) \/ (Distance(i) = Distance(j) /\ i <= j)}

IsRefinedState(s) ==
  /\ s.entities \in Seq([id : STRING, name : STRING, x : Int, conf : Int])
  /\ s.anchors \in Seq([target : STRING, x : Int, conf : Int])

-----------------------------------------------------------------------------
(* The message of the live entities alone                                   *)

(* Everything that can be reached from i by steps of ClusterDistance.      *)
Cluster(live, i) ==
  LET grown[k \in 0..Len(live)] ==
        IF k = 0 THEN {i}
        ELSE {j \in DOMAIN live :
                \E m \in grown[k - 1] : Gap(live[j].x, live[m].x) <= ClusterDistance}
  IN grown[Len(live)]

Mean(live, cluster) ==
  LET sum[k \in 0..Len(live)] ==
        IF k = 0 THEN 0 ELSE sum[k - 1] + (IF k \in cluster THEN live[k].x ELSE 0)
  IN sum[Len(live)] \div Cardinality(cluster)

LivePlaces(live) ==
  LET Place(cluster) ==
        LET members == {live[j].id : j \in cluster}
        IN [id |-> <<"live", members>>, members |-> members, x |-> Mean(live, cluster)]
  IN {Place(Cluster(live, i)) : i \in DOMAIN live}

LiveRelations(live) ==
  {[subject |-> live[p[1]].id, predicate |-> "near", object |-> live[p[2]].id] :
     p \in {q \in (DOMAIN live) \X (DOMAIN live) :
              q[1] < q[2] /\ Gap(live[q[1]].x, live[q[2]].x) <= NearDistance}}

LiveAnchors(live) ==
  {[kind |-> "approach", target |-> live[i].id, x |-> live[i].x - AnchorDistance] :
     i \in DOMAIN live}

LiveState(live) ==
  [entities |-> live, places |-> LivePlaces(live), relations |-> LiveRelations(live),
   anchors |-> LiveAnchors(live), refined |-> FALSE]

-----------------------------------------------------------------------------
(* What a refined state adds                                                *)

Confident(item) == item.conf >= MinConfidence

(* Refined entities in the order they are matched: the surest first.       *)
Surer(refined, i, j) ==
  refined[i].conf > refined[j].conf \/ (refined[i].conf = refined[j].conf /\ i < j)

(* The nearest live entity of that name that no surer one has claimed.     *)
Nearest(live, claimed, entity) ==
  LET Distance(i) == Gap(live[i].x, entity.x)
  IN FirstNearest({i \in DOMAIN live : /\ live[i].id \notin claimed
                                       /\ live[i].name = entity.name
                                       /\ Distance(i) <= RefinedDistance}, Distance)

NearestOfAll(live, claimed, entity) == Nearest(live, {}, entity)  \* mutant

MatchOf(live, claimed, entity) == Nearest(live, claimed, entity)

(* Pairs of a refined entity and the live one it is taken for.  Should two *)
(* refined entities have one id, the last match counts, and the live       *)
(* entity of the other one stays claimed.                                  *)
Matches(live, refined) ==
  LET sure == {i \in DOMAIN refined : Confident(refined[i])}
      Surest(k) == CHOOSE i \in sure : Cardinality({j \in sure : Surer(refined, j, i)}) = k - 1
      made[k \in 0..Cardinality(sure)] ==
        IF k = 0 THEN {}
        ELSE made[k - 1] \cup
             {<<refined[Surest(k)].id, live[i].id, k>> :
                i \in MatchOf(live, {m[2] : m \in made[k - 1]}, refined[Surest(k)])}
      all == made[Cardinality(sure)]
  IN {<<m[1], m[2]>> : m \in {n \in all : \A o \in all : o[1] = n[1] => o[3] <= n[3]}}

(* The live entity a refined id stands for, as a set.                      *)
Live(matches, id) == {m[2] : m \in {n \in matches : n[1] = id}}

Members(matches, place) == UNION {Live(matches, id) : id \in place.members}

(* A place is added unless it has no member, the same members as a live    *)
(* place, or lies near one.                                                *)
AddedPlaces(places, refined, matches) ==
  {[id |-> <<"refined", place.id>>, members |-> Members(matches, place), x |-> place.x] :
     place \in {p \in refined :
       /\ Confident(p)
       /\ Members(matches, p) # {}
       /\ ~\E live \in places : \/ live.members = Members(matches, p)
                                \/ 2 * Gap(live.x, p.x) <= RefinedDistance}}

(* Subjects are entities; objects are entities or places that were added.  *)
AddedRelations(refined, matches, added) ==
  UNION {[subject : Live(matches, r.subject), predicate : {r.predicate},
          object : IF Live(matches, r.object) # {} THEN Live(matches, r.object)
                   ELSE {p.id : p \in {q \in added : q.id = <<"refined", r.object>>}}] :
           r \in {s \in refined : Confident(s)}}

(* In their order, those that are not near an anchor of the same target.   *)
AddedAnchors(anchors, refined, matches) ==
  LET Near(a, target, x) == a.target = target /\ 20 * Gap(a.x, x) <= 7 * RefinedDistance
      made[k \in 0..Len(refined)] ==
        IF k = 0 THEN {}
        ELSE made[k - 1] \cup
             {[kind |-> "refined", target |-> target, x |-> refined[k].x] :
                target \in {t \in Live(matches, refined[k].target) :
                              /\ Confident(refined[k])
                              /\ ~\E a \in anchors \cup made[k - 1] : Near(a, t, refined[k].x)}}
  IN made[Len(refined)]

Enriched(state, refined) ==
  LET matches == Matches(state.entities, refined.entities)
      places  == AddedPlaces(state.places, refined.places, matches)
  IN IF matches = {} THEN state
     ELSE [state EXCEPT
             !.places = @ \cup places,
             !.relations = @ \cup AddedRelations(refined.relations, matches, places),
             !.anchors = @ \cup AddedAnchors(@, refined.anchors, matches),
             !.refined = TRUE]
=============================================================================
