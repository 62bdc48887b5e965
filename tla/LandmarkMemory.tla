--------------------------- MODULE LandmarkMemory ---------------------------
(***************************************************************************)
(* semantic_map_memory_node.py, fed by SemanticMemory: each object the     *)
(* registry publishes is placed in the map and confirms a landmark, or a   *)
(* candidate that becomes a landmark after enough observations.            *)
(*                                                                         *)
(* A position is the mean of n observations, kept as their sum.  What the  *)
(* obstacle search finds for a label at a cell, and whether the geometry   *)
(* there fits the label, is data of the map.                               *)
(*                                                                         *)
(* Timing: a publication is handled before the next, one second later.     *)
(***************************************************************************)
EXTENDS SemanticMemory, SequencesExt

CONSTANTS
  None,               \* no map, no obstacle found
  Maps,               \* occupancy grids: the cells covered, what is found, what fits
  Exclusive,          \* the classes of the cross-class check: person and bench
  ExcludedClasses,    \* excluded_classes
  MaxRange,           \* <class>_max_range_m
  MinObservations,    \* <class>_min_observations
  MergeDistance,      \* merge_distance
  CandidateDistance,  \* candidate_merge_distance
  MutexDistance,      \* cross_class_mutex_distance_m
  MutexMinCount,      \* mutex_min_observation_count
  CandidateTimeout,   \* candidate_timeout
  AllowLidarOnly,     \* allow_lidar_only_landmarks
  RobotPlaces,        \* where the robot may be
  MaxCount            \* bound: observations of a landmark

ASSUME LandmarkMemoryConstants ==
  /\ Exclusive \subseteq Labels /\ ExcludedClasses \subseteq Labels
  /\ MaxRange \in [Labels -> Nat] /\ MinObservations \in [Labels -> Nat \ {0}]
  /\ {MergeDistance, CandidateDistance, MutexDistance, MutexMinCount,
      CandidateTimeout, MaxCount} \subseteq Nat
  /\ AllowLidarOnly \in BOOLEAN
  /\ RobotPlaces \subseteq Int
  /\ None \notin Maps \cup Int
  /\ \A m \in Maps : /\ m.cells \subseteq Int
                     /\ m.found \in [Labels \X m.cells -> Int \cup {None}]
                     /\ m.fits \subseteq Labels \X m.cells

VARIABLES
  robot,       \* the robot's position in the map
  map,         \* _map_data
  published,   \* the registry's message on its way, or None
  candidates,  \* _candidates
  landmarks    \* _landmarks, in insertion order; the index counts within a class

vars == <<memoryVars, robot, map, published, candidates, landmarks>>

Validations == 0..3    \* map_unavailable, map_bounds, grid_pending, grid_validated

Entry == [label : Labels, sum : Int, n : Nat, age : Nat, validation : Validations]

TypeOK ==
  /\ MemoryTypeOK
  /\ robot \in RobotPlaces /\ map \in Maps \cup {None}
  /\ published = None \/ published \in Seq(Object)
  /\ candidates \in Seq(Entry) /\ landmarks \in Seq(Entry)
  /\ \A i \in DOMAIN candidates :
       /\ candidates[i].age <= CandidateTimeout
       /\ candidates[i].n = 1 \/ candidates[i].n < MinObservations[candidates[i].label]

Init ==
  /\ MemoryInit
  /\ robot \in RobotPlaces /\ map = None /\ published = None
  /\ candidates = <<>> /\ landmarks = <<>>

-----------------------------------------------------------------------------
(* Where an observation is placed, and how well the map supports it.       *)

Validation(label, x) ==
  IF map = None THEN 0
  ELSE IF x \notin map.cells THEN 1
  ELSE IF map.found[<<label, x>>] = None THEN 2 ELSE 3

Refined(label, x) == IF Validation(label, x) = 3 THEN map.found[<<label, x>>] ELSE x

(* Everything before the cross-class check.                                *)
Plausible(label, range, x) ==
  /\ label \notin ExcludedClasses
  /\ range <= MaxRange[label]
  /\ AllowLidarOnly \/ Validation(label, x) = 3
  /\ Validation(label, x) = 3 /\ label \in Exclusive => <<label, x>> \in map.fits

-----------------------------------------------------------------------------
(* The memory: candidates c and landmarks l.                               *)

Offset(e, x) == Abs(e.sum - e.n * x)         \* n times the distance
Within(e, x, d) == Offset(e, x) < d * e.n

BlockedByCandidates(mem, label, x) ==                     \* mutant
  label \in Exclusive /\ \E i \in DOMAIN mem.c :
    mem.c[i].label # label /\ mem.c[i].n >= MutexMinCount /\ Within(mem.c[i], x, MutexDistance)
CrossClassMutex(mem, label, x) ==
  /\ label \in Exclusive
  /\ \/ \E i \in DOMAIN mem.l : mem.l[i].label # label /\ Within(mem.l[i], x, MutexDistance)
     \/ \E i \in DOMAIN mem.c : /\ mem.c[i].label # label
                                /\ mem.c[i].n >= MutexMinCount
                                /\ Within(mem.c[i], x, MutexDistance)

SameClassWithin(entries, label, x, d) ==
  {i \in DOMAIN entries : entries[i].label = label /\ Within(entries[i], x, d)}

(* The landmark with the least distance per observation.                   *)
FindLandmark(l, S, x) ==
  First(S, LAMBDA i, j : Offset(l[i], x) * l[j].n * l[j].n < Offset(l[j], x) * l[i].n * l[i].n)

FindCandidate(c, S, x) ==
  First(S, LAMBDA i, j : Offset(c[i], x) * c[j].n < Offset(c[j], x) * c[i].n)

Stronger(v, w) == IF w > v THEN w ELSE v

Updated(e, x, v) == [e EXCEPT !.sum = e.sum + x, !.n = e.n + 1, !.age = 0,
                              !.validation = Stronger(e.validation, v)]

Promote(mem, i) == [c |-> RemoveAt(mem.c, i), l |-> Append(mem.l, mem.c[i])]

PromotesAbove(e) == e.n > MinObservations[e.label]                          \* mutant
Promotes(e) == e.n >= MinObservations[e.label]

Confirm(mem, i, x, v) ==
  LET updated == [mem EXCEPT !.c[i] = Updated(mem.c[i], x, v)]
  IN IF Promotes(updated.c[i]) THEN Promote(updated, i) ELSE updated

(* The memory after one observation at x.                                  *)
Record(mem, label, x, v) ==
  LET near == SameClassWithin(mem.l, label, x, MergeDistance)
      cands == SameClassWithin(mem.c, label, x, CandidateDistance)
      fresh == [label |-> label, sum |-> x, n |-> 1, age |-> 0, validation |-> v]
  IN IF near # {}
     THEN LET i == FindLandmark(mem.l, near, x)
          IN [mem EXCEPT !.l[i] = Updated(mem.l[i], x, v)]
     ELSE IF cands # {} THEN Confirm(mem, FindCandidate(mem.c, cands, x), x, v)
     ELSE [mem EXCEPT !.c = Append(mem.c, fresh)]

Observe(mem, o) ==
  LET x == robot + o.x
      p == Refined(o.label, x)
  IN IF Plausible(o.label, Abs(o.x), x) /\ ~CrossClassMutex(mem, o.label, p)
     THEN Record(mem, o.label, p, Validation(o.label, x))
     ELSE mem

-----------------------------------------------------------------------------
(* The actions.                                                            *)

(* A detection at x, relative to the robot, reaches the registry.          *)
Detect(label, x, lag) ==
  /\ Observation(label, x, lag)
  /\ UNCHANGED <<robot, map, published, candidates, landmarks>>

Older(e) == [e EXCEPT !.age = IF @ < CandidateTimeout THEN @ + 1 ELSE @]

(* The registry's timer: a second has passed.                              *)
Publish ==
  /\ published = None
  /\ Age
  /\ published' = ActiveObjects(objects')
  /\ candidates' = [i \in DOMAIN candidates |-> Older(candidates[i])]
  /\ UNCHANGED <<robot, map, landmarks>>

(* The transform of any detection into the map may fail; it is passed over. *)
ObjectsReceived ==
  /\ published # None
  /\ \A i \in DOMAIN landmarks : landmarks[i].n < MaxCount
  /\ published' = None
  /\ IF map = None /\ ~AllowLidarOnly
     THEN UNCHANGED <<candidates, landmarks>>
     ELSE \E located \in SUBSET DOMAIN published :
            LET mem == FoldLeft(Observe, [c |-> candidates, l |-> landmarks],
                                At(published, located))
            IN candidates' = mem.c /\ landmarks' = mem.l
  /\ UNCHANGED <<memoryVars, robot, map>>

MapReceived(m) ==
  /\ map' = m
  /\ UNCHANGED <<memoryVars, robot, published, candidates, landmarks>>

CleanupCandidates ==
  /\ candidates' = At(candidates, {i \in DOMAIN candidates : candidates[i].age < CandidateTimeout})
  /\ UNCHANGED <<memoryVars, robot, map, published, landmarks>>

Move(place) ==
  /\ robot' = place
  /\ UNCHANGED <<memoryVars, map, published, candidates, landmarks>>

Next ==
  \/ \E l \in Labels, x \in Sightings, lag \in 0..MaxLag : Detect(l, x, lag)
  \/ Publish
  \/ ObjectsReceived
  \/ \E m \in Maps : MapReceived(m)
  \/ CleanupCandidates
  \/ \E p \in RobotPlaces : Move(p)

Spec == Init /\ [][Next]_vars

-----------------------------------------------------------------------------
(* An id names one object for ever: an object that appears has an id that  *)
(* no object of its class had before.  (MemoryCore._create_new)            *)
IdsAreNotReused ==
  [][\A i \in DOMAIN objects' :
       LET o == objects'[i]
       IN /\ o.id < nextId'[o.label]
          /\ \/ o.id >= nextId[o.label]
             \/ \E j \in DOMAIN objects : objects[j].label = o.label /\ objects[j].id = o.id]_vars

(* The places the search finds, of which the island search returns another *)
(* for another cell or another map of one obstacle; they form islands when *)
(* what is near by one of the node's distances is near by each, and near   *)
(* is transitive.                                                          *)
FoundOn(m) == {m.found[q] : q \in Labels \X m.cells}
Obstacles == (UNION {FoundOn(m) : m \in Maps}) \ {None}
Same(p, q) == Abs(p - q) < MergeDistance
IslandsLieApart ==
  /\ MergeDistance > 0
  /\ \A p, q \in Obstacles :
       \A d \in {CandidateDistance, MutexDistance} : Same(p, q) <=> Abs(p - q) < d
  /\ \A p, q, r \in Obstacles : Same(p, q) /\ Same(q, r) => Same(p, r)

(* With observations placed at obstacles only, and obstacles that lie      *)
(* apart, landmarks keep their distance although their means drift: those  *)
(* of one class are not closer than the merge distance, those of two       *)
(* exclusive classes not closer than the distance of the cross-class       *)
(* check.  (_obs_cb, _promote, _check_cross_class_mutex)                   *)
Closer(a, b, d) == Abs(a.sum * b.n - b.sum * a.n) < d * a.n * b.n
LandmarksLieApart ==
  IslandsLieApart /\ ~AllowLidarOnly =>
    \A i, j \in DOMAIN landmarks :
      LET a == landmarks[i]  b == landmarks[j]
      IN i # j => /\ a.label = b.label => ~Closer(a, b, MergeDistance)
                  /\ a.label # b.label /\ {a.label, b.label} \subseteq Exclusive
                       => ~Closer(a, b, MutexDistance)
=============================================================================
