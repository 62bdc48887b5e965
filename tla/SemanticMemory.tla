--------------------------- MODULE SemanticMemory ---------------------------
(***************************************************************************)
(* semantic_memory_node.py and its registry memory_core.py: objects in the *)
(* robot's own frame, matched by label and distance, smoothed, aged and    *)
(* published once a second while they are active.                          *)
(*                                                                         *)
(* Positions are points of a line and times are counted in periods of the  *)
(* publication timer; an age is the time since the stamp of an object's    *)
(* latest detection.  The registry's dict is a sequence in insertion       *)
(* order.  Confidences and times_seen influence nothing and are left out.  *)
(***************************************************************************)
EXTENDS Integers, Sequences, FiniteSets

CONSTANTS
  Labels,             \* detector labels
  Sightings,          \* where things are detected, relative to the robot
  MatchDistance,      \* match_distance_threshold
  StaleTimeout,       \* stale_timeout
  RemoveTimeout,      \* remove_timeout
  MaxLag,             \* bound: how old a detection is when it arrives
  MaxIds              \* bound: objects created per label

ASSUME SemanticMemoryConstants ==
  /\ Sightings \subseteq Int
  /\ {MatchDistance, StaleTimeout, RemoveTimeout, MaxLag, MaxIds} \subseteq Nat

VARIABLES
  objects,     \* _objects: label, id, x, age and active of each
  nextId       \* _next_id

memoryVars == <<objects, nextId>>

Abs(n) == IF n < 0 THEN -n ELSE n

(* The elements of a sequence at some of its positions, in their order.    *)
At(seq, positions) ==
  LET at[n \in 0..Len(seq)] ==
        IF n = 0 THEN <<>>
        ELSE IF n \in positions THEN Append(at[n - 1], seq[n]) ELSE at[n - 1]
  IN at[Len(seq)]

Object == [label : Labels, id : Nat, x : Int, age : Nat, active : BOOLEAN]

MemoryTypeOK == objects \in Seq(Object) /\ nextId \in [Labels -> Nat]

MemoryInit == objects = <<>> /\ nextId = [l \in Labels |-> 0]

-----------------------------------------------------------------------------
(* The first of the indices S that none of S comes before.                 *)
First(S, Before(_, _)) ==
  CHOOSE i \in S : \A j \in S \ {i} : Before(i, j) \/ (~Before(j, i) /\ i < j)

Matching(label, x) ==
  {i \in DOMAIN objects : objects[i].label = label /\ Abs(objects[i].x - x) < MatchDistance}

FindMatch(label, x) ==
  First(Matching(label, x), LAMBDA i, j : Abs(objects[i].x - x) < Abs(objects[j].x - x))

(* The smoothed position lies between the old one and the new detection;   *)
(* rounded to the line, any of them.                                       *)
Between(a, b) == (a..b) \cup (b..a)

UpdateExisting(i, x, lag) ==
  /\ \E smoothed \in Between(objects[i].x, x) :
       objects' = [objects EXCEPT ![i].x = smoothed, ![i].age = lag, ![i].active = TRUE]
  /\ UNCHANGED nextId

IdReused(label) == Cardinality({i \in DOMAIN objects : objects[i].label = label})   \* mutant
NewId(label) == nextId[label]

CreateNew(label, x, lag) ==
  /\ nextId[label] < MaxIds
  /\ objects' = Append(objects, [label |-> label, id |-> NewId(label), x |-> x,
                                 age |-> lag, active |-> TRUE])
  /\ nextId' = [nextId EXCEPT ![label] = NewId(label) + 1]

(* One detection; a message with several is handled as several in a row,   *)
(* between which nothing reads the registry.                               *)
Observation(label, x, lag) ==
  IF Matching(label, x) # {}
  THEN UpdateExisting(FindMatch(label, x), x, lag)
  ELSE CreateNew(label, x, lag)

-----------------------------------------------------------------------------
(* A second later, the registry forgets what has not been seen for         *)
(* RemoveTimeout and stops publishing what has not for StaleTimeout.       *)
AgedObject(o) ==
  [o EXCEPT !.age = o.age + 1, !.active = o.active /\ o.age + 1 <= StaleTimeout]

Aged == LET aged == [i \in DOMAIN objects |-> AgedObject(objects[i])]
        IN At(aged, {i \in DOMAIN aged : aged[i].age <= RemoveTimeout})

ActiveObjects(objs) == At(objs, {i \in DOMAIN objs : objs[i].active})

Age == objects' = Aged /\ UNCHANGED nextId
=============================================================================
