--------------------------- MODULE LiveSemanticMap ---------------------------
(***************************************************************************)
(* The live semantic map node: semantic_map_node.py with memory_core.py    *)
(* (its registry of entities), frame_sampler.py and grounding.py.  Images  *)
(* are sampled, the detector's boxes are placed with the last laser scan   *)
(* and the robot's pose, and a timer publishes the entities seen lately,   *)
(* enriched with the last refined state that was received.                 *)
(*                                                                         *)
(* The node runs in a single-threaded executor: a callback runs to its end *)
(* while the clock goes on, so that a detection is as old as the inference *)
(* was long when it is remembered.  Positions are points of a line, on     *)
(* which the robot faces up (1) or down (-1).  Time is relative: an entity *)
(* has the age of its last sighting, negative after the clock was set back *)
(* (as when a simulation restarts); ages are cut off above RemoveTimeout.  *)
(***************************************************************************)
EXTENDS ScanGeometry, Enrichment, SequencesExt

CONSTANTS
  Poses,              \* poses of the robot, records [x, facing]
  Lost,               \* no transform of the robot is known
  Scans,              \* the scans that may be received
  NoScan,
  Maps,               \* extents of the map, records [low, high]
  NoMap,
  RefinedStates,      \* the refined states that may be received
  NoRefined,
  Names,              \* detector label -> semantic name
  Pixels,             \* centres of boxes
  MaxDetections,      \* boxes in an image
  MaxEntities,        \* bound: entities made in a behaviour
  MaxLag,             \* longest inference
  MaxJump,            \* furthest the clock is set back
  MatchDistance,      \* entity_match_distance_m
  Alpha,              \* position_smoothing_alpha, in tenths
  StaleTimeout,
  RemoveTimeout,
  SampleInterval      \* frame_sample_interval_sec

ASSUME LiveSemanticMapConstants ==
  /\ {MaxDetections, MaxEntities, MaxLag, MaxJump, MatchDistance} \subseteq Nat
  /\ {StaleTimeout, RemoveTimeout, SampleInterval} \subseteq Nat
  /\ Alpha \in 0..10
  /\ StaleTimeout <= RemoveTimeout
  /\ \A s \in Scans : IsScan(s)
  /\ Poses \subseteq [x : Int, facing : {-1, 1}]
  /\ \A s \in RefinedStates : IsRefinedState(s)

(* No ray lies further from a bearing than the revolutions reach that       *)
(* bearing_to_scan_index tries: a scan begins within half a revolution of   *)
(* straight ahead and is about one revolution long at most.                 *)
ASSUME RaysWithinReach ==
  \A s \in Scans : \A i \in Rays(s), u \in 0..ImageWidth :
    2 * AbsoluteOf(RayAngle(s, i) - PixelToBearing(u)) < 5 * Turn

(* What the code takes for granted of its inputs: a refined relation joins  *)
(* two things (the worker's relation_inference.py relates an entity to a    *)
(* later one in its list, or to a place), and no semantic name is the word  *)
(* with which the ids of refined places begin.                              *)
ASSUME RefinedStatesAreSound ==
  /\ \A s \in RefinedStates : \A r \in s.relations : r.subject # r.object
  /\ \A l \in DOMAIN Names : Names[l] # "refined"

VARIABLES
  robot,              \* the latest transform from the robot to the map
  scan,               \* _latest_scan
  bounds,             \* the extent of _latest_map
  refined,            \* _latest_refined_state
  sampled,            \* time since the stamp of the last sampled image
  memory              \* _entities in the order of the dict, and _next_id

vars == <<robot, scan, bounds, refined, sampled, memory>>

Labels == DOMAIN Names
Never  == SampleInterval + 1     \* no image was sampled yet

Capped(n, limit) == IF n > limit THEN limit ELSE n

(* The elements of a sequence at some of its positions, in their order.    *)
At(seq, positions) ==
  LET at[n \in 0..Len(seq)] ==
        IF n = 0 THEN <<>>
        ELSE IF n \in positions THEN Append(at[n - 1], seq[n]) ELSE at[n - 1]
  IN at[Len(seq)]

-----------------------------------------------------------------------------
(* memory_core.py                                                           *)

Aged(entities, time) ==
  [i \in DOMAIN entities |->
     [entities[i] EXCEPT !.age = Capped(@ + time, RemoveTimeout + 1)]]

(* The nearest entity with the label of the observation.                   *)
FindMatch(entities, obs) ==
  LET Distance(i) == Gap(entities[i].x, obs.x)
  IN FirstNearest({i \in DOMAIN entities : /\ entities[i].label = obs.label
                                           /\ Distance(i) < MatchDistance}, Distance)

Smoothed(old, new) == (Alpha * new + (10 - Alpha) * old) \div 10

UpdateExisting(known, i, obs) ==
  LET old == known.entities[i]
  IN [known EXCEPT !.entities[i] = [old EXCEPT !.x = Smoothed(old.x, obs.x),
                                               !.age = obs.age, !.active = TRUE]]

CreateNewOnce(known, obs) ==                                      \* mutant
  LET name == Names[obs.label]
  IN [entities |-> Append(known.entities,
                          [id |-> <<name, known.nextId[name]>>, label |-> obs.label,
                           x |-> obs.x, age |-> obs.age, active |-> TRUE]),
      nextId   |-> [known.nextId EXCEPT ![name] = 1]]

CreateNew(known, obs) ==
  LET name == Names[obs.label]
  IN [entities |-> Append(known.entities,
                          [id |-> <<name, known.nextId[name]>>, label |-> obs.label,
                           x |-> obs.x, age |-> obs.age, active |-> TRUE]),
      nextId   |-> [known.nextId EXCEPT ![name] = @ + 1]]

Update(known, obs) ==
  LET match == FindMatch(known.entities, obs)
  IN IF match = {} THEN CreateNew(known, obs)
     ELSE UpdateExisting(known, CHOOSE i \in match : TRUE, obs)

AgeStaleFirst(entities) ==                                        \* mutant
  [i \in DOMAIN entities |->
     [entities[i] EXCEPT !.active = entities[i].age <= StaleTimeout]]

(* Removes what was not seen for RemoveTimeout; the rest is active if it   *)
(* was seen within StaleTimeout, also if it had been stale.                *)
Age(entities) ==
  LET kept == At(entities, {i \in DOMAIN entities : entities[i].age <= RemoveTimeout})
  IN [i \in DOMAIN kept |-> [kept[i] EXCEPT !.active = kept[i].age <= StaleTimeout]]

-----------------------------------------------------------------------------
(* grounding.py and _point_inside_map                                       *)

(* A point ahead of the robot; the camera is at its base.                  *)
OnMap(range) == robot.x + robot.facing * range

(* Where a box is, as a set with at most one member.                       *)
Grounded(box) ==
  {x \in {OnMap(range) : range \in Localize(scan, box.u)} :
     bounds = NoMap \/ x \in bounds.low..bounds.high}

Remember(known, box, age) ==
  LET at == Grounded(box)
  IN IF at = {} THEN known
     ELSE Update(known, [label |-> box.label, x |-> CHOOSE x \in at : TRUE, age |-> age])

-----------------------------------------------------------------------------
(* What is published                                                        *)

Active == At(memory.entities, {i \in DOMAIN memory.entities : memory.entities[i].active})

LiveEntities ==
  LET active == Active
  IN [i \in DOMAIN active |-> [id |-> active[i].id, name |-> Names[active[i].label],
                               x |-> active[i].x]]

(* The message of _build_state.                                            *)
MapState == IF refined = NoRefined THEN LiveState(LiveEntities)
            ELSE Enriched(LiveState(LiveEntities), refined)

-----------------------------------------------------------------------------
Init == /\ robot = Lost /\ scan = NoScan /\ bounds = NoMap /\ refined = NoRefined
        /\ sampled = Never
        /\ memory = [entities |-> <<>>, nextId |-> [n \in {Names[l] : l \in Labels} |-> 0]]

TransformReceived == /\ robot' \in Poses \cup {Lost}
                     /\ UNCHANGED <<scan, bounds, refined, sampled, memory>>

ScanReceived == /\ scan' \in Scans
                /\ UNCHANGED <<robot, bounds, refined, sampled, memory>>

MapReceived == /\ bounds' \in Maps
               /\ UNCHANGED <<robot, scan, refined, sampled, memory>>

(* The refined state stays until the next one: none tells that the refiner *)
(* has dropped it.                                                         *)
RefinedReceived == /\ refined' \in RefinedStates
                   /\ UNCHANGED <<robot, scan, bounds, sampled, memory>>

(* An image is taken if none was before or SampleInterval has passed; after *)
(* the clock was set back, not before it has caught up.                     *)
ShouldSample == sampled >= SampleInterval

(* No scan or pose yet, or the conversion or the inference fails: the slot *)
(* of the sampler is used all the same.                                    *)
ImageDropped(lag) ==
  /\ ShouldSample
  /\ sampled' = Capped(lag, SampleInterval)
  /\ memory' = [memory EXCEPT !.entities = Aged(@, lag)]
  /\ UNCHANGED <<robot, scan, bounds, refined>>

(* _process_sampled_image: every box that can be placed is remembered with *)
(* the stamp of the image.                                                 *)
ImageProcessed(boxes, lag) ==
  /\ ShouldSample
  /\ scan # NoScan
  /\ robot # Lost
  /\ sampled' = Capped(lag, SampleInterval)
  /\ memory' = FoldLeft(LAMBDA known, box : Remember(known, box, Capped(lag, RemoveTimeout + 1)),
                        [memory EXCEPT !.entities = Aged(@, lag)], boxes)
  /\ UNCHANGED <<robot, scan, bounds, refined>>

(* The timer, once in a unit of time; the message is MapState afterwards.  *)
PublishOutputs ==
  /\ memory' = [memory EXCEPT !.entities = Age(Aged(@, 1))]
  /\ sampled' = IF sampled = Never THEN Never ELSE Capped(sampled + 1, SampleInterval)
  /\ UNCHANGED <<robot, scan, bounds, refined>>

ClockSetBack(jump) ==
  /\ sampled \in 0..SampleInterval
  /\ \A i \in DOMAIN memory.entities : memory.entities[i].age >= 0
  /\ memory' = [memory EXCEPT !.entities = Aged(@, -jump)]
  /\ sampled' = sampled - jump
  /\ UNCHANGED <<robot, scan, bounds, refined>>

(* What the detector finds: boxes with labels that were asked for, their    *)
(* centres in the image.                                                    *)
Boxes == UNION {[1..n -> [label : Labels, u : Pixels]] : n \in 0..MaxDetections}

(* Bound: an image that would make more entities is not considered.        *)
WithinBound == LET next == memory'.nextId
               IN FoldFunction(LAMBDA a, b : a + b, 0, next) <= MaxEntities

Next ==
  \/ TransformReceived \/ ScanReceived \/ MapReceived \/ RefinedReceived
  \/ \E lag \in 0..MaxLag : ImageDropped(lag)
  \/ \E boxes \in Boxes, lag \in 0..MaxLag : ImageProcessed(boxes, lag) /\ WithinBound
  \/ PublishOutputs
  \/ \E jump \in 1..MaxJump : ClockSetBack(jump)

Spec == Init /\ [][Next]_vars

(* The timer goes on for ever; nothing obliges images to come.             *)
FairSpec == Spec /\ WF_vars(PublishOutputs)

-----------------------------------------------------------------------------
EntityIds == {<<n, k>> : n \in {Names[l] : l \in Labels}, k \in 0..MaxEntities}

Remembered == {memory.entities[i].id : i \in DOMAIN memory.entities}

(* Types, and the identity of entities: no id names two entities of the    *)
(* registry, none was given that the counter of its name has not passed,   *)
(* so that an id is never given to a second object after its first was     *)
(* removed.                                                                *)
TypeOK ==
  /\ robot \in Poses \cup {Lost} /\ scan \in Scans \cup {NoScan}
  /\ bounds \in Maps \cup {NoMap} /\ refined \in RefinedStates \cup {NoRefined}
  /\ sampled \in -MaxJump..Never
  /\ \A i \in DOMAIN memory.entities :
       LET e == memory.entities[i]
       IN /\ e.label \in Labels /\ e.x \in Int /\ e.active \in BOOLEAN
          /\ e.age \in -MaxJump..(RemoveTimeout + 1)
          /\ e.id[1] = Names[e.label] /\ e.id[2] < memory.nextId[e.id[1]]
  /\ Cardinality(Remembered) = Len(memory.entities)

(* "The live semantic map remains authoritative": whatever refined state   *)
(* was received, also one of long ago, all that it adds is about live      *)
(* entities.  No two refined entities are taken for one live entity, no    *)
(* relation joins an entity to itself, nothing names an entity or a place  *)
(* that the message does not contain, and an added anchor lies apart from  *)
(* every other one of its target.                                          *)
RefinementStandsOnLive ==
  LET state  == MapState
      live   == Ids(state.entities)
      places == {p.id : p \in state.places}
      added  == state.anchors \ LiveAnchors(LiveEntities)
  IN /\ \A p \in state.places : p.members # {} /\ p.members \subseteq live
     /\ \A r \in state.relations :
          r.subject \in live /\ r.object \in (live \cup places) \ {r.subject}
     /\ \A a \in added : a.target \in live
     /\ \A a \in added, b \in state.anchors :
          a.target = b.target /\ a # b => 20 * Gap(a.x, b.x) > 7 * RefinedDistance

(* Whatever the layout of the scan, [0, turn), [-half, half] with the same *)
(* direction twice, coarse or partial: the ray that is read lies within    *)
(* half a step of the bearing of the box and none lies nearer, and one is  *)
(* read whenever a ray lies nearer than half a step.                       *)
RaysMatchBearings ==
  scan # NoScan =>
    \A u \in 0..ImageWidth :
      LET bearing == PixelToBearing(u)
          Off(i)  == Residual(RayAngle(scan, i), bearing)
      IN /\ \A i \in BearingToRay(scan, bearing) :
              2 * Off(i) <= scan.step /\ \A j \in Rays(scan) : Off(i) <= Off(j)
         /\ (\E j \in Rays(scan) : 2 * Off(j) < scan.step) => BearingToRay(scan, bearing) # {}

Sighted(id) ==
  \E i \in DOMAIN memory'.entities :
    /\ memory'.entities[i].id = id /\ memory'.entities[i].active
    /\ \A j \in DOMAIN memory.entities :
         memory.entities[j].id = id => memory'.entities[i].age < memory.entities[j].age

ClockWentBack == \E jump \in 1..MaxJump : ClockSetBack(jump)

(* An entity that is no longer detected disappears: if from some time on   *)
(* it is not sighted and the clock is not set back, it is removed for good.*)
UnseenIsForgotten ==
  \A id \in EntityIds :
    <>[][~Sighted(id) /\ ~ClockWentBack]_vars => <>[](id \notin Remembered)
=============================================================================
