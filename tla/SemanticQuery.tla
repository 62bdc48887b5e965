---------------------------- MODULE SemanticQuery ----------------------------
(***************************************************************************)
(* From a sentence to a goal: semantic_query_node.py with query_core.py,   *)
(* which answers a command out of the last map it received, and            *)
(* nav_goal_adapter_node.py with goal_adapter_core.py, which makes a goal  *)
(* pose of an answer.  The two are processes of their own, joined by a     *)
(* topic that keeps the last QueueDepth messages; the robot moves, the map *)
(* changes and the transform of the robot is lost between any two steps.   *)
(*                                                                         *)
(* A sentence is a sequence of words; a relation phrase ("next to") and a  *)
(* target of two words ("stop sign") are one word.  Positions are points   *)
(* of a line, and the robot looks along it.  A map message is a record     *)
(* [frame, objects, relations, anchors] of a frame and three sequences.    *)
(***************************************************************************)
EXTENDS Line, Sequences, FiniteSetsExt

CONSTANTS
  Modes,              \* memory_mode and prefer_query_anchor, as Booleans
                      \* [semanticMap, preferAnchor], that a launch may choose
  Targets,            \* semantic name of an enabled target -> detector label
  Aliases,            \* word -> the word it is replaced by
  Relations,          \* relation phrase -> predicate
  Sentences,          \* the commands that may be sent
  Messages,           \* the map messages that may be received
  Places,             \* where the robot may be
  Approach,           \* approach_distance
  MinStandoff,        \* min_standoff_distance
  QueueDepth,         \* depth of the topic of the answers
  NoCommand, NoAnchor, NoGoal

MapFrame  == "map"
BaseFrame == "base_link"

Unnamed == ""        \* the semantic name of a bare detection
Objects == [id : STRING, name : STRING \cup {Unnamed}, label : STRING, x : Int, conf : Nat]
RelationRecords == [subject : STRING, predicate : STRING, object : STRING, conf : Int]
AnchorRecords   == [target : STRING, x : Int, conf : Int]

ASSUME SemanticQueryConstants ==
  /\ Modes \subseteq [semanticMap : BOOLEAN, preferAnchor : BOOLEAN]
  /\ {Approach, MinStandoff, QueueDepth} \subseteq Nat
  /\ NoAnchor \notin Int
  /\ DOMAIN Targets \subseteq STRING
  /\ Places \subseteq Int
  /\ \A m \in Messages : /\ m.frame \in {MapFrame, BaseFrame}
                         /\ m.objects \in Seq(Objects)
                         /\ m.relations \in Seq(RelationRecords)
                         /\ m.anchors \in Seq(AnchorRecords)

(* The registries never give one id to two objects.                        *)
ASSUME IdsAreUnique ==
  \A m \in Messages : \A i, j \in DOMAIN m.objects :
    m.objects[i].id = m.objects[j].id => i = j

VARIABLES
  mode,               \* the parameters of this launch
  snapshot,           \* _memory_objects, _relations, _anchors and _frame
  robotAt,            \* where the robot is in the map
  located,            \* whether its transform is known
  results,            \* answers the adapter has not handled yet
  goal                \* the last goal of the adapter

queryVars == <<mode, snapshot, robotAt, located, results, goal>>

-----------------------------------------------------------------------------
(* query_core.py: the command                                               *)

Replaced(sentence) ==
  [i \in DOMAIN sentence |-> IF sentence[i] \in DOMAIN Aliases THEN Aliases[sentence[i]]
                             ELSE sentence[i]]

(* Where the targets of a sentence are.                                    *)
TargetsAt(words) == {i \in DOMAIN words : words[i] \in DOMAIN Targets}

(* Without a relation phrase, the first target.  With one, the last target *)
(* before the first phrase and the first target after it, and no command   *)
(* if one is missing: "go near the table" asks for nothing.                *)
ParseCommand(sentence) ==
  LET words   == Replaced(sentence)
      phrases == {i \in DOMAIN words : words[i] \in DOMAIN Relations}
      before  == {i \in TargetsAt(words) : i < Min(phrases)}
      after   == {i \in TargetsAt(words) : i > Min(phrases)}
  IN IF phrases = {}
       THEN IF TargetsAt(words) = {} THEN NoCommand
            ELSE [target |-> words[Min(TargetsAt(words))], relation |-> FALSE]
     ELSE IF before = {} \/ after = {} THEN NoCommand
     ELSE [target |-> words[Max(before)], relation |-> TRUE,
           predicate |-> Relations[words[Min(phrases)]],
           reference |-> words[Min(after)]]

-----------------------------------------------------------------------------
(* query_core.py: the selection                                             *)

(* A map's object is known by its name, or by its detector's label.        *)
MatchesTarget(object, name) == object.name = name \/ object.label = Targets[name]

Candidates(name) ==
  {i \in DOMAIN snapshot.objects : MatchesTarget(snapshot.objects[i], name)}

(* The robot is taken to be at the origin when its transform is not known. *)
RobotXY == IF snapshot.frame = BaseFrame \/ ~located THEN 0 ELSE robotAt

DistanceFromRobot(i) == Gap(snapshot.objects[i].x, RobotXY)

(* The surest candidate, the nearest of equally sure ones, the first.      *)
SelectTarget(name) ==
  LET Conf(i) == snapshot.objects[i].conf
      Better(i, j) == \/ Conf(i) > Conf(j)
                      \/ Conf(i) = Conf(j) /\ DistanceFromRobot(i) < DistanceFromRobot(j)
  IN {i \in Candidates(name) :
        \A j \in Candidates(name) : ~Better(j, i) /\ (j < i => Better(i, j))}

DirectOnly(relation, predicate, t, r) ==                          \* mutant
  relation.predicate = predicate /\ relation.subject = t /\ relation.object = r

(* "near" is read in both directions.                                      *)
Relates(relation, predicate, t, r) ==
  /\ relation.predicate = predicate
  /\ \/ relation.subject = t /\ relation.object = r
     \/ predicate = "near" /\ relation.subject = r /\ relation.object = t

RelationConfidence(predicate, t, r) ==
  LET confs == {snapshot.relations[k].conf :
                  k \in {l \in DOMAIN snapshot.relations :
                           Relates(snapshot.relations[l], predicate, t, r)}}
  IN IF confs = {} THEN 0 ELSE Max(confs)

(* Over pairs of a target and another object as reference, the surest      *)
(* relation, then the nearest target, then the surest one, then the first. *)
SelectRelationalTarget(command) ==
  LET Id(i) == snapshot.objects[i].id
      Sure(p) == RelationConfidence(command.predicate, Id(p[1]), Id(p[2]))
      Conf(p) == snapshot.objects[p[1]].conf
      Far(p) == DistanceFromRobot(p[1])
      pairs == {p \in Candidates(command.target) \X Candidates(command.reference) :
                  Id(p[1]) # Id(p[2]) /\ Sure(p) > 0}
      Better(p, q) == \/ Sure(p) > Sure(q)
                      \/ Sure(p) = Sure(q) /\ Far(p) < Far(q)
                      \/ Sure(p) = Sure(q) /\ Far(p) = Far(q) /\ Conf(p) > Conf(q)
  IN {p[1] : p \in {q \in pairs :
        \A o \in pairs : ~Better(o, q) /\ (o[1] < q[1] => Better(q, o))}}

Select(command) ==
  CASE command = NoCommand -> {}
    [] command # NoCommand /\ command.relation ->
         IF mode.semanticMap THEN SelectRelationalTarget(command) ELSE {}
    [] command # NoCommand /\ ~command.relation -> SelectTarget(command.target)

(* The surest anchor of the object, the first of equally sure ones.        *)
SelectBestAnchor(id) ==
  LET of == {k \in DOMAIN snapshot.anchors : snapshot.anchors[k].target = id}
      Sure(k) == snapshot.anchors[k].conf
  IN IF of = {} \/ ~mode.semanticMap THEN NoAnchor
     ELSE snapshot.anchors[CHOOSE k \in of :
            \A l \in of : Sure(l) < Sure(k) \/ (Sure(l) = Sure(k) /\ k <= l)].x

Failure == [success |-> FALSE, frame |-> snapshot.frame]

Answer(sentence) ==
  LET selected == Select(ParseCommand(sentence))
  IN IF selected = {} THEN Failure
     ELSE LET object == snapshot.objects[Min(selected)]
          IN [success |-> TRUE, id |-> object.id, x |-> object.x,
              anchor |-> SelectBestAnchor(object.id), frame |-> snapshot.frame]

-----------------------------------------------------------------------------
(* goal_adapter_core.py                                                     *)

ApproachAlways(from, to) == {IF to >= from THEN to - Approach ELSE to + Approach}  \* mutant

(* The pose before the target, as a set: none if the robot is too near.    *)
ComputeApproachPose(from, to) ==
  LET dist   == Gap(from, to)
      offset == IF Approach < dist - MinStandoff THEN Approach ELSE dist - MinStandoff
  IN IF dist < MinStandoff THEN {}
     ELSE {IF to >= from THEN to - offset ELSE to + offset}

-----------------------------------------------------------------------------
QueryInit ==
  /\ mode \in Modes
  /\ snapshot = [frame |-> MapFrame, objects |-> <<>>, relations |-> <<>>, anchors |-> <<>>]
  /\ robotAt \in Places
  /\ located = FALSE
  /\ results = <<>>
  /\ goal = NoGoal

(* A detection has no semantic name; an enabled target with its label      *)
(* gives it one.                                                            *)
Named(object) ==
  LET names == {n \in DOMAIN Targets : Targets[n] = object.label}
  IN [object EXCEPT !.name = IF names = {} THEN Unnamed ELSE CHOOSE n \in names : TRUE]

(* _semantic_map_cb or _memory_cb: the snapshot is replaced as a whole.    *)
SnapshotReceived ==
  /\ \E message \in Messages :
       snapshot' = IF mode.semanticMap THEN message
                   ELSE [frame     |-> message.frame, relations |-> <<>>, anchors |-> <<>>,
                         objects   |-> [i \in DOMAIN message.objects |->
                                          Named(message.objects[i])]]
  /\ UNCHANGED <<mode, robotAt, located, results, goal>>

(* _command_cb: one answer to each command, a failure if nothing is found. *)
(* The oldest answer that was not handled yet is lost when there are more  *)
(* than QueueDepth.                                                         *)
Command(sentence) ==
  /\ results' = LET all == Append(results, Answer(sentence))
                IN IF Len(all) > QueueDepth THEN Tail(all) ELSE all
  /\ UNCHANGED <<mode, snapshot, robotAt, located, goal>>

AnchorGoal(result) == IF result.anchor # NoAnchor /\ mode.preferAnchor THEN {result.anchor} ELSE {}

(* In the robot's own frame its pose is the origin; in the map's it is     *)
(* looked up, and no goal is made if it cannot be.                         *)
ApproachGoal(result) ==
  IF result.frame = BaseFrame THEN ComputeApproachPose(0, result.x)
  ELSE IF located THEN ComputeApproachPose(robotAt, result.x) ELSE {}

(* A goal that cannot be transformed to the map is published as it is.     *)
Transformed(x, frame) ==
  IF frame = MapFrame \/ ~located THEN [x |-> x, frame |-> frame]
  ELSE [x |-> robotAt + x, frame |-> MapFrame]

(* _query_cb of the adapter.                                               *)
QueryResult ==
  /\ results # <<>>
  /\ LET result == Head(results)
         poses  == IF ~result.success THEN {}
                   ELSE IF AnchorGoal(result) # {} THEN AnchorGoal(result)
                   ELSE ApproachGoal(result)
     IN goal' = IF poses = {} THEN goal ELSE Transformed(Min(poses), result.frame)
  /\ results' = Tail(results)
  /\ UNCHANGED <<mode, snapshot, robotAt, located>>

RobotMoves == /\ robotAt' \in Places
              /\ UNCHANGED <<mode, snapshot, located, results, goal>>

TransformChanges == /\ located' = ~located
                    /\ UNCHANGED <<mode, snapshot, robotAt, results, goal>>

QueryNext ==
  \/ SnapshotReceived
  \/ \E sentence \in Sentences : Command(sentence)
  \/ QueryResult
  \/ RobotMoves
  \/ TransformChanges

QuerySpec == QueryInit /\ [][QueryNext]_queryVars

-----------------------------------------------------------------------------
Object(id) == CHOOSE o \in Range(snapshot.objects) : o.id = id

(* A command is answered by what the map holds, whatever the order of its  *)
(* lists and wherever the robot is thought to be.  With a relation: by an  *)
(* object of the asked kind that the map relates, either way round for     *)
(* "near" and with some confidence, to another object of the reference's   *)
(* kind, and it fails only if the map relates no such two; no such pair is *)
(* related more surely.  Without: by one of the surest of its kind, the    *)
(* nearest of them when the robot's place is known.  The anchor, if any,   *)
(* is the answered object's.                                                *)
AnswersAreBest ==
  \A sentence \in Sentences :
    LET answer  == Answer(sentence)
        command == ParseCommand(sentence)
        objects == Range(snapshot.objects)
        kind(name) == {o \in objects : MatchesTarget(o, name)}
        related(t, r) ==
          {k \in Range(snapshot.relations) :
             /\ k.predicate = command.predicate
             /\ k.conf > 0 /\ t.id # r.id
             /\ \/ <<k.subject, k.object>> = <<t.id, r.id>>
                \/ k.predicate = "near" /\ <<k.object, k.subject>> = <<t.id, r.id>>}
        all == UNION {related(t, r) : t \in kind(command.target), r \in kind(command.reference)}
        chosen == Object(answer.id)
    IN /\ command = NoCommand => ~answer.success
       /\ command # NoCommand /\ command.relation =>
            /\ answer.success <=> mode.semanticMap /\ all # {}
            /\ answer.success =>
                 /\ chosen \in kind(command.target)
                 /\ \E r \in kind(command.reference) : \E k \in related(chosen, r) :
                      \A l \in all : l.conf <= k.conf
       /\ command # NoCommand /\ ~command.relation =>
            /\ answer.success <=> kind(command.target) # {}
            /\ answer.success =>
                 /\ chosen \in kind(command.target)
                 /\ \A o \in kind(command.target) :
                      /\ o.conf <= chosen.conf
                      /\ located /\ snapshot.frame = MapFrame /\ o.conf = chosen.conf =>
                           Gap(chosen.x, robotAt) <= Gap(o.x, robotAt)
       /\ answer.success /\ answer.anchor # NoAnchor =>
            \E a \in Range(snapshot.anchors) : a.target = answer.id /\ a.x = answer.anchor

(* A goal made without an anchor lies between the robot and its target, at *)
(* most Approach before the target and at least MinStandoff ahead of the   *)
(* robot, also if the robot has moved since the answer was given.  (It may *)
(* lie nearer to the target than Approach, even on it.)                    *)
GoalsLieBetween ==
  [][\A result \in Range(results) :
       /\ results' = Tail(results) /\ result = Head(results)
       /\ result.success /\ AnchorGoal(result) = {} /\ goal' # goal
       => LET from == IF goal'.frame = MapFrame THEN robotAt ELSE 0
              to   == IF goal'.frame = MapFrame /\ result.frame = BaseFrame
                      THEN robotAt + result.x ELSE result.x
          IN /\ Gap(from, goal'.x) + Gap(goal'.x, to) = Gap(from, to)
             /\ Gap(goal'.x, to) <= Approach
             /\ Gap(from, goal'.x) >= MinStandoff]_queryVars
=============================================================================
