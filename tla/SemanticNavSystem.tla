------------------------- MODULE SemanticNavSystem -------------------------
(***************************************************************************)
(* The coordinator and frontier goal assignment together: two nodes that   *)
(* send goals to the same Nav2 server and share nothing but the topic      *)
(* /exploration_enabled.  The topic is reliable and ordered, so it is a    *)
(* queue; a repeated value changes nothing at the subscriber and is left   *)
(* out.  The launch files start both nodes with the same permission.       *)
(*                                                                         *)
(* Nav2 drives to one goal at a time whoever sent it: accepting a goal of  *)
(* one client aborts the goal of the other.                                *)
(***************************************************************************)
EXTENDS Naturals, Sequences

CONSTANTS
  SemanticGoals, FrontierGoals,   \* goals of either client
  None, InitiallyArmed, ReadinessRequired, AutoResume, NavTimeoutOn,
  SweepEnabled, PromptAnswers, IdleChecks, MaxCommands,
  Places, MinDistance, AvoidRadius, LoopRadius, MaxVisits, HistoryLimit,
  WarmupRequired, GoalsExpire, MaxFrontiers,
  MaxMessages                     \* bound: permissions on their way

ASSUME SystemConstants == MaxMessages \in Nat \ {0}

VARIABLES
  mode, armed, explEnabled, resumeTimer, navHandle, navTimer, liveNavTimers,
  sweepTimer, staleSweep, sweepDone, idleCount,
  queries, results, selections, poses,
  semStatus, semAnswered, semCancel,      \* Nav2 as the coordinator sees it
  state, handle, current, lastFailed, visits, enabled, warm, frontiers, dest,
  fStatus, fAnswered, fCancel,            \* Nav2 as goal assignment sees it
  permission                              \* messages on /exploration_enabled

C == INSTANCE Coordinator WITH
       Goals <- SemanticGoals, goalStatus <- semStatus,
       answered <- semAnswered, cancelReq <- semCancel

G == INSTANCE GoalAssignment WITH
       Goals <- FrontierGoals, goalStatus <- fStatus,
       answered <- fAnswered, cancelReq <- fCancel,
       InitiallyEnabled <- InitiallyArmed

(* The assumptions of either node.                                         *)
ASSUME NodesConstants == C!CoordinatorConstants /\ G!GoalAssignmentConstants

coordNavVars == <<semStatus, semAnswered, semCancel>>
coordVars == <<mode, armed, explEnabled, resumeTimer, navHandle, navTimer,
               liveNavTimers, sweepTimer, staleSweep, sweepDone, idleCount,
               queries, results, selections, poses>>
assignNavVars == <<fStatus, fAnswered, fCancel>>
assignVars == <<state, handle, current, lastFailed, visits, enabled, warm,
                frontiers, dest>>
vars == <<coordVars, coordNavVars, assignVars, assignNavVars, permission>>

Init == C!Init /\ G!Init /\ permission = <<>>

-----------------------------------------------------------------------------
(* A step of the coordinator publishes the permission it changed.          *)
PublishUnordered ==                                        \* mutant
  permission' = IF explEnabled' = explEnabled THEN permission
                                              ELSE <<explEnabled'>> \o permission
Publish ==
  permission' = IF explEnabled' = explEnabled THEN permission
                                              ELSE Append(permission, explEnabled')

CoordinatorStep ==
  /\ C!Operator \/ C!Callback \/ C!Pipeline
  /\ Publish
  /\ Len(permission') <= MaxMessages
  /\ UNCHANGED <<assignVars, assignNavVars>>

Deliver ==
  /\ permission # <<>>
  /\ permission' = Tail(permission)
  /\ G!ExplorationEnabled(Head(permission))
  /\ UNCHANGED <<coordVars, coordNavVars>>

AssignmentStep ==
  /\ G!Topics \/ G!Timer \/ G!Answers
  /\ UNCHANGED <<coordVars, coordNavVars, permission>>

-----------------------------------------------------------------------------
(* The one Nav2 server.                                                    *)

Preempted(status) == [g \in DOMAIN status |->
                        IF status[g] = "executing" THEN "aborted" ELSE status[g]]

AcceptSemantic(g) ==
  /\ C!ServerAccept(g)
  /\ fStatus' = Preempted(fStatus)
  /\ UNCHANGED <<fAnswered, fCancel>>

AcceptFrontier(g) ==
  /\ G!ServerAccept(g)
  /\ semStatus' = Preempted(semStatus)
  /\ UNCHANGED <<semAnswered, semCancel>>

OtherSemantic(g) ==
  /\ C!ServerReject(g) \/ C!ServerFinish(g) \/ C!ServerCancel(g)
  /\ UNCHANGED assignNavVars

OtherFrontier(g) ==
  /\ G!ServerReject(g) \/ G!ServerFinish(g) \/ G!ServerCancel(g)
  /\ UNCHANGED coordNavVars

Nav2Step ==
  /\ \/ \E g \in SemanticGoals : AcceptSemantic(g) \/ OtherSemantic(g)
     \/ \E g \in FrontierGoals : AcceptFrontier(g) \/ OtherFrontier(g)
  /\ UNCHANGED <<coordVars, assignVars, permission>>

-----------------------------------------------------------------------------
Next == CoordinatorStep \/ Deliver \/ AssignmentStep \/ Nav2Step

Spec == Init /\ [][Next]_vars

(* Permissions are delivered, and the coordinator's resume timer fires.    *)
FairSpec ==
  /\ Spec
  /\ WF_vars(Deliver)
  /\ WF_vars(C!Resume /\ Publish /\ Len(permission') <= MaxMessages /\ UNCHANGED <<assignVars, assignNavVars>>)

-----------------------------------------------------------------------------
(* The command is served with exploration paused: once the message that    *)
(* withdraws the permission has arrived, goal assignment waits for nothing *)
(* and holds no goal, however late its own requests are answered.          *)
ServingPausesExploration ==
  C!Serving /\ permission = <<>> => ~enabled /\ state = "IDLE" /\ handle = None

(* Exploration is not lost either: a coordinator that explores and has     *)
(* nothing on its way finds goal assignment enabled.                       *)
ExploringMeansEnabled == mode = "EXPLORING" /\ permission = <<>> => enabled

(* A command that has its outcome gives exploration back to goal           *)
(* assignment, unless the operator intervenes (liveness).                  *)
ExplorationIsGivenBack ==
  AutoResume => (C!Settled ~> enabled \/ ~armed \/ C!Serving)
=============================================================================
