--------------------------- MODULE GoalAssignment ---------------------------
(***************************************************************************)
(* goal_assignment_node.cpp: the executive of frontier exploration.  A     *)
(* 1 Hz timer sends the nearest acceptable frontier to Nav2; topics and    *)
(* Nav2's answers arrive between ticks.  rclcpp::spin runs one callback at *)
(* a time, so each callback is one action.                                 *)
(*                                                                         *)
(* Frontier centroids are points of a line with the code's Euclidean       *)
(* distance.  Time is nondeterministic: a held goal may be found expired   *)
(* at any tick, and so may the wait for the startup warmup.                *)
(***************************************************************************)
EXTENDS Nav2Server, Integers, Sequences, FiniteSets

CONSTANTS
  None,               \* no goal handle, no failed goal
  Places,             \* the centroids that occur, and the robot's positions
  MinDistance,        \* min_frontier_distance
  AvoidRadius,        \* failed_goal_avoidance_radius
  LoopRadius,         \* repeated_centroid_reject_radius
  MaxVisits,          \* repeated_centroid_max_visits
  HistoryLimit,       \* k_max_history (256 in the code)
  InitiallyEnabled,   \* exploration_initially_enabled
  WarmupRequired,     \* require_startup_warmup
  GoalsExpire,        \* can goal_timeout elapse before Nav2 reports a result
  MaxFrontiers        \* bound: length of a frontier message

ASSUME GoalAssignmentConstants ==
  /\ Places \subseteq Int /\ Places # {}
  /\ None \notin Goals /\ None \notin Places
  /\ InitiallyEnabled \in BOOLEAN /\ WarmupRequired \in BOOLEAN
  /\ GoalsExpire \in BOOLEAN
  /\ MinDistance \in Nat /\ AvoidRadius \in Nat /\ LoopRadius \in Nat
  /\ MaxVisits \in Nat /\ MaxFrontiers \in Nat
  /\ HistoryLimit \in Nat \ {0}

VARIABLES
  state,       \* state_
  handle,      \* current_goal_handle_; goal_sent_time_ is set exactly with it
  current,     \* current_goal_x_, current_goal_y_
  lastFailed,  \* last_failed_goal_
  visits,      \* visit_history_
  enabled,     \* exploration_enabled_
  warm,        \* startup_warmup_done_
  frontiers,   \* latest_frontiers_, <<>> when there is none
  dest         \* the place each goal was sent with

memoryVars == <<lastFailed, visits>>
inputVars  == <<enabled, warm, frontiers>>
vars == <<state, handle, current, memoryVars, inputVars, dest, navVars>>

FrontierMessages == UNION {[1..n -> Places] : n \in 0..MaxFrontiers}

NodeTypeOK ==
  /\ state \in {"IDLE", "NAVIGATING"}
  /\ handle \in Goals \cup {None}
  /\ enabled \in BOOLEAN /\ warm \in BOOLEAN

PlacesTypeOK ==
  /\ dest \in [Goals -> Places \cup {None}]
  /\ current \in Places \cup {None}
  /\ lastFailed \in Places \cup {None}
  /\ frontiers \in Seq(Places)
  /\ visits \in Seq(Places) /\ Len(visits) <= HistoryLimit

TypeOK == NavTypeOK /\ NodeTypeOK /\ PlacesTypeOK

Init ==
  /\ NavInit
  /\ state = "IDLE"
  /\ handle = None
  /\ current = None
  /\ lastFailed = None
  /\ visits = <<>>
  /\ enabled = InitiallyEnabled
  /\ warm = ~WarmupRequired
  /\ frontiers = <<>>
  /\ dest = [g \in Goals |-> None]

-----------------------------------------------------------------------------
(* selectBestFrontier: the nearest acceptable centroid, the first of ties. *)

Dist(a, b) == IF a < b THEN b - a ELSE a - b

VisitsNear(p) == Cardinality({i \in DOMAIN visits : Dist(p, visits[i]) <= LoopRadius})

Acceptable(p, robot) ==
  /\ Dist(p, robot) >= MinDistance
  /\ lastFailed # None => Dist(p, lastFailed) >= AvoidRadius
  /\ LoopRadius > 0 /\ MaxVisits > 0 => VisitsNear(p) < MaxVisits

Candidates(robot) == {i \in DOMAIN frontiers : Acceptable(frontiers[i], robot)}

BestFrontier(robot) ==
  CHOOSE i \in Candidates(robot) :
    \A j \in Candidates(robot) :
      LET di == Dist(frontiers[i], robot)
          dj == Dist(frontiers[j], robot)
      IN di < dj \/ (di = dj /\ i <= j)

WithoutIndex(s, i) == SubSeq(s, 1, i - 1) \o SubSeq(s, i + 1, Len(s))

-----------------------------------------------------------------------------
(* Helper methods.                                                         *)

CancelCurrentGoalUnasked ==                           \* mutant
  handle' = None /\ state' = "IDLE" /\ UNCHANGED navVars
CancelCurrentGoalKeepingHandle ==                     \* mutant
  UNCHANGED handle /\ state' = "IDLE" /\ AskCancel({handle} \ {None})
CancelCurrentGoal ==
  /\ handle' = None
  /\ state' = "IDLE"
  /\ AskCancel({handle} \ {None})

RecordFailedGoal == lastFailed' = current /\ UNCHANGED visits

RecordSuccessfulVisitUnbounded ==                     \* mutant
  lastFailed' = None /\ visits' = Append(visits, current)
RecordSuccessfulVisitForgetful ==                     \* mutant
  LET longer == Append(visits, current)
  IN /\ lastFailed' = None
     /\ visits' = IF Len(longer) >= HistoryLimit THEN Tail(longer) ELSE longer
RecordSuccessfulVisit ==
  LET longer == Append(visits, current)
  IN /\ lastFailed' = None
     /\ visits' = IF Len(longer) > HistoryLimit THEN Tail(longer) ELSE longer

-----------------------------------------------------------------------------
(* Topics.                                                                 *)

ExplorationEnabled(b) ==
  /\ enabled' = b
  /\ IF b THEN UNCHANGED <<state, handle, navVars>> ELSE CancelCurrentGoal
  /\ UNCHANGED <<current, memoryVars, warm, frontiers, dest>>

WarmupComplete ==
  /\ ~warm
  /\ warm' = TRUE
  /\ UNCHANGED <<state, handle, current, memoryVars, enabled, frontiers, dest, navVars>>

Frontiers(msg) ==
  /\ frontiers' = msg
  /\ UNCHANGED <<state, handle, current, memoryVars, enabled, warm, dest, navVars>>

-----------------------------------------------------------------------------
(* timerCallback, one action for each way through it.                      *)

TickDisabled ==
  /\ ~enabled
  /\ IF state = "NAVIGATING" \/ handle # None
     THEN CancelCurrentGoal
     ELSE UNCHANGED <<state, handle, navVars>>
  /\ UNCHANGED <<current, memoryVars, inputVars, dest>>

ExpiredUnanswered == handle = None /\ GoalsExpire      \* mutant
Expired == handle # None /\ GoalsExpire
TickExpired ==
  /\ enabled /\ state = "NAVIGATING" /\ Expired
  /\ RecordFailedGoal
  /\ CancelCurrentGoal
  /\ UNCHANGED <<current, inputVars, dest>>

MayDispatchNavigating == enabled                              \* mutant
MayDispatch == enabled /\ state = "IDLE"

(* The tick that finds startup_warmup_timeout_sec elapsed stops waiting for *)
(* good; in the same tick it goes on to send a goal when it can.           *)
TickWarmupExpired ==
  /\ MayDispatch /\ ~warm
  /\ warm' = TRUE
  /\ UNCHANGED <<state, handle, current, memoryVars, enabled, frontiers, dest, navVars>>

TickDispatch(robot, warmupExpired) ==
  /\ MayDispatch
  /\ warm \/ warmupExpired
  /\ warm' = TRUE
  /\ Candidates(robot) # {}
  /\ LET best == BestFrontier(robot)
     IN /\ current' = frontiers[best]
        /\ frontiers' = WithoutIndex(frontiers, best)
        /\ \E g \in Goals : /\ SendGoal(g)
                            /\ dest' = [dest EXCEPT ![g] = frontiers[best]]
  /\ state' = "NAVIGATING"
  /\ UNCHANGED <<handle, memoryVars, enabled>>

-----------------------------------------------------------------------------
(* goal_response_callback and result_callback.  Both act on the node's     *)
(* current goal, whichever goal g they are about.                          *)

GoalAcceptedUnchecked(g) ==                           \* mutant
  /\ ResponseReady(g) /\ Accepted(g)
  /\ answered' = answered \cup {g}
  /\ handle' = g /\ state' = "NAVIGATING"
  /\ UNCHANGED <<current, memoryVars, inputVars, dest, goalStatus, cancelReq>>
GoalAccepted(g) ==
  /\ ResponseReady(g) /\ Accepted(g)
  /\ answered' = answered \cup {g}
  /\ IF enabled
     THEN handle' = g /\ state' = "NAVIGATING" /\ UNCHANGED cancelReq
     ELSE handle' = None /\ state' = "IDLE" /\ cancelReq' = cancelReq \cup {g}
  /\ UNCHANGED <<current, memoryVars, inputVars, dest, goalStatus>>

GoalRejectedKeepingState(g) ==                        \* mutant
  /\ ResponseReady(g) /\ ~Accepted(g)
  /\ ConsumeRejection(g)
  /\ dest' = [dest EXCEPT ![g] = None]
  /\ IF enabled THEN RecordFailedGoal ELSE UNCHANGED memoryVars
  /\ UNCHANGED <<state, handle, current, inputVars>>
GoalRejected(g) ==
  /\ ResponseReady(g) /\ ~Accepted(g)
  /\ ConsumeRejection(g)
  /\ dest' = [dest EXCEPT ![g] = None]
  /\ state' = "IDLE"
  /\ IF enabled THEN RecordFailedGoal ELSE UNCHANGED memoryVars
  /\ UNCHANGED <<handle, current, inputVars>>

Result(g) ==
  /\ ResultReady(g)
  /\ ConsumeResult(g)
  /\ dest' = [dest EXCEPT ![g] = None]
  /\ handle' = None
  /\ state' = "IDLE"
  /\ \/ ~enabled /\ UNCHANGED memoryVars
     \/ enabled /\ goalStatus[g] = "succeeded" /\ RecordSuccessfulVisit
     \/ enabled /\ goalStatus[g] # "succeeded" /\ RecordFailedGoal
  /\ UNCHANGED <<current, inputVars>>

-----------------------------------------------------------------------------
Permission == \E b \in BOOLEAN : ExplorationEnabled(b)

Topics ==
  \/ WarmupComplete
  \/ \E msg \in FrontierMessages : Frontiers(msg)

Timer ==
  \/ TickDisabled
  \/ TickExpired
  \/ TickWarmupExpired
  \/ \E robot \in Places, expired \in BOOLEAN : TickDispatch(robot, expired)

Answers == \E g \in Goals : GoalAccepted(g) \/ GoalRejected(g) \/ Result(g)

Nav2 == ServerStep /\ UNCHANGED <<state, handle, current, memoryVars, inputVars, dest>>

Next == Permission \/ Topics \/ Timer \/ Answers \/ Nav2

Spec == Init /\ [][Next]_vars

(***************************************************************************)
(* Fairness.  The timer ticks, ready callbacks run, and Nav2 answers every *)
(* request and honours every cancellation.  That a goal ever finishes, or  *)
(* that a frontier ever appears, is not assumed.                           *)
(***************************************************************************)
FairSpec ==
  /\ Spec
  /\ WF_vars(TickExpired)
  /\ \A g \in Goals :
       /\ WF_vars(GoalAccepted(g))
       /\ WF_vars(GoalRejected(g))
       /\ WF_vars(Result(g))
       /\ WF_vars((ServerAccept(g) \/ ServerReject(g))
                    /\ UNCHANGED <<state, handle, current, memoryVars, inputVars, dest>>)

-----------------------------------------------------------------------------
(* Properties that hold whatever Nav2, the coordinator and the clock do.   *)

(* Once exploration is disabled the node neither waits for nor holds a     *)
(* goal, even when a pending request is accepted afterwards.               *)
DisabledIsIdle == ~enabled => state = "IDLE" /\ handle = None

(* NAVIGATING is always left by something that can still happen: a goal is *)
(* held, so its timeout runs, or a request has not been answered.          *)
NavigatingIsAnswerable == state = "NAVIGATING" => handle # None \/ Unanswered # {}

(* The held goal was accepted, its result has not been seen and nobody has *)
(* cancelled it: cancelling through the handle reaches a goal once.        *)
HandleIsUsable == handle # None => Usable(handle)

(* An outcome always finds a place to be recorded at.                      *)
CurrentIsKnown == \A g \in Goals : goalStatus[g] # "free" => current # None

(* A goal never keeps the node NAVIGATING for ever (liveness).             *)
GoalsEnd == GoalsExpire => (state = "NAVIGATING" ~> state = "IDLE")

=============================================================================
