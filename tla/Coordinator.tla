---------------------------- MODULE Coordinator ----------------------------
(***************************************************************************)
(* coordinator_node.py: the mode manager between frontier exploration and  *)
(* semantic navigation.  rclpy.spin runs its callbacks one at a time, so   *)
(* each callback is one action; what interleaves is their order with the   *)
(* query node, the goal adapter and Nav2.                                  *)
(*                                                                         *)
(* rclpy timers are periodic: a timer that is replaced without being       *)
(* cancelled keeps firing.  The navigation timeout created when goal g is  *)
(* accepted is identified by g; liveNavTimers holds those not cancelled,   *)
(* navTimer is the one self._nav_timeout_timer refers to.  A sweep timer   *)
(* replaced while it ticks is staleSweep.                                  *)
(*                                                                         *)
(* Timing: a sweep begins after six idle checks 5 s apart.  PromptAnswers  *)
(* says that Nav2 has answered every goal request by then; without it a    *)
(* rejection may reach a coordinator that is sweeping.                     *)
(***************************************************************************)
EXTENDS Nav2Server, Naturals, Sequences

CONSTANTS
  None,               \* no goal handle, no timer
  InitiallyArmed,     \* parameter motion_initially_armed
  ReadinessRequired,  \* parameter readiness_required
  AutoResume,         \* parameter auto_resume_exploration
  NavTimeoutOn,       \* nav_goal_timeout_sec > 0
  SweepEnabled,       \* parameter enable_perception_sweep
  PromptAnswers,      \* are goal requests answered before a sweep begins
  IdleChecks,         \* idle checks before a sweep (6 in the code)
  MaxCommands         \* bound: commands whose answers are still under way

ASSUME CoordinatorConstants ==
  /\ None \notin Goals
  /\ InitiallyArmed \in BOOLEAN /\ ReadinessRequired \in BOOLEAN
  /\ AutoResume \in BOOLEAN /\ NavTimeoutOn \in BOOLEAN
  /\ SweepEnabled \in BOOLEAN /\ PromptAnswers \in BOOLEAN
  /\ IdleChecks \in Nat \ {0}
  /\ MaxCommands \in Nat \ {0}

VARIABLES
  mode,           \* _mode
  armed,          \* _motion_armed
  explEnabled,    \* the last value published on /exploration_enabled
  resumeTimer,    \* is _resume_timer set
  navHandle,      \* _nav_goal_handle
  navTimer,       \* _nav_timeout_timer
  liveNavTimers,  \* timeout timers created and never cancelled
  sweepTimer,     \* is _sweep_timer set
  staleSweep,     \* does a sweep timer tick that _sweep_timer has forgotten
  sweepDone,      \* _sweep_done
  idleCount,      \* _idle_explore_count, which is only compared with >= 6
  queries,        \* commands at semantic_query_node, not yet answered
  results,        \* its answers on the way to the coordinator
  selections,     \* successful answers on the way to nav_goal_adapter_node
  poses           \* goal poses on the way from it to the coordinator

timerVars    == <<navTimer, liveNavTimers>>
sweepVars    == <<sweepTimer, staleSweep, sweepDone>>
pipelineVars == <<queries, results, selections, poses>>
nodeVars == <<mode, armed, explEnabled, resumeTimer, navHandle, timerVars,
              sweepVars, idleCount>>
vars == <<nodeVars, pipelineVars, navVars>>

Modes == {"IDLE", "EXPLORING", "SEMANTIC_QUERYING", "SEMANTIC_NAV",
          "TARGET_REACHED", "TARGET_FAILED", "PERCEPTION_SWEEP"}

QueryAnswers == {"found", "failed"}

NodeTypeOK ==
  /\ mode \in Modes
  /\ armed \in BOOLEAN /\ explEnabled \in BOOLEAN
  /\ resumeTimer \in BOOLEAN
  /\ sweepTimer \in BOOLEAN /\ staleSweep \in BOOLEAN /\ sweepDone \in BOOLEAN
  /\ navHandle \in Goals \cup {None}
  /\ navTimer \in Goals \cup {None}
  /\ liveNavTimers \subseteq Goals
  /\ idleCount \in 0..IdleChecks

PipelineTypeOK ==
  /\ queries \in Nat /\ selections \in Nat /\ poses \in Nat
  /\ results \in Seq(QueryAnswers)

TypeOK == NavTypeOK /\ NodeTypeOK /\ PipelineTypeOK

Init ==
  /\ NavInit
  /\ mode = IF InitiallyArmed THEN "EXPLORING" ELSE "IDLE"
  /\ armed = InitiallyArmed
  /\ explEnabled = InitiallyArmed
  /\ resumeTimer = FALSE
  /\ navHandle = None
  /\ navTimer = None
  /\ liveNavTimers = {}
  /\ sweepTimer = FALSE
  /\ staleSweep = FALSE
  /\ sweepDone = FALSE
  /\ idleCount = 0
  /\ queries = 0
  /\ results = <<>>
  /\ selections = 0
  /\ poses = 0

-----------------------------------------------------------------------------
(* Helper methods and conditions, each a piece of the state it owns.       *)

Outcomes == {"TARGET_REACHED", "TARGET_FAILED"}

CancelResumeForgotten == UNCHANGED resumeTimer      \* mutant
CancelResume == resumeTimer' = FALSE

CancelNavTimer ==
  /\ liveNavTimers' = liveNavTimers \ {navTimer}
  /\ navTimer' = None

(* _cancel_nav_goal knows of a goal only once its acceptance has arrived.  *)
CancelNavGoalUnchecked ==                           \* mutant
  CancelNavTimer /\ navHandle' = None /\ AskCancel({navHandle})
CancelNavGoalKeepingHandle ==                       \* mutant
  CancelNavTimer /\ UNCHANGED navHandle /\ AskCancel({navHandle} \ {None})
CancelNavGoal ==
  /\ CancelNavTimer
  /\ navHandle' = None
  /\ AskCancel({navHandle} \ {None})

ScheduleResumeDisarmed == resumeTimer' = (resumeTimer \/ AutoResume)   \* mutant
ScheduleResumeNever == UNCHANGED resumeTimer                           \* mutant
ScheduleResume == resumeTimer' = (resumeTimer \/ (armed /\ AutoResume))

(* _set_exploration and _set_mode of every branch that resumes exploring.  *)
StartExploringSilently == UNCHANGED explEnabled /\ mode' = "EXPLORING"  \* mutant
StartExploring == explEnabled' = TRUE /\ mode' = "EXPLORING"

Fail == mode' = "TARGET_FAILED" /\ ScheduleResume

AwaitsAnswerUnheld == mode = "SEMANTIC_QUERYING" /\ navHandle = None    \* mutant
AwaitsAnswerArmed == armed                                              \* mutant
AwaitsAnswer == mode = "SEMANTIC_QUERYING"

(* The goal pose is dropped unless the coordinator is waiting for one.     *)
TakesGoalPose == armed /\ mode = "SEMANTIC_NAV"

TimeoutAppliesUnheld == mode = "SEMANTIC_NAV" /\ navHandle = None       \* mutant
TimeoutApplies == mode = "SEMANTIC_NAV" /\ navHandle # None

-----------------------------------------------------------------------------
(* The arming service.                                                     *)

Arm(ready) ==
  /\ ~armed
  /\ ReadinessRequired => ready
  /\ armed' = TRUE
  /\ StartExploring
  /\ UNCHANGED <<resumeTimer, navHandle, timerVars, sweepVars, idleCount,
                 pipelineVars, navVars>>

ArmRefused(ready) ==
  /\ ~armed /\ ReadinessRequired /\ ~ready
  /\ explEnabled' = FALSE
  /\ UNCHANGED <<mode, armed, resumeTimer, navHandle, timerVars, sweepVars,
                 idleCount, pipelineVars, navVars>>

Disarm ==
  /\ armed
  /\ armed' = FALSE
  /\ CancelResume
  /\ sweepTimer' = FALSE
  /\ CancelNavGoal
  /\ explEnabled' = FALSE
  /\ mode' = "IDLE"
  /\ UNCHANGED <<staleSweep, sweepDone, idleCount, pipelineVars>>

-----------------------------------------------------------------------------
(* A command, its answer and its goal pose.                                *)

UserCommand ==
  /\ armed
  /\ queries + Len(results) + selections + poses < MaxCommands
  /\ CancelResume
  /\ sweepTimer' = FALSE
  /\ CancelNavGoal
  /\ explEnabled' = FALSE
  /\ mode' = "SEMANTIC_QUERYING"
  /\ queries' = queries + 1
  /\ UNCHANGED <<armed, staleSweep, sweepDone, idleCount, results, selections, poses>>

(* An answer is taken for whatever query is outstanding: it carries no     *)
(* reference to the command it answers.                                    *)
QueryResult ==
  /\ results # <<>>
  /\ results' = Tail(results)
  /\ \/ /\ AwaitsAnswer /\ Head(results) = "found"
        /\ mode' = "SEMANTIC_NAV"
        /\ UNCHANGED resumeTimer
     \/ /\ AwaitsAnswer /\ Head(results) = "failed"
        /\ Fail
     \/ /\ ~AwaitsAnswer
        /\ UNCHANGED <<mode, resumeTimer>>
  /\ UNCHANGED <<armed, explEnabled, navHandle, timerVars, sweepVars, idleCount,
                 queries, selections, poses, navVars>>

GoalPose(serverReady) ==
  /\ poses > 0
  /\ poses' = poses - 1
  /\ \/ /\ TakesGoalPose /\ serverReady
        /\ \E g \in Goals \ liveNavTimers : SendGoal(g)
        /\ UNCHANGED <<mode, resumeTimer>>
     \/ /\ TakesGoalPose /\ ~serverReady
        /\ Fail
        /\ UNCHANGED navVars
     \/ /\ ~TakesGoalPose
        /\ UNCHANGED <<mode, resumeTimer, navVars>>
  /\ UNCHANGED <<armed, explEnabled, navHandle, timerVars, sweepVars, idleCount,
                 queries, results, selections>>

-----------------------------------------------------------------------------
(* Nav2's messages and the timers.                                         *)

GoalRejected(g) ==
  /\ ResponseReady(g) /\ ~Accepted(g)
  /\ ConsumeRejection(g)
  /\ navHandle' = None
  /\ Fail
  /\ UNCHANGED <<armed, explEnabled, timerVars, sweepVars, idleCount, pipelineVars>>

(* Neither the mode nor the arming state is looked at, and a timer already *)
(* running is forgotten, not cancelled.                                    *)
GoalAccepted(g) ==
  /\ ResponseReady(g) /\ Accepted(g)
  /\ answered' = answered \cup {g}
  /\ navHandle' = g
  /\ IF NavTimeoutOn
     THEN navTimer' = g /\ liveNavTimers' = liveNavTimers \cup {g}
     ELSE UNCHANGED timerVars
  /\ UNCHANGED <<mode, armed, explEnabled, resumeTimer, sweepVars, idleCount,
                 pipelineVars, goalStatus, cancelReq>>

(* Any live timer may fire; the callback cancels the one referred to.      *)
NavTimeout(t) ==
  /\ t \in liveNavTimers
  /\ CancelNavTimer
  /\ IF TimeoutApplies
     THEN AskCancel({navHandle}) /\ navHandle' = None /\ Fail
     ELSE UNCHANGED <<mode, resumeTimer, navHandle, navVars>>
  /\ UNCHANGED <<armed, explEnabled, sweepVars, idleCount, pipelineVars>>

(* The result of any goal forgets the current handle and timer.            *)
NavResult(g) ==
  /\ ResultReady(g)
  /\ ConsumeResult(g)
  /\ CancelNavTimer
  /\ navHandle' = None
  /\ IF mode = "SEMANTIC_NAV"
     THEN /\ mode' = IF goalStatus[g] = "succeeded" THEN "TARGET_REACHED"
                                                    ELSE "TARGET_FAILED"
          /\ ScheduleResume
     ELSE UNCHANGED <<mode, resumeTimer>>
  /\ UNCHANGED <<armed, explEnabled, sweepVars, idleCount, pipelineVars>>

Resume ==
  /\ resumeTimer
  /\ resumeTimer' = FALSE
  /\ IF armed THEN StartExploring ELSE UNCHANGED <<explEnabled, mode>>
  /\ UNCHANGED <<armed, navHandle, timerVars, sweepVars, idleCount,
                 pipelineVars, navVars>>

-----------------------------------------------------------------------------
(* The 360 degree perception sweep.                                        *)

SweepDue == mode = "EXPLORING" /\ navHandle = None

StartSweep ==
  /\ PromptAnswers => Unanswered = {}
  /\ explEnabled' = FALSE
  /\ mode' = "PERCEPTION_SWEEP"
  /\ sweepTimer' = TRUE
  /\ staleSweep' = (staleSweep \/ sweepTimer)

SweepCheck ==
  /\ armed /\ SweepEnabled /\ ~sweepDone
  /\ \/ /\ ~SweepDue
        /\ idleCount' = 0
        /\ UNCHANGED <<mode, explEnabled, sweepTimer, staleSweep>>
     \/ /\ SweepDue /\ idleCount + 1 < IdleChecks
        /\ idleCount' = idleCount + 1
        /\ UNCHANGED <<mode, explEnabled, sweepTimer, staleSweep>>
     \/ /\ SweepDue /\ idleCount + 1 >= IdleChecks
        /\ idleCount' = IdleChecks
        /\ StartSweep
  /\ UNCHANGED <<armed, resumeTimer, navHandle, timerVars, sweepDone,
                 pipelineVars, navVars>>

(* The tick, of either timer, that finds the sweep's duration elapsed.     *)
(* Earlier ticks only publish a velocity.  _stop_sweep cancels the timer   *)
(* _sweep_timer refers to and no other.                                    *)
SweepTick ==
  /\ sweepTimer \/ staleSweep
  /\ sweepTimer' = FALSE
  /\ sweepDone' = TRUE
  /\ IF armed THEN StartExploring ELSE UNCHANGED <<explEnabled, mode>>
  /\ UNCHANGED <<armed, resumeTimer, navHandle, timerVars, staleSweep, idleCount,
                 pipelineVars, navVars>>

-----------------------------------------------------------------------------
(* semantic_query_node and nav_goal_adapter_node, as far as the            *)
(* coordinator can tell: one answer per command, in order; a pose, or none *)
(* when there is no robot pose or the target is already close enough.      *)

QueryAnswer(answer) ==
  /\ queries > 0
  /\ queries' = queries - 1
  /\ results' = Append(results, answer)
  /\ selections' = IF answer = "found" THEN selections + 1 ELSE selections
  /\ UNCHANGED <<poses, nodeVars, navVars>>

AdaptGoal(posePublished) ==
  /\ selections > 0
  /\ selections' = selections - 1
  /\ poses' = IF posePublished THEN poses + 1 ELSE poses
  /\ UNCHANGED <<queries, results, nodeVars, navVars>>

-----------------------------------------------------------------------------
Operator ==
  \/ \E ready \in BOOLEAN : Arm(ready) \/ ArmRefused(ready)
  \/ Disarm
  \/ UserCommand

Callback ==
  \/ QueryResult
  \/ \E ready \in BOOLEAN : GoalPose(ready)
  \/ \E g \in Goals : GoalRejected(g) \/ GoalAccepted(g) \/ NavResult(g)
  \/ \E t \in Goals : NavTimeout(t)
  \/ Resume
  \/ SweepCheck
  \/ SweepTick

Pipeline ==
  \/ \E answer \in QueryAnswers : QueryAnswer(answer)
  \/ \E posePublished \in BOOLEAN : AdaptGoal(posePublished)

Nav2 == ServerStep /\ UNCHANGED <<nodeVars, pipelineVars>>

Next == Operator \/ Callback \/ Pipeline \/ Nav2

Spec == Init /\ [][Next]_vars

(***************************************************************************)
(* Fairness.  The executor runs every ready callback and every live timer; *)
(* the query node answers each command, the adapter handles each answer    *)
(* and Nav2 answers each request and honours each cancellation.  Nothing   *)
(* is assumed of the operator, nor that the robot ever arrives.            *)
(***************************************************************************)
Fairness ==
  /\ WF_vars(QueryResult)
  /\ WF_vars(\E ready \in BOOLEAN : GoalPose(ready))
  /\ \A g \in Goals :
       /\ WF_vars(GoalRejected(g))
       /\ WF_vars(GoalAccepted(g))
       /\ WF_vars(NavResult(g))
       /\ WF_vars(NavTimeout(g))
       /\ WF_vars((ServerAccept(g) \/ ServerReject(g))
                    /\ UNCHANGED <<nodeVars, pipelineVars>>)
       /\ WF_vars(ServerCancel(g) /\ UNCHANGED <<nodeVars, pipelineVars>>)
  /\ WF_vars(Resume)
  /\ WF_vars(SweepTick)
  /\ WF_vars(\E answer \in QueryAnswers : QueryAnswer(answer))
  /\ WF_vars(\E ok \in BOOLEAN : AdaptGoal(ok))

FairSpec == Spec /\ Fairness

-----------------------------------------------------------------------------
(* Safety.                                                                 *)

(* Disarmed, the coordinator leaves nothing of its own able to move the    *)
(* robot: exploration is off, no sweep is ticking and no timer is left     *)
(* that would turn exploration on again (_set_motion_armed_cb).            *)
DisarmedIsQuiet == ~armed => ~explEnabled /\ ~sweepTimer /\ ~resumeTimer

(* The properties up to HandleIsUsable need PromptAnswers.                 *)

(* While a command is being served, whatever late answers and results      *)
(* arrive, exploration is off and no timer is pending that would end the   *)
(* service by resuming exploration or by finishing a sweep.                *)
Serving == mode \in {"SEMANTIC_QUERYING", "SEMANTIC_NAV"}
ServingUndisturbed ==
  Serving => ~explEnabled /\ ~resumeTimer /\ ~sweepTimer /\ ~staleSweep

(* The coordinator implements the state model of its docstring.            *)
Policy == INSTANCE ModePolicy
ImplementsModePolicy == Policy!Spec

(* The mode and the permission agree: exploration is enabled exactly in    *)
(* EXPLORING, except after a late rejection, which moves an exploring      *)
(* coordinator to TARGET_FAILED without withdrawing the permission.        *)
ModeMatchesPermission ==
  /\ mode = "EXPLORING" => explEnabled
  /\ explEnabled => mode \in {"EXPLORING", "TARGET_FAILED"}
  /\ sweepTimer <=> mode = "PERCEPTION_SWEEP"

(* A goal the coordinator holds a handle to was accepted, its result has   *)
(* not been seen and its cancellation has not been requested, so a later   *)
(* cancel through the handle reaches the goal it is meant for.             *)
HandleIsUsable == navHandle # None => Usable(navHandle)

(* What makes the invariants above inductive under PromptAnswers: resuming *)
(* is scheduled only in an outcome mode, no request is unanswered during a *)
(* sweep, and so no sweep timer is forgotten.                              *)
TimersMatchMode ==
  /\ resumeTimer => mode \in Outcomes
  /\ mode = "PERCEPTION_SWEEP" => Unanswered = {}
  /\ ~staleSweep

(* Goals that drive the robot although the coordinator has learnt of their *)
(* acceptance and has asked for no cancellation.                           *)
KnownDriving == Driving \cap answered

(* "Disarming must cancel active goals and prevent new autonomous goals":  *)
(* no goal is left driving, once its acceptance is known, while disarmed.  *)
DisarmStopsGoals == ~armed => KnownDriving = {}

-----------------------------------------------------------------------------
(* Liveness, under FairSpec.                                               *)

(* Every query gets an outcome: the coordinator does not stay in           *)
(* SEMANTIC_QUERYING, whichever answers are outstanding.                   *)
QueriesEnd == mode = "SEMANTIC_QUERYING" ~> mode # "SEMANTIC_QUERYING"

(* With auto-resume, an outcome is followed by exploration, a new command  *)
(* or a disarm: late results only reschedule the resume timer.             *)
Settled == armed /\ mode \in Outcomes
OutcomesResume == AutoResume => (Settled ~> ~Settled)

(* A goal held in SEMANTIC_NAV under a running timeout does not hold the   *)
(* robot for ever, even if Nav2 never reports a result.                    *)
Held == mode = "SEMANTIC_NAV" /\ navHandle # None
HeldGoalEnds == Held /\ navTimer # None ~> ~Held
=============================================================================
