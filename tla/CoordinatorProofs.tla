-------------------------- MODULE CoordinatorProofs --------------------------
(***************************************************************************)
(* The safety of coordinator_node.py for every set of goals, every bound   *)
(* on outstanding commands and every value of the parameters.              *)
(***************************************************************************)
EXTENDS Coordinator, TLAPS

-----------------------------------------------------------------------------
(* What the operations on a goal of Nav2 preserve.                         *)

NavInv == NavTypeOK /\ NavConsistent

LEMMA NavInitEstablishes == NavInit => NavInv /\ Unanswered = {}
  BY DEF NavInit, NavInv, NavTypeOK, NavConsistent, GoalStatuses, Unanswered

(* The server's own steps neither answer nor free a goal, so they leave a  *)
(* held goal usable and the set of unanswered requests as it is.           *)
LEMMA ServerStepPreserves ==
  ASSUME NavInv, ServerStep
  PROVE  /\ NavInv'
         /\ Unanswered' = Unanswered
         /\ \A h \in Goals : Usable(h) => Usable(h)'
<1> USE DEF NavInv, NavTypeOK, NavConsistent, GoalStatuses, Terminal, Usable, Unanswered
<1>1. PICK g \in Goals : ServerAccept(g) \/ ServerReject(g) \/ ServerFinish(g) \/ ServerCancel(g)
  BY DEF ServerStep
<1>2. CASE ServerAccept(g)
  BY <1>2 DEF ServerAccept, Executing
<1>3. CASE ServerReject(g)
  BY <1>3 DEF ServerReject
<1>4. CASE ServerFinish(g)
  BY <1>4 DEF ServerFinish, Executing
<1>5. CASE ServerCancel(g)
  BY <1>5 DEF ServerCancel, Executing
<1> QED BY <1>1, <1>2, <1>3, <1>4, <1>5

(* A goal is sent under an identity nobody holds.                          *)
LEMMA SendGoalPreserves ==
  ASSUME NavInv, NEW g \in Goals, SendGoal(g)
  PROVE  NavInv' /\ \A h \in Goals : Usable(h) => Usable(h)'
  BY DEF NavInv, NavTypeOK, NavConsistent, GoalStatuses, Terminal, Usable, SendGoal

(* A consumed acceptance makes the goal usable: nobody can have asked to   *)
(* cancel it before.                                                       *)
LEMMA AcceptancePreserves ==
  ASSUME NavInv, NEW g \in Goals, ResponseReady(g), Accepted(g),
         answered' = answered \cup {g}, UNCHANGED <<goalStatus, cancelReq>>
  PROVE  NavInv' /\ Usable(g)' /\ Unanswered' \subseteq Unanswered
  BY DEF NavInv, NavTypeOK, NavConsistent, GoalStatuses, Terminal, Usable,
         ResponseReady, Accepted, Unanswered

LEMMA RejectionPreserves ==
  ASSUME NavInv, NEW g \in Goals, ResponseReady(g), ~Accepted(g), ConsumeRejection(g)
  PROVE  /\ NavInv'
         /\ g \in Unanswered
         /\ \A h \in Goals : Usable(h) => Usable(h)'
  BY DEF NavInv, NavTypeOK, NavConsistent, GoalStatuses, Terminal, Usable,
         ResponseReady, Accepted, ConsumeRejection, Unanswered

LEMMA ResultPreserves ==
  ASSUME NavInv, NEW g \in Goals, ResultReady(g), ConsumeResult(g)
  PROVE  NavInv' /\ Unanswered' = Unanswered
  BY DEF NavInv, NavTypeOK, NavConsistent, GoalStatuses, Terminal,
         ResultReady, ConsumeResult, Unanswered

(* Only goals whose acceptance has been seen may be asked to be cancelled. *)
LEMMA AskCancelPreserves ==
  ASSUME NavInv, NEW S, S \subseteq answered, AskCancel(S)
  PROVE  NavInv' /\ Unanswered' = Unanswered
  BY DEF NavInv, NavTypeOK, NavConsistent, AskCancel, Unanswered

-----------------------------------------------------------------------------
(* Type correctness, action by action and one group of variables at a time. *)

LEMMA NavTypeStep == TypeOK /\ Next => NavTypeOK'
<1> SUFFICES ASSUME TypeOK, Next PROVE NavTypeOK'
  OBVIOUS
<1> USE DEF TypeOK, NavTypeOK, GoalStatuses, Terminal, NodeTypeOK, navVars
<1>1. CASE Operator
  BY <1>1 DEF Operator, Arm, ArmRefused, Disarm, UserCommand, CancelNavGoal, AskCancel
<1>2. CASE Callback
  <2>1. CASE QueryResult \/ \E ready \in BOOLEAN : GoalPose(ready)
    BY <2>1 DEF QueryResult, GoalPose, SendGoal
  <2>2. CASE \E g \in Goals : GoalRejected(g) \/ GoalAccepted(g) \/ NavResult(g)
    BY <2>2 DEF GoalRejected, ConsumeRejection, GoalAccepted, NavResult, ConsumeResult
  <2>3. CASE \E t \in Goals : NavTimeout(t)
    BY <2>3 DEF NavTimeout, AskCancel, TimeoutApplies
  <2>4. CASE Resume \/ SweepCheck \/ SweepTick
    BY <2>4 DEF Resume, SweepCheck, SweepTick
  <2> QED BY <1>2, <2>1, <2>2, <2>3, <2>4 DEF Callback
<1>3. CASE Pipeline
  BY <1>3 DEF Pipeline, QueryAnswer, AdaptGoal
<1>4. CASE Nav2
  BY <1>4 DEF Nav2, ServerStep, ServerAccept, ServerReject, ServerFinish, ServerCancel, Executing
<1> QED BY <1>1, <1>2, <1>3, <1>4 DEF Next

LEMMA NodeTypeStep == TypeOK /\ Next => NodeTypeOK'
<1> SUFFICES ASSUME NodeTypeOK, Next PROVE NodeTypeOK'
  BY DEF TypeOK
<1> USE CoordinatorConstants DEF NodeTypeOK, Modes, timerVars, sweepVars, StartExploring,
      ScheduleResume, Fail, CancelResume, CancelNavTimer, CancelNavGoal
<1>1. CASE Operator
  BY <1>1 DEF Operator, Arm, ArmRefused, Disarm, UserCommand
<1>2. CASE Callback
  <2>1. CASE QueryResult \/ \E ready \in BOOLEAN : GoalPose(ready)
    BY <2>1 DEF QueryResult, GoalPose
  <2>2. CASE \E g \in Goals : GoalRejected(g) \/ GoalAccepted(g) \/ NavResult(g)
    BY <2>2 DEF GoalRejected, GoalAccepted, NavResult
  <2>3. CASE \E t \in Goals : NavTimeout(t)
    BY <2>3 DEF NavTimeout
  <2>4. CASE Resume \/ SweepTick
    BY <2>4 DEF Resume, SweepTick
  <2>5. CASE SweepCheck
    <3>1. idleCount' \in 0..IdleChecks
      BY <2>5 DEF SweepCheck
    <3> QED BY <2>5, <3>1 DEF SweepCheck, StartSweep
  <2> QED BY <1>2, <2>1, <2>2, <2>3, <2>4, <2>5 DEF Callback
<1>3. CASE Pipeline \/ Nav2
  BY <1>3 DEF Pipeline, QueryAnswer, AdaptGoal, Nav2, nodeVars
<1> QED BY <1>1, <1>2, <1>3 DEF Next

LEMMA PipelineTypeStep == TypeOK /\ Next => PipelineTypeOK'
<1> SUFFICES ASSUME PipelineTypeOK, Next PROVE PipelineTypeOK'
  BY DEF TypeOK
<1> USE DEF PipelineTypeOK, pipelineVars
<1>1. CASE Operator
  BY <1>1 DEF Operator, Arm, ArmRefused, Disarm, UserCommand
<1>2. CASE Callback
  BY <1>2 DEF Callback, QueryResult, GoalPose, GoalRejected, GoalAccepted, NavResult,
              NavTimeout, Resume, SweepCheck, SweepTick
<1>3. CASE Pipeline
  BY <1>3 DEF Pipeline, QueryAnswer, AdaptGoal
<1>4. CASE Nav2
  BY <1>4 DEF Nav2
<1> QED BY <1>1, <1>2, <1>3, <1>4 DEF Next

LEMMA TypeInit == Init => TypeOK
<1> SUFFICES ASSUME Init PROVE TypeOK
  OBVIOUS
<1>1. NavTypeOK
  BY DEF Init, NavInit, NavTypeOK, GoalStatuses
<1>2. NodeTypeOK
  <2>1. armed \in BOOLEAN /\ explEnabled \in BOOLEAN /\ mode \in Modes
    BY CoordinatorConstants DEF Init, Modes
  <2>2. idleCount \in 0..IdleChecks
    BY CoordinatorConstants DEF Init
  <2> QED BY <2>1, <2>2 DEF Init, NodeTypeOK
<1>3. PipelineTypeOK
  BY DEF Init, PipelineTypeOK
<1> QED BY <1>1, <1>2, <1>3 DEF TypeOK

LEMMA TypeStep == TypeOK /\ [Next]_vars => TypeOK'
<1>1. TypeOK /\ UNCHANGED vars => TypeOK'
  BY DEF TypeOK, NavTypeOK, NodeTypeOK, PipelineTypeOK, vars, nodeVars, timerVars, sweepVars,
         pipelineVars, navVars
<1> QED BY <1>1, NavTypeStep, NodeTypeStep, PipelineTypeStep DEF TypeOK

(* Every variable keeps its type.                                          *)
THEOREM TypeCorrect == Spec => []TypeOK
  BY TypeInit, TypeStep, PTL DEF Spec

-----------------------------------------------------------------------------
(* The safety of the node.  The invariants the runs check are inductive    *)
(* together with TimersMatchMode and the consistency of Nav2's state;      *)
(* what relates sweeps and modes needs prompt answers.                     *)

Agrees == ModeMatchesPermission /\ TimersMatchMode
Quiet == DisarmedIsQuiet /\ (PromptAnswers => Agrees)
IInv == TypeOK /\ NavConsistent /\ HandleIsUsable /\ Quiet

LEMMA InitEstablishes == Init => IInv
<1> SUFFICES ASSUME Init PROVE IInv
  OBVIOUS
<1>1. NavInv /\ Unanswered = {}
  BY NavInitEstablishes DEF Init
<1>2. HandleIsUsable
  BY DEF Init, HandleIsUsable
<1>3. Quiet
  BY <1>1, CoordinatorConstants DEF Init, Quiet, Agrees, DisarmedIsQuiet, ModeMatchesPermission,
                                      TimersMatchMode
<1> QED BY <1>1, <1>2, <1>3, TypeInit DEF IInv, NavInv

(* Nav2's state stays consistent and the handle usable.  Cancelling goes   *)
(* through the handle, which is dropped at once; a result drops it, too.   *)
NavSafe == NavInv /\ HandleIsUsable

LEMMA NavSafeStep == IInv /\ Next => NavSafe'
<1> SUFFICES ASSUME IInv, Next PROVE NavSafe'
  OBVIOUS
<1>0. NavInv /\ HandleIsUsable /\ navHandle \in Goals \cup {None} /\ None \notin Goals
  BY CoordinatorConstants DEF IInv, NavInv, TypeOK, NodeTypeOK
<1>a. UNCHANGED <<navHandle, navVars>> => NavSafe'
  BY <1>0 DEF NavSafe, NavInv, NavTypeOK, NavConsistent, HandleIsUsable, Usable, navVars
<1>b. ASSUME navHandle' = None, AskCancel({navHandle} \ {None}) PROVE NavSafe'
  <2>1. {navHandle} \ {None} \subseteq answered
    BY <1>0 DEF HandleIsUsable, Usable
  <2> QED BY <1>0, <1>b, <2>1, AskCancelPreserves DEF NavSafe, HandleIsUsable
<1>1. CASE Operator
  BY <1>1, <1>a, <1>b DEF Operator, Arm, ArmRefused, Disarm, UserCommand, CancelNavGoal, navVars
<1>2. CASE QueryResult \/ Resume \/ SweepCheck \/ SweepTick
  BY <1>2, <1>a DEF QueryResult, Resume, SweepCheck, SweepTick
<1>3. ASSUME NEW ready \in BOOLEAN, GoalPose(ready) PROVE NavSafe'
  <2>1. CASE UNCHANGED navVars
    BY <1>3, <1>a, <2>1 DEF GoalPose
  <2>2. ASSUME NEW g \in Goals, SendGoal(g) PROVE NavSafe'
    BY <1>0, <1>3, <2>2, SendGoalPreserves DEF GoalPose, NavSafe, HandleIsUsable
  <2> QED BY <1>3, <2>1, <2>2 DEF GoalPose
<1>4. ASSUME NEW g \in Goals, GoalRejected(g) PROVE NavSafe'
  BY <1>0, <1>4, RejectionPreserves DEF GoalRejected, NavSafe, HandleIsUsable
<1>5. ASSUME NEW g \in Goals, GoalAccepted(g) PROVE NavSafe'
  BY <1>0, <1>5, AcceptancePreserves DEF GoalAccepted, NavSafe, HandleIsUsable
<1>6. ASSUME NEW g \in Goals, NavResult(g) PROVE NavSafe'
  BY <1>0, <1>6, ResultPreserves DEF NavResult, NavSafe, HandleIsUsable
<1>7. ASSUME NEW t \in Goals, NavTimeout(t) PROVE NavSafe'
  <2>1. CASE TimeoutApplies
    <3>1. {navHandle} = {navHandle} \ {None}
      BY <2>1 DEF TimeoutApplies
    <3> QED BY <1>7, <1>b, <2>1, <3>1 DEF NavTimeout
  <2>2. CASE ~TimeoutApplies
    BY <1>7, <1>a, <2>2 DEF NavTimeout
  <2> QED BY <2>1, <2>2
<1>8. CASE Pipeline
  BY <1>8, <1>a DEF Pipeline, QueryAnswer, AdaptGoal, nodeVars
<1>9. CASE Nav2
  BY <1>0, <1>9, ServerStepPreserves DEF Nav2, nodeVars, NavSafe, HandleIsUsable
<1> QED BY <1>1, <1>2, <1>3, <1>4, <1>5, <1>6, <1>7, <1>8, <1>9 DEF Next, Callback

(* Requests wait for an answer only from GoalPose on, which needs          *)
(* SEMANTIC_NAV; nothing else adds one.                                    *)
LEMMA UnansweredStep ==
  IInv /\ Next => Unanswered' \subseteq Unanswered \/ mode' = "SEMANTIC_NAV"
<1> SUFFICES ASSUME IInv, Next PROVE Unanswered' \subseteq Unanswered \/ mode' = "SEMANTIC_NAV"
  OBVIOUS
<1>0. NavInv
  BY DEF IInv, NavInv, TypeOK
<1>a. UNCHANGED navVars => Unanswered' = Unanswered
  BY DEF Unanswered, navVars
<1>b. \A S : AskCancel(S) => Unanswered' = Unanswered
  BY DEF AskCancel, Unanswered
<1>1. CASE Operator
  BY <1>1, <1>a, <1>b DEF Operator, Arm, ArmRefused, Disarm, UserCommand, CancelNavGoal
<1>2. CASE QueryResult \/ Resume \/ SweepCheck \/ SweepTick
  BY <1>2, <1>a DEF QueryResult, Resume, SweepCheck, SweepTick
<1>3. CASE \E ready \in BOOLEAN : GoalPose(ready)
  BY <1>3, <1>a DEF GoalPose, TakesGoalPose
<1>4. ASSUME NEW g \in Goals, GoalRejected(g) PROVE Unanswered' \subseteq Unanswered
  BY <1>4 DEF GoalRejected, ConsumeRejection, Unanswered
<1>5. ASSUME NEW g \in Goals, GoalAccepted(g) PROVE Unanswered' \subseteq Unanswered
  BY <1>5 DEF GoalAccepted, Unanswered
<1>6. ASSUME NEW g \in Goals, NavResult(g) PROVE Unanswered' = Unanswered
  BY <1>0, <1>6, ResultPreserves DEF NavResult
<1>7. CASE \E t \in Goals : NavTimeout(t)
  BY <1>7, <1>a, <1>b DEF NavTimeout
<1>8. CASE Pipeline
  BY <1>8, <1>a DEF Pipeline, QueryAnswer, AdaptGoal
<1>9. CASE Nav2
  BY <1>0, <1>9, ServerStepPreserves DEF Nav2
<1> QED BY <1>1, <1>2, <1>3, <1>4, <1>5, <1>6, <1>7, <1>8, <1>9 DEF Next, Callback

(* Disarming clears what could move the robot, and only an armed           *)
(* coordinator sets it again.                                              *)
LEMMA DisarmedStep == IInv /\ Next => DisarmedIsQuiet'
<1> SUFFICES ASSUME NodeTypeOK, DisarmedIsQuiet, Next PROVE DisarmedIsQuiet'
  BY DEF IInv, TypeOK, Quiet
<1> USE DEF DisarmedIsQuiet, NodeTypeOK, StartExploring, ScheduleResume, Fail, CancelResume, sweepVars
<1>1. CASE Operator
  BY <1>1 DEF Operator, Arm, ArmRefused, Disarm, UserCommand
<1>2. CASE QueryResult \/ Resume \/ SweepCheck \/ SweepTick
  BY <1>2 DEF QueryResult, Resume, SweepCheck, StartSweep, SweepTick
<1>3. CASE \E ready \in BOOLEAN : GoalPose(ready)
  BY <1>3 DEF GoalPose
<1>4. CASE \E g \in Goals : GoalRejected(g) \/ GoalAccepted(g) \/ NavResult(g) \/ NavTimeout(g)
  BY <1>4 DEF GoalRejected, GoalAccepted, NavResult, NavTimeout
<1>5. CASE Pipeline \/ Nav2
  BY <1>5 DEF Pipeline, QueryAnswer, AdaptGoal, Nav2, nodeVars
<1> QED BY <1>1, <1>2, <1>3, <1>4, <1>5 DEF Next, Callback

LEMMA AgreesStep == PromptAnswers /\ IInv /\ Next => Agrees'
<1> SUFFICES ASSUME PromptAnswers, IInv, Next PROVE Agrees'
  OBVIOUS
<1>0. NodeTypeOK /\ Agrees /\ DisarmedIsQuiet
  BY DEF IInv, TypeOK, Quiet
<1>u. Unanswered' \subseteq Unanswered \/ mode' = "SEMANTIC_NAV"
  BY UnansweredStep
<1> USE DEF Agrees, ModeMatchesPermission, TimersMatchMode, NodeTypeOK, Modes,
      Outcomes, StartExploring, ScheduleResume, Fail, CancelResume, sweepVars
<1>1. CASE Operator
  BY <1>0, <1>1 DEF DisarmedIsQuiet, Operator, Arm, ArmRefused, Disarm, UserCommand
<1>2. CASE QueryResult
  BY <1>0, <1>2, <1>u DEF QueryResult, AwaitsAnswer
<1>3. CASE \E ready \in BOOLEAN : GoalPose(ready)
  BY <1>0, <1>3, <1>u DEF GoalPose, TakesGoalPose
<1>4. ASSUME NEW g \in Goals, GoalRejected(g) PROVE Agrees'
  <2>1. g \in Unanswered
    BY <1>4 DEF GoalRejected, ResponseReady, Unanswered
  <2>2. mode # "PERCEPTION_SWEEP"
    BY <1>0, <2>1
  <2> QED BY <1>0, <1>4, <2>2 DEF GoalRejected
<1>5. ASSUME NEW g \in Goals, GoalAccepted(g) PROVE Agrees'
  BY <1>0, <1>5, <1>u DEF GoalAccepted
<1>6. ASSUME NEW g \in Goals, NavResult(g) PROVE Agrees'
  BY <1>0, <1>6, <1>u DEF NavResult
<1>7. ASSUME NEW t \in Goals, NavTimeout(t) PROVE Agrees'
  BY <1>0, <1>7, <1>u DEF NavTimeout, TimeoutApplies
<1>8. CASE Resume
  BY <1>0, <1>8 DEF Resume
<1>9. CASE SweepCheck
  BY <1>0, <1>9, <1>u DEF SweepCheck, SweepDue, StartSweep, navVars, Unanswered
<1>10. CASE SweepTick
  BY <1>0, <1>10 DEF DisarmedIsQuiet, SweepTick
<1>11. CASE Pipeline \/ Nav2
  BY <1>0, <1>11, <1>u DEF Pipeline, QueryAnswer, AdaptGoal, Nav2, nodeVars
<1> QED BY <1>1, <1>2, <1>3, <1>4, <1>5, <1>6, <1>7, <1>8, <1>9, <1>10, <1>11 DEF Next, Callback

LEMMA QuietStep == IInv /\ Next => Quiet'
  BY DisarmedStep, AgreesStep DEF Quiet

LEMMA Inductive == IInv /\ [Next]_vars => IInv'
<1>1. IInv /\ Next => IInv'
  BY TypeStep, NavSafeStep, QuietStep DEF IInv, NavSafe, NavInv
<1>2. IInv /\ UNCHANGED vars => IInv'
  <2> SUFFICES ASSUME IInv, UNCHANGED vars PROVE IInv'
    OBVIOUS
  <2>1. TypeOK'
    BY TypeStep DEF IInv
  <2>2. NavConsistent' /\ HandleIsUsable'
    BY DEF IInv, NavConsistent, HandleIsUsable, Usable, vars, nodeVars, navVars
  <2>3. Quiet'
    BY DEF IInv, Quiet, Agrees, DisarmedIsQuiet, ModeMatchesPermission, TimersMatchMode,
           Unanswered, vars, nodeVars, sweepVars, navVars
  <2> QED BY <2>1, <2>2, <2>3 DEF IInv
<1> QED BY <1>1, <1>2

LEMMA Invariance == Spec => []IInv
  BY InitEstablishes, Inductive, PTL DEF Spec

(* While disarmed nothing of the coordinator's own can move the robot.     *)
THEOREM QuietWhenDisarmed == Spec => []DisarmedIsQuiet
<1>1. IInv => DisarmedIsQuiet
  BY DEF IInv, Quiet
<1> QED BY <1>1, Invariance, PTL

(* Mode, permission and sweep agree at all times.                          *)
THEOREM ModeAndPermissionAgree == PromptAnswers => (Spec => []ModeMatchesPermission)
<1> SUFFICES ASSUME PromptAnswers PROVE Spec => []ModeMatchesPermission
  OBVIOUS
<1>1. IInv => ModeMatchesPermission
  BY DEF IInv, Quiet, Agrees
<1> QED BY <1>1, Invariance, PTL

(* No timer or permission left over from before interferes with a command  *)
(* that is being served.                                                   *)
THEOREM ServingIsUndisturbed == PromptAnswers => (Spec => []ServingUndisturbed)
<1> SUFFICES ASSUME PromptAnswers PROVE Spec => []ServingUndisturbed
  OBVIOUS
<1>1. IInv => ServingUndisturbed
  BY DEF IInv, Quiet, Agrees, ModeMatchesPermission, TimersMatchMode, Outcomes, ServingUndisturbed,
         Serving
<1> QED BY <1>1, Invariance, PTL

(* Every cancel through the handle reaches a goal that was accepted, whose *)
(* result is unseen and which nobody has cancelled.                        *)
THEOREM HandleStaysUsable == Spec => []HandleIsUsable
<1>1. IInv => HandleIsUsable
  BY DEF IInv
<1> QED BY <1>1, Invariance, PTL

-----------------------------------------------------------------------------
(* The node implements the state model of its docstring: each callback is  *)
(* a step of ModePolicy or leaves mode, arming and permission alone.       *)

LEMMA PolicyInit == Init => Policy!Init
  BY CoordinatorConstants DEF Init, Policy!Init

LEMMA PolicyStep == PromptAnswers /\ IInv /\ [Next]_vars => [Policy!Next]_Policy!vars
<1> SUFFICES ASSUME PromptAnswers, IInv, [Next]_vars PROVE [Policy!Next]_Policy!vars
  OBVIOUS
<1>0. NodeTypeOK /\ DisarmedIsQuiet /\ Agrees
  BY DEF IInv, TypeOK, Quiet
<1> USE DEF Policy!Next, Policy!vars
<1>1. ASSUME NEW ready \in BOOLEAN, Arm(ready) PROVE Policy!Arm
  BY <1>1 DEF Arm, StartExploring, Policy!Arm, Policy!Explore
<1>2. ASSUME NEW ready \in BOOLEAN, ArmRefused(ready) PROVE UNCHANGED Policy!vars
  BY <1>0, <1>2 DEF ArmRefused, DisarmedIsQuiet, NodeTypeOK
<1>3. Disarm => Policy!Disarm
  BY DEF Disarm, Policy!Disarm
<1>4. UserCommand => Policy!Command
  BY DEF UserCommand, Policy!Command
<1>5. QueryResult => Policy!Select \/ Policy!GiveUp \/ UNCHANGED Policy!vars
  BY DEF QueryResult, AwaitsAnswer, Fail, Policy!Select, Policy!GiveUp
<1>6. ASSUME NEW ready \in BOOLEAN, GoalPose(ready)
      PROVE  Policy!GiveUp \/ UNCHANGED Policy!vars
  BY <1>6 DEF GoalPose, TakesGoalPose, Fail, Policy!GiveUp
<1>7. ASSUME NEW g \in Goals, GoalRejected(g) PROVE Policy!GiveUp
  <2>1. g \in Unanswered
    BY <1>7 DEF GoalRejected, ResponseReady, Unanswered
  <2>2. mode # "PERCEPTION_SWEEP"
    BY <1>0, <2>1 DEF Agrees, TimersMatchMode
  <2> QED BY <1>7, <2>2 DEF GoalRejected, Fail, Policy!GiveUp
<1>8. ASSUME NEW g \in Goals, GoalAccepted(g) PROVE UNCHANGED Policy!vars
  BY <1>8 DEF GoalAccepted
<1>9. ASSUME NEW g \in Goals, NavResult(g)
      PROVE  Policy!Arrive \/ Policy!GiveUp \/ UNCHANGED Policy!vars
  BY <1>9 DEF NavResult, Policy!Arrive, Policy!GiveUp
<1>10. ASSUME NEW t \in Goals, NavTimeout(t) PROVE Policy!GiveUp \/ UNCHANGED Policy!vars
  BY <1>10 DEF NavTimeout, TimeoutApplies, Fail, Policy!GiveUp
<1>11. Resume => Policy!Resume
  BY <1>0 DEF Resume, StartExploring, DisarmedIsQuiet, Agrees, TimersMatchMode, NodeTypeOK,
              Outcomes, Policy!Resume, Policy!Explore, Policy!Outcomes
<1>12. SweepCheck => Policy!BeginSweep \/ UNCHANGED Policy!vars
  BY DEF SweepCheck, SweepDue, StartSweep, Policy!BeginSweep
<1>13. SweepTick => Policy!EndSweep
  BY <1>0 DEF SweepTick, StartExploring, DisarmedIsQuiet, Agrees, TimersMatchMode, ModeMatchesPermission, NodeTypeOK,
              Policy!EndSweep, Policy!Explore
<1>14. Pipeline \/ Nav2 \/ UNCHANGED vars => UNCHANGED Policy!vars
  BY DEF Pipeline, QueryAnswer, AdaptGoal, Nav2, vars, nodeVars
<1> QED
  BY <1>1, <1>2, <1>3, <1>4, <1>5, <1>6, <1>7, <1>8, <1>9, <1>10, <1>11, <1>12, <1>13, <1>14
  DEF Next, Operator, Callback

(* The coordinator implements ModePolicy.                                  *)
THEOREM CoordinatorImplementsPolicy == PromptAnswers => (Spec => ImplementsModePolicy)
<1> SUFFICES ASSUME PromptAnswers PROVE Spec => ImplementsModePolicy
  OBVIOUS
<1> QED
  BY PolicyInit, PolicyStep, Invariance, PTL DEF Spec, ImplementsModePolicy, Policy!Spec
=============================================================================
