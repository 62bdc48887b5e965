---------------------- MODULE SemanticNavSystemProofs ----------------------
(***************************************************************************)
(* The two nodes and the topic between them, for all goals, places and     *)
(* parameters of either, and any length of the topic: exploration is       *)
(* paused while a command is served, and given back with EXPLORING.        *)
(***************************************************************************)
EXTENDS SemanticNavSystem, SequenceTheorems, TLAPS

-----------------------------------------------------------------------------
(* The inductive invariant.                                                *)

(* The permission the coordinator gave last is the last one on its way, or *)
(* has arrived.                                                            *)
TopicCarriesPermission ==
  /\ permission \in Seq(BOOLEAN)
  /\ explEnabled = IF permission = <<>> THEN enabled ELSE permission[Len(permission)]

CoordinatorTypeOK ==
  /\ mode \in C!Modes
  /\ armed \in BOOLEAN /\ explEnabled \in BOOLEAN
  /\ resumeTimer \in BOOLEAN /\ sweepTimer \in BOOLEAN /\ staleSweep \in BOOLEAN
  /\ semStatus \in [SemanticGoals -> C!GoalStatuses]

CoordinatorAgrees ==
  CoordinatorTypeOK /\ C!DisarmedIsQuiet /\ C!ModeMatchesPermission /\ C!TimersMatchMode

Inv == TopicCarriesPermission /\ CoordinatorAgrees /\ G!DisabledIsIdle

LEMMA InvStarts == Init => Inv
<1> SUFFICES ASSUME Init PROVE Inv
  OBVIOUS
<1> USE DEF Init, C!Init, C!NavInit, G!Init
<1>1. InitiallyArmed \in BOOLEAN
  BY NodesConstants DEF C!CoordinatorConstants
<1>2. C!Unanswered = {}
  BY DEF C!Unanswered
<1>3. TopicCarriesPermission
  BY <1>1 DEF TopicCarriesPermission
<1>4. CoordinatorTypeOK
  BY <1>1 DEF CoordinatorTypeOK, C!Modes, C!GoalStatuses
<1>5. C!DisarmedIsQuiet /\ C!ModeMatchesPermission /\ C!TimersMatchMode
  BY <1>1, <1>2 DEF C!DisarmedIsQuiet, C!ModeMatchesPermission, C!TimersMatchMode
<1>6. G!DisabledIsIdle
  BY DEF G!DisabledIsIdle
<1> QED BY <1>3, <1>4, <1>5, <1>6 DEF Inv, CoordinatorAgrees

-----------------------------------------------------------------------------
(* Steps of the coordinator.                                               *)

(* A request stays unanswered, or is sent in SEMANTIC_NAV.                 *)
LEMMA RequestsAreSentServing ==
  ASSUME CoordinatorTypeOK, C!Operator \/ C!Callback \/ C!Pipeline
  PROVE  /\ semStatus' \in [SemanticGoals -> C!GoalStatuses]
         /\ C!Unanswered' \subseteq C!Unanswered \/ mode' = "SEMANTIC_NAV"
<1> USE DEF CoordinatorTypeOK, C!Unanswered, C!GoalStatuses, C!navVars, C!AskCancel
<1>1. CASE C!Operator
  BY <1>1 DEF C!Operator, C!Arm, C!ArmRefused, C!Disarm, C!UserCommand, C!CancelNavGoal
<1>2. CASE C!QueryResult \/ C!Resume \/ C!SweepCheck \/ C!SweepTick
  BY <1>2 DEF C!QueryResult, C!Resume, C!SweepCheck, C!SweepTick
<1>3. CASE \E ready \in BOOLEAN : C!GoalPose(ready)
  BY <1>3 DEF C!GoalPose, C!TakesGoalPose, C!SendGoal
<1>4. CASE \E g \in SemanticGoals : C!GoalRejected(g)
  BY <1>4 DEF C!GoalRejected, C!ConsumeRejection
<1>5. CASE \E g \in SemanticGoals : C!GoalAccepted(g)
  BY <1>5 DEF C!GoalAccepted
<1>6. CASE \E g \in SemanticGoals : C!NavResult(g)
  BY <1>6 DEF C!NavResult, C!ConsumeResult
<1>7. CASE \E t \in SemanticGoals : C!NavTimeout(t)
  BY <1>7 DEF C!NavTimeout
<1>8. CASE C!Pipeline
  BY <1>8 DEF C!Pipeline, C!QueryAnswer, C!AdaptGoal
<1> QED BY <1>1, <1>2, <1>3, <1>4, <1>5, <1>6, <1>7, <1>8 DEF C!Callback

LEMMA CoordinatorKeepsAgreeing ==
  ASSUME PromptAnswers, CoordinatorAgrees, C!Operator \/ C!Callback \/ C!Pipeline
  PROVE  CoordinatorAgrees'
<1>0. CoordinatorTypeOK /\ C!DisarmedIsQuiet /\ C!ModeMatchesPermission /\ C!TimersMatchMode
  BY DEF CoordinatorAgrees
<1>u. /\ semStatus' \in [SemanticGoals -> C!GoalStatuses]
      /\ C!Unanswered' \subseteq C!Unanswered \/ mode' = "SEMANTIC_NAV"
  BY <1>0, RequestsAreSentServing
<1> USE DEF CoordinatorAgrees, CoordinatorTypeOK, C!DisarmedIsQuiet, C!ModeMatchesPermission,
            C!TimersMatchMode, C!Modes, C!Outcomes, C!StartExploring, C!ScheduleResume,
            C!Fail, C!CancelResume, C!sweepVars
<1>1. CASE C!Operator
  <2>1. CASE \E ready \in BOOLEAN : C!Arm(ready)
    BY <1>0, <1>u, <2>1 DEF C!Arm
  <2>2. CASE \E ready \in BOOLEAN : C!ArmRefused(ready)
    <3>1. ~armed /\ explEnabled' = FALSE /\ UNCHANGED <<mode, armed, resumeTimer, sweepTimer, staleSweep>>
      BY <2>2 DEF C!ArmRefused
    <3>2. mode # "EXPLORING"
      BY <1>0, <3>1
    <3> QED BY <1>0, <1>u, <3>1, <3>2
  <2>3. CASE C!Disarm
    BY <1>0, <1>u, <2>3 DEF C!Disarm
  <2>4. CASE C!UserCommand
    BY <1>0, <1>u, <2>4 DEF C!UserCommand
  <2> QED BY <1>1, <2>1, <2>2, <2>3, <2>4 DEF C!Operator
<1>2. CASE C!QueryResult
  BY <1>0, <1>2, <1>u DEF C!QueryResult, C!AwaitsAnswer
<1>3. CASE \E ready \in BOOLEAN : C!GoalPose(ready)
  BY <1>0, <1>3, <1>u DEF C!GoalPose, C!TakesGoalPose
<1>4. ASSUME NEW g \in SemanticGoals, C!GoalRejected(g) PROVE CoordinatorAgrees'
  <2>1. g \in C!Unanswered
    BY <1>4 DEF C!GoalRejected, C!ResponseReady, C!Unanswered
  <2>2. mode # "PERCEPTION_SWEEP"
    BY <1>0, <2>1
  <2> QED BY <1>0, <1>4, <1>u, <2>2 DEF C!GoalRejected
<1>5. ASSUME NEW g \in SemanticGoals, C!GoalAccepted(g) PROVE CoordinatorAgrees'
  BY <1>0, <1>5, <1>u DEF C!GoalAccepted
<1>6. ASSUME NEW g \in SemanticGoals, C!NavResult(g) PROVE CoordinatorAgrees'
  BY <1>0, <1>6, <1>u DEF C!NavResult
<1>7. ASSUME NEW t \in SemanticGoals, C!NavTimeout(t) PROVE CoordinatorAgrees'
  BY <1>0, <1>7, <1>u DEF C!NavTimeout, C!TimeoutApplies
<1>8. CASE C!Resume
  BY <1>0, <1>8, <1>u DEF C!Resume
<1>9. CASE C!SweepCheck
  <2>1. C!Unanswered' = C!Unanswered /\ semStatus' = semStatus
    BY <1>9 DEF C!SweepCheck, C!navVars, C!Unanswered
  <2>2. CASE C!SweepDue /\ C!StartSweep
    <3>1. UNCHANGED <<armed, resumeTimer>>
      BY <1>9 DEF C!SweepCheck
    <3>2. armed /\ mode = "EXPLORING" /\ explEnabled' = FALSE
      BY <1>9, <2>2 DEF C!SweepCheck, C!SweepDue, C!StartSweep
    <3>3. ~resumeTimer /\ ~sweepTimer /\ ~staleSweep
      BY <1>0, <3>2
    <3>4. mode' = "PERCEPTION_SWEEP" /\ sweepTimer' = TRUE /\ C!Unanswered = {}
      BY <2>2 DEF C!StartSweep
    <3>5. staleSweep' = FALSE
      BY <2>2, <3>3 DEF C!StartSweep
    <3> QED BY <2>1, <3>1, <3>2, <3>3, <3>4, <3>5
  <2>3. CASE UNCHANGED <<mode, explEnabled, sweepTimer, staleSweep>>
    BY <1>0, <1>9, <2>1, <2>3 DEF C!SweepCheck
  <2>4. (C!SweepDue /\ C!StartSweep) \/ UNCHANGED <<mode, explEnabled, sweepTimer, staleSweep>>
    BY <1>9 DEF C!SweepCheck
  <2> QED BY <2>2, <2>3, <2>4
<1>10. CASE C!SweepTick
  BY <1>0, <1>10, <1>u DEF C!SweepTick
<1>11. CASE C!Pipeline
  BY <1>0, <1>11, <1>u DEF C!Pipeline, C!QueryAnswer, C!AdaptGoal, C!nodeVars
<1> QED BY <1>1, <1>2, <1>3, <1>4, <1>5, <1>6, <1>7, <1>8, <1>9, <1>10, <1>11 DEF C!Callback

(* Publishing keeps the topic in step with the permission.                 *)
LEMMA PublishKeepsTopic ==
  ASSUME TopicCarriesPermission, explEnabled' \in BOOLEAN, Publish, UNCHANGED enabled
  PROVE  TopicCarriesPermission'
<1>1. CASE explEnabled' = explEnabled
  BY <1>1 DEF Publish, TopicCarriesPermission
<1>2. CASE explEnabled' # explEnabled
  <2>1. permission' = Append(permission, explEnabled') /\ permission \in Seq(BOOLEAN)
    BY <1>2 DEF Publish, TopicCarriesPermission
  <2>2. /\ permission' \in Seq(BOOLEAN) /\ permission' # <<>>
        /\ permission'[Len(permission')] = explEnabled'
    BY <2>1
  <2> QED BY <2>2 DEF TopicCarriesPermission
<1> QED BY <1>1, <1>2

(* A step that changes nothing of the coordinator but answers or aborts    *)
(* its requests at Nav2.                                                   *)
LEMMA ServerKeepsAgreeing ==
  ASSUME CoordinatorAgrees, UNCHANGED <<coordVars, semAnswered>>,
         semStatus' \in [SemanticGoals -> C!GoalStatuses],
         \A g \in SemanticGoals : semStatus[g] = "free" => semStatus'[g] = "free"
  PROVE  CoordinatorAgrees'
<1>1. C!Unanswered' \subseteq C!Unanswered
  BY DEF C!Unanswered, coordVars
<1> QED BY <1>1 DEF CoordinatorAgrees, CoordinatorTypeOK, C!DisarmedIsQuiet, C!ModeMatchesPermission,
                    C!TimersMatchMode, coordVars

-----------------------------------------------------------------------------
(* Steps of goal assignment: a disabled node stays idle.                   *)
LEMMA AssignmentStaysIdle ==
  ASSUME G!DisabledIsIdle, G!Topics \/ G!Timer \/ G!Answers
  PROVE  G!DisabledIsIdle' /\ enabled' = enabled
<1> USE DEF G!DisabledIsIdle, G!inputVars, G!CancelCurrentGoal
<1>1. CASE G!Topics
  BY <1>1 DEF G!Topics, G!WarmupComplete, G!Frontiers
<1>2. CASE G!Timer
  BY <1>2 DEF G!Timer, G!TickDisabled, G!TickExpired, G!TickWarmupExpired, G!TickDispatch,
              G!MayDispatch
<1>3. CASE G!Answers
  BY <1>3 DEF G!Answers, G!GoalAccepted, G!GoalRejected, G!Result
<1> QED BY <1>1, <1>2, <1>3

-----------------------------------------------------------------------------
LEMMA InvStep == PromptAnswers /\ Inv /\ [Next]_vars => Inv'
<1> SUFFICES ASSUME PromptAnswers, Inv, [Next]_vars PROVE Inv'
  OBVIOUS
<1>0. TopicCarriesPermission /\ CoordinatorAgrees /\ G!DisabledIsIdle
  BY DEF Inv
<1>1. CASE CoordinatorStep
  <2>1. CoordinatorAgrees'
    BY <1>0, <1>1, CoordinatorKeepsAgreeing DEF CoordinatorStep
  <2>2. explEnabled' \in BOOLEAN
    BY <2>1 DEF CoordinatorAgrees, CoordinatorTypeOK
  <2>3. Publish /\ UNCHANGED <<enabled, state, handle>>
    BY <1>1 DEF CoordinatorStep, assignVars
  <2>4. TopicCarriesPermission'
    BY <1>0, <2>2, <2>3, PublishKeepsTopic
  <2> QED BY <1>0, <2>1, <2>3, <2>4 DEF Inv, G!DisabledIsIdle
<1>2. CASE Deliver
  <2>1. /\ permission \in Seq(BOOLEAN) /\ permission # <<>>
        /\ permission' = Tail(permission) /\ enabled' = Head(permission)
        /\ explEnabled' = explEnabled /\ explEnabled = permission[Len(permission)]
    BY <1>0, <1>2 DEF Deliver, G!ExplorationEnabled, coordVars, TopicCarriesPermission
  <2>2. TopicCarriesPermission'
    <3>1. permission' \in Seq(BOOLEAN) /\ Len(permission') = Len(permission) - 1
      BY <2>1
    <3>2. CASE Len(permission) = 1
      BY <2>1, <3>1, <3>2 DEF TopicCarriesPermission
    <3>3. CASE Len(permission) # 1
      <4> DEFINE n == Len(permission)
      <4>0. n \in Nat /\ n > 1
        <5>1. n \in Nat \ {0} /\ n # 1
          BY <2>1, <3>3, EmptySeq
        <5> HIDE DEF n
        <5> QED BY <5>1
      <4>1. permission' # <<>> /\ Len(permission') = n - 1
        <5>1. Len(permission') = n - 1
          BY <3>1
        <5>2. Len(permission') # 0
          BY <4>0, <5>1
        <5> QED BY <3>1, <5>1, <5>2
      <4>2. Tail(permission)[n - 1] = permission[n]
        <5>1. n - 1 \in 1..Len(Tail(permission)) /\ (n - 1) + 1 = n
          BY <2>1, <3>1, <4>0
        <5> HIDE DEF n
        <5> QED BY <2>1, <5>1
      <4>3. permission'[Len(permission')] = explEnabled'
        BY <2>1, <4>1, <4>2
      <4> QED BY <3>1, <4>1, <4>3 DEF TopicCarriesPermission
    <3> QED BY <3>2, <3>3
  <2>3. G!DisabledIsIdle'
    BY <1>0, <1>2 DEF Deliver, G!ExplorationEnabled, G!CancelCurrentGoal, G!DisabledIsIdle
  <2>4. CoordinatorAgrees'
    BY <1>0, <1>2 DEF Deliver, coordVars, coordNavVars, CoordinatorAgrees, CoordinatorTypeOK,
         C!DisarmedIsQuiet, C!ModeMatchesPermission, C!TimersMatchMode, C!Unanswered
  <2> QED BY <2>2, <2>3, <2>4 DEF Inv
<1>3. CASE AssignmentStep
  <2>1. G!DisabledIsIdle' /\ enabled' = enabled
    BY <1>0, <1>3, AssignmentStaysIdle DEF AssignmentStep
  <2>2. UNCHANGED <<coordVars, coordNavVars, permission>>
    BY <1>3 DEF AssignmentStep
  <2>3. CoordinatorAgrees'
    BY <1>0, <2>2 DEF coordVars, coordNavVars, CoordinatorAgrees, CoordinatorTypeOK,
         C!DisarmedIsQuiet, C!ModeMatchesPermission, C!TimersMatchMode, C!Unanswered
  <2> QED BY <1>0, <2>1, <2>2, <2>3 DEF Inv, TopicCarriesPermission, coordVars
<1>4. CASE Nav2Step
  <2>1. UNCHANGED <<coordVars, assignVars, permission>>
    BY <1>4 DEF Nav2Step
  <2>2. /\ semAnswered' = semAnswered
        /\ semStatus' \in [SemanticGoals -> C!GoalStatuses]
        /\ \A g \in SemanticGoals : semStatus[g] = "free" => semStatus'[g] = "free"
    <3>1. semStatus \in [SemanticGoals -> C!GoalStatuses]
      BY <1>0 DEF CoordinatorAgrees, CoordinatorTypeOK
    <3> USE DEF C!GoalStatuses, C!Terminal
    <3>2. CASE \E g \in SemanticGoals : AcceptSemantic(g)
      BY <3>1, <3>2 DEF AcceptSemantic, C!ServerAccept, C!Executing
    <3>3. CASE \E g \in SemanticGoals : OtherSemantic(g)
      BY <3>1, <3>3 DEF OtherSemantic, C!ServerReject, C!ServerFinish, C!ServerCancel, C!Executing
    <3>4. CASE \E g \in FrontierGoals : AcceptFrontier(g)
      BY <3>1, <3>4 DEF AcceptFrontier, Preempted
    <3>5. CASE \E g \in FrontierGoals : OtherFrontier(g)
      BY <3>1, <3>5 DEF OtherFrontier, coordNavVars
    <3> QED BY <1>4, <3>2, <3>3, <3>4, <3>5 DEF Nav2Step
  <2>3. CoordinatorAgrees'
    BY <1>0, <2>1, <2>2, ServerKeepsAgreeing
  <2> QED BY <1>0, <2>1, <2>3 DEF Inv, TopicCarriesPermission, G!DisabledIsIdle, coordVars, assignVars
<1>5. CASE UNCHANGED vars
  BY <1>0, <1>5 DEF vars, coordVars, coordNavVars, assignVars, Inv, TopicCarriesPermission,
       G!DisabledIsIdle, CoordinatorAgrees, CoordinatorTypeOK, C!DisarmedIsQuiet,
       C!ModeMatchesPermission, C!TimersMatchMode, C!Unanswered
<1> QED BY <1>1, <1>2, <1>3, <1>4, <1>5 DEF Next

LEMMA Invariance == PromptAnswers => (Spec => []Inv)
<1> SUFFICES ASSUME PromptAnswers PROVE Spec => []Inv
  OBVIOUS
<1> QED BY InvStarts, InvStep, PTL DEF Spec

(* Once the permission that was withdrawn for a command has arrived, goal  *)
(* assignment waits for nothing and holds no goal, when Nav2 answers the   *)
(* coordinator before a sweep begins.                                      *)
THEOREM ExplorationIsPaused == PromptAnswers => (Spec => []ServingPausesExploration)
<1> SUFFICES ASSUME PromptAnswers PROVE Spec => []ServingPausesExploration
  OBVIOUS
<1>1. Inv => ServingPausesExploration
  BY DEF Inv, TopicCarriesPermission, CoordinatorAgrees, CoordinatorTypeOK, C!ModeMatchesPermission,
         C!Serving, G!DisabledIsIdle, ServingPausesExploration
<1> QED BY <1>1, Invariance, PTL

(* A coordinator in EXPLORING has nothing on its way to a goal assignment  *)
(* that is not enabled.                                                    *)
THEOREM ExplorationIsEnabled == PromptAnswers => (Spec => []ExploringMeansEnabled)
<1> SUFFICES ASSUME PromptAnswers PROVE Spec => []ExploringMeansEnabled
  OBVIOUS
<1>1. Inv => ExploringMeansEnabled
  BY DEF Inv, TopicCarriesPermission, CoordinatorAgrees, C!ModeMatchesPermission,
         ExploringMeansEnabled
<1> QED BY <1>1, Invariance, PTL
=============================================================================
