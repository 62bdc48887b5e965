------------------------ MODULE GoalAssignmentProofs ------------------------
(***************************************************************************)
(* The selection of a frontier and the safety of goal_assignment_node.cpp, *)
(* for every set of goals and places and every value of the parameters;    *)
(* then its history, with the permission changing and goals expiring at    *)
(* any time: a second goal, an outcome recorded at another goal's place or *)
(* a place reached too often can be traced to one of two causes.           *)
(***************************************************************************)
EXTENDS ExplorationHistory, SequenceTheorems, FiniteSetTheorems,
        WellFoundedInduction, TLAPS

-----------------------------------------------------------------------------
(* selectBestFrontier.                                                     *)

LEMMA NatMinimum ==
  ASSUME NEW T, T \subseteq Nat, T # {}
  PROVE  \E m \in T : \A n \in T : m <= n
<1>1. PICK m \in T : \A n \in T : <<n, m>> \notin OpToRel(<, Nat)
  BY WFMin, NatLessThanWellFounded
<1>2. \A n \in T : n < m => <<n, m>> \in OpToRel(<, Nat)
  BY DEF OpToRel
<1>3. \A n \in T : ~(n < m)
  BY <1>1, <1>2, Zenon
<1> QED BY <1>3

LEMMA DistIsNat == \A a, b \in Int : Dist(a, b) \in Nat
  BY DEF Dist

(* The chosen frontier passes every filter and none that does is nearer:   *)
(* the loop of selectBestFrontier finds one whenever there is one.         *)
THEOREM BestFrontierIsNearest ==
  ASSUME PlacesTypeOK, NEW robot \in Places, Candidates(robot) # {}
  PROVE  /\ BestFrontier(robot) \in Candidates(robot)
         /\ \A j \in Candidates(robot) :
              Dist(frontiers[BestFrontier(robot)], robot) <= Dist(frontiers[j], robot)
<1> DEFINE C == Candidates(robot)
           D(i) == Dist(frontiers[i], robot)
           Best(i) == \A j \in C : D(i) < D(j) \/ (D(i) = D(j) /\ i <= j)
<1>1. C \subseteq Nat /\ \A i \in C : frontiers[i] \in Places
  BY DEF PlacesTypeOK, Candidates
<1>2. \A i \in C : D(i) \in Nat
  BY <1>1, DistIsNat, GoalAssignmentConstants
<1> HIDE DEF D, C
<1>3. PICK d \in {D(i) : i \in C} : \A e \in {D(i) : i \in C} : d <= e
  <2>1. {D(i) : i \in C} \subseteq Nat /\ {D(i) : i \in C} # {}
    BY <1>2 DEF C
  <2> QED BY <2>1, NatMinimum
<1>4. PICK m \in {i \in C : D(i) = d} : \A n \in {i \in C : D(i) = d} : m <= n
  <2>1. {i \in C : D(i) = d} \subseteq Nat /\ {i \in C : D(i) = d} # {}
    BY <1>1, <1>3
  <2> QED BY <2>1, NatMinimum
<1>5. m \in C /\ Best(m)
  <2>1. m \in C /\ D(m) = d /\ d \in Nat
    BY <1>2, <1>4
  <2>2. \A j \in C : d <= D(j) /\ (D(j) = d => m <= j)
    BY <1>3, <1>4
  <2> QED BY <1>2, <2>1, <2>2
<1>6. BestFrontier(robot) = CHOOSE i \in C : Best(i)
  BY DEF BestFrontier, C, D
<1>7. BestFrontier(robot) \in C /\ Best(BestFrontier(robot))
  BY <1>5, <1>6
<1>8. \A j \in C : D(BestFrontier(robot)) <= D(j)
  BY <1>2, <1>7
<1> QED BY <1>7, <1>8 DEF C, D

-----------------------------------------------------------------------------
(* Type correctness, one group of variables at a time.                     *)

LEMMA NavTypeStep == TypeOK /\ Next => NavTypeOK'
<1> SUFFICES ASSUME TypeOK, Next PROVE NavTypeOK'
  OBVIOUS
<1> USE DEF TypeOK, NavTypeOK, NodeTypeOK, GoalStatuses, Terminal, navVars
<1>1. CASE Permission \/ Topics
  BY <1>1 DEF Permission, Topics, ExplorationEnabled, WarmupComplete, Frontiers, CancelCurrentGoal, AskCancel
<1>2. CASE Timer
  BY <1>2 DEF Timer, TickDisabled, TickExpired, TickWarmupExpired, TickDispatch,
              CancelCurrentGoal, AskCancel, SendGoal
<1>3. CASE Answers
  BY <1>3 DEF Answers, GoalAccepted, GoalRejected, ConsumeRejection, Result, ConsumeResult
<1>4. CASE Nav2
  BY <1>4 DEF Nav2, ServerStep, ServerAccept, ServerReject, ServerFinish, ServerCancel, Executing
<1> QED BY <1>1, <1>2, <1>3, <1>4 DEF Next

LEMMA NodeTypeStep == TypeOK /\ Next => NodeTypeOK'
<1> SUFFICES ASSUME NodeTypeOK, Next PROVE NodeTypeOK'
  BY DEF TypeOK
<1> USE GoalAssignmentConstants DEF NodeTypeOK, inputVars, CancelCurrentGoal
<1>1. CASE Permission \/ Topics
  BY <1>1 DEF Permission, Topics, ExplorationEnabled, WarmupComplete, Frontiers
<1>2. CASE Timer
  BY <1>2 DEF Timer, TickDisabled, TickExpired, TickWarmupExpired, TickDispatch
<1>3. CASE Answers \/ Nav2
  BY <1>3 DEF Answers, GoalAccepted, GoalRejected, Result, Nav2
<1> QED BY <1>1, <1>2, <1>3 DEF Next

(* An outcome is recorded at a place only once a goal has been sent.       *)
LEMMA VisitKeepsType ==
  ASSUME PlacesTypeOK, current \in Places, RecordSuccessfulVisit
  PROVE  visits' \in Seq(Places) /\ Len(visits') <= HistoryLimit
<1> DEFINE longer == Append(visits, current)
<1>1. /\ longer \in Seq(Places) /\ longer # <<>>
      /\ Len(longer) = Len(visits) + 1 /\ Len(visits) \in Nat
  BY AppendProperties, LenProperties DEF PlacesTypeOK
<1>2. Tail(longer) \in Seq(Places) /\ Len(Tail(longer)) = Len(longer) - 1
  BY <1>1, HeadTailProperties
<1>3. visits' = IF Len(longer) > HistoryLimit THEN Tail(longer) ELSE longer
  BY DEF RecordSuccessfulVisit
<1> HIDE DEF longer
<1> QED BY <1>1, <1>2, <1>3, GoalAssignmentConstants DEF PlacesTypeOK

(* Erasing the chosen frontier leaves a sequence of places.                *)
LEMMA WithoutIndexKeepsType ==
  ASSUME NEW S, NEW s \in Seq(S), NEW i \in DOMAIN s
  PROVE  WithoutIndex(s, i) \in Seq(S)
<1>1. i \in 1..Len(s) /\ Len(s) \in Nat
  BY LenProperties
<1>2. SubSeq(s, 1, i - 1) \in Seq(S)
  BY <1>1, SubSeqProperties, ElementOfSeq
<1>3. SubSeq(s, i + 1, Len(s)) \in Seq(S)
  BY <1>1, SubSeqProperties, ElementOfSeq
<1> QED BY <1>2, <1>3, ConcatProperties DEF WithoutIndex

LEMMA PlacesTypeStep == TypeOK /\ CurrentIsKnown /\ Next => PlacesTypeOK'
<1> SUFFICES ASSUME NavTypeOK, PlacesTypeOK, CurrentIsKnown, Next PROVE PlacesTypeOK'
  BY DEF TypeOK
<1> USE GoalAssignmentConstants DEF PlacesTypeOK, memoryVars, inputVars, RecordFailedGoal
<1>1. CASE Permission \/ Topics
  <2>1. CASE WarmupComplete \/ Permission
    BY <2>1 DEF WarmupComplete, Permission, ExplorationEnabled
  <2>2. ASSUME NEW msg \in FrontierMessages, Frontiers(msg) PROVE PlacesTypeOK'
    <3>1. msg \in Seq(Places)
      BY DEF FrontierMessages
    <3> QED BY <2>2, <3>1 DEF Frontiers
  <2> QED BY <1>1, <2>1, <2>2 DEF Topics
<1>2. CASE TickDisabled \/ TickExpired \/ TickWarmupExpired
  BY <1>2 DEF TickDisabled, TickExpired, TickWarmupExpired
<1>3. ASSUME NEW robot \in Places, NEW e \in BOOLEAN, TickDispatch(robot, e) PROVE PlacesTypeOK'
  <2> DEFINE best == BestFrontier(robot)
  <2>1. best \in DOMAIN frontiers
    BY <1>3, BestFrontierIsNearest DEF TickDispatch, Candidates
  <2>2. frontiers[best] \in Places
    BY <2>1, LenProperties
  <2>3. WithoutIndex(frontiers, best) \in Seq(Places)
    BY <2>1, WithoutIndexKeepsType
  <2> HIDE DEF best
  <2>4. /\ current' = frontiers[best] /\ frontiers' = WithoutIndex(frontiers, best)
        /\ \E g \in Goals : dest' = [dest EXCEPT ![g] = frontiers[best]]
        /\ UNCHANGED memoryVars
    BY <1>3 DEF TickDispatch, best
  <2> QED BY <2>2, <2>3, <2>4
<1>4. ASSUME NEW g \in Goals, GoalAccepted(g) \/ GoalRejected(g) PROVE PlacesTypeOK'
  BY <1>4 DEF GoalAccepted, GoalRejected
<1>5. ASSUME NEW g \in Goals, Result(g) PROVE PlacesTypeOK'
  <2>1. current \in Places
    BY <1>5 DEF Result, ResultReady, Terminal, CurrentIsKnown
  <2>2. CASE RecordSuccessfulVisit
    <3>1. visits' \in Seq(Places) /\ Len(visits') <= HistoryLimit
      BY <2>1, <2>2, VisitKeepsType
    <3>2. lastFailed' = None
      BY <2>2 DEF RecordSuccessfulVisit
    <3>3. dest' = [dest EXCEPT ![g] = None] /\ UNCHANGED <<current, frontiers>>
      BY <1>5 DEF Result
    <3> QED BY <3>1, <3>2, <3>3
  <2>3. CASE RecordFailedGoal \/ UNCHANGED memoryVars
    BY <1>5, <2>3 DEF Result
  <2> QED BY <1>5, <2>2, <2>3 DEF Result
<1>6. CASE Nav2
  BY <1>6 DEF Nav2
<1> QED BY <1>1, <1>2, <1>3, <1>4, <1>5, <1>6 DEF Next, Timer, Answers

LEMMA CurrentIsKnownStep == TypeOK /\ CurrentIsKnown /\ Next => CurrentIsKnown'
<1> SUFFICES ASSUME TypeOK, CurrentIsKnown, Next PROVE CurrentIsKnown'
  OBVIOUS
<1> USE DEF TypeOK, NavTypeOK, CurrentIsKnown, navVars
<1>1. CASE Permission \/ Topics
  BY <1>1 DEF Permission, Topics, ExplorationEnabled, WarmupComplete, Frontiers, CancelCurrentGoal, AskCancel
<1>2. CASE TickDisabled \/ TickExpired \/ TickWarmupExpired
  BY <1>2 DEF TickDisabled, TickExpired, TickWarmupExpired, CancelCurrentGoal, AskCancel
<1>3. ASSUME NEW robot \in Places, NEW e \in BOOLEAN, TickDispatch(robot, e) PROVE current' # None
  <2>1. BestFrontier(robot) \in DOMAIN frontiers
    BY <1>3, BestFrontierIsNearest DEF TickDispatch, Candidates
  <2>2. frontiers[BestFrontier(robot)] \in Places
    BY <2>1, LenProperties DEF PlacesTypeOK
  <2> QED BY <1>3, <2>2, GoalAssignmentConstants DEF TickDispatch
<1>4. CASE Answers
  BY <1>4 DEF Answers, GoalAccepted, GoalRejected, ConsumeRejection, Result, ConsumeResult
<1>5. CASE Nav2
  BY <1>5 DEF Nav2, ServerStep, ServerAccept, ServerReject, ServerFinish, ServerCancel, Executing
<1> QED BY <1>1, <1>2, <1>3, <1>4, <1>5 DEF Next, Timer

-----------------------------------------------------------------------------
(* What the operations on a goal of Nav2 preserve.                         *)

NavInv == NavTypeOK /\ NavConsistent

LEMMA NavInitEstablishes == NavInit => NavInv /\ Unanswered = {}
  BY DEF NavInit, NavInv, NavTypeOK, NavConsistent, GoalStatuses, Unanswered

(* The server's own steps neither answer nor free a goal, so they leave a  *)
(* held goal usable and the set of unanswered requests as it is.           *)
LEMMA ServerStepPreserves ==
  ASSUME NavInv, ServerStep
  PROVE  /\ NavInv'
         /\ Unanswered' = Unanswered
         /\ \A h \in Goals : Usable(h) => Usable(h)'
<1> USE DEF NavInv, NavTypeOK, NavConsistent, GoalStatuses, Terminal, Usable, Unanswered
<1>1. PICK g \in Goals : ServerAccept(g) \/ ServerReject(g) \/ ServerFinish(g) \/ ServerCancel(g)
  BY DEF ServerStep
<1>2. CASE ServerAccept(g)
  BY <1>2 DEF ServerAccept, Executing
<1>3. CASE ServerReject(g)
  BY <1>3 DEF ServerReject
<1>4. CASE ServerFinish(g)
  BY <1>4 DEF ServerFinish, Executing
<1>5. CASE ServerCancel(g)
  BY <1>5 DEF ServerCancel, Executing
<1> QED BY <1>1, <1>2, <1>3, <1>4, <1>5

(* A goal is sent under an identity nobody holds.                          *)
LEMMA SendGoalPreserves ==
  ASSUME NavInv, NEW g \in Goals, SendGoal(g)
  PROVE  NavInv' /\ \A h \in Goals : Usable(h) => Usable(h)'
  BY DEF NavInv, NavTypeOK, NavConsistent, GoalStatuses, Terminal, Usable, SendGoal

(* A consumed acceptance makes the goal usable: nobody can have asked to   *)
(* cancel it before.                                                       *)
LEMMA AcceptancePreserves ==
  ASSUME NavInv, NEW g \in Goals, ResponseReady(g), Accepted(g),
         answered' = answered \cup {g}, UNCHANGED <<goalStatus, cancelReq>>
  PROVE  NavInv' /\ Usable(g)' /\ Unanswered' \subseteq Unanswered
  BY DEF NavInv, NavTypeOK, NavConsistent, GoalStatuses, Terminal, Usable,
         ResponseReady, Accepted, Unanswered

LEMMA RejectionPreserves ==
  ASSUME NavInv, NEW g \in Goals, ResponseReady(g), ~Accepted(g), ConsumeRejection(g)
  PROVE  /\ NavInv'
         /\ g \in Unanswered
         /\ \A h \in Goals : Usable(h) => Usable(h)'
  BY DEF NavInv, NavTypeOK, NavConsistent, GoalStatuses, Terminal, Usable,
         ResponseReady, Accepted, ConsumeRejection, Unanswered

LEMMA ResultPreserves ==
  ASSUME NavInv, NEW g \in Goals, ResultReady(g), ConsumeResult(g)
  PROVE  NavInv' /\ Unanswered' = Unanswered
  BY DEF NavInv, NavTypeOK, NavConsistent, GoalStatuses, Terminal,
         ResultReady, ConsumeResult, Unanswered

(* Only goals whose acceptance has been seen may be asked to be cancelled. *)
LEMMA AskCancelPreserves ==
  ASSUME NavInv, NEW S, S \subseteq answered, AskCancel(S)
  PROVE  NavInv' /\ Unanswered' = Unanswered
  BY DEF NavInv, NavTypeOK, NavConsistent, AskCancel, Unanswered

-----------------------------------------------------------------------------
(* The invariants that hold whatever Nav2, the coordinator and the clock   *)
(* do, inductive together.                                                 *)

IInv == TypeOK /\ CurrentIsKnown /\ NavConsistent
        /\ HandleIsUsable /\ DisabledIsIdle /\ NavigatingIsAnswerable

LEMMA InitEstablishes == Init => IInv
<1> SUFFICES ASSUME Init PROVE IInv
  OBVIOUS
<1>1. NavInv
  BY NavInitEstablishes DEF Init
<1>2. NodeTypeOK
  BY GoalAssignmentConstants DEF Init, NodeTypeOK
<1>3. PlacesTypeOK
  BY GoalAssignmentConstants DEF Init, PlacesTypeOK
<1>4. CurrentIsKnown /\ HandleIsUsable /\ DisabledIsIdle /\ NavigatingIsAnswerable
  BY DEF Init, NavInit, CurrentIsKnown, HandleIsUsable, DisabledIsIdle, NavigatingIsAnswerable
<1> QED BY <1>1, <1>2, <1>3, <1>4 DEF IInv, TypeOK, NavInv

(* What every step keeps of Nav2's state and of the node's own.            *)
Safe == NavInv /\ HandleIsUsable /\ DisabledIsIdle /\ NavigatingIsAnswerable

LEMMA SafeStep == IInv /\ Next => Safe'
<1> SUFFICES ASSUME IInv, Next PROVE Safe'
  OBVIOUS
<1>0. Safe /\ handle \in Goals \cup {None} /\ None \notin Goals
      /\ state \in {"IDLE", "NAVIGATING"} /\ enabled \in BOOLEAN
  BY GoalAssignmentConstants DEF IInv, Safe, NavInv, TypeOK, NodeTypeOK
<1> USE DEF Safe, DisabledIsIdle, NavigatingIsAnswerable
<1>a. UNCHANGED navVars => NavInv' /\ Unanswered' = Unanswered /\ \A g \in Goals : Usable(g) => Usable(g)'
  BY <1>0 DEF NavInv, NavTypeOK, NavConsistent, Unanswered, Usable, navVars
<1>b. ASSUME CancelCurrentGoal PROVE NavInv' /\ handle' = None /\ state' = "IDLE"
  <2>1. {handle} \ {None} \subseteq answered
    BY <1>0 DEF HandleIsUsable, Usable
  <2> QED BY <1>0, <1>b, <2>1, AskCancelPreserves DEF CancelCurrentGoal
<1>1. ASSUME NEW b \in BOOLEAN, ExplorationEnabled(b) PROVE Safe'
  BY <1>0, <1>1, <1>a, <1>b DEF ExplorationEnabled, HandleIsUsable, navVars
<1>2. CASE WarmupComplete \/ TickWarmupExpired \/ \E msg \in FrontierMessages : Frontiers(msg)
  BY <1>0, <1>2, <1>a DEF WarmupComplete, TickWarmupExpired, Frontiers, HandleIsUsable
<1>3. CASE TickDisabled
  <2>1. enabled' = enabled
    BY <1>3 DEF TickDisabled, inputVars
  <2> QED BY <1>0, <1>3, <2>1, <1>a, <1>b DEF TickDisabled, HandleIsUsable
<1>4. CASE TickExpired
  BY <1>4, <1>b DEF TickExpired, inputVars, HandleIsUsable
<1>5. ASSUME NEW robot \in Places, NEW e \in BOOLEAN, TickDispatch(robot, e) PROVE Safe'
  <2>1. PICK g \in Goals : SendGoal(g)
    BY <1>5 DEF TickDispatch
  <2>2. NavInv' /\ \A h \in Goals : Usable(h) => Usable(h)'
    BY <1>0, <2>1, SendGoalPreserves
  <2>3. g \in Unanswered'
    BY <1>0, <2>1 DEF SendGoal, NavInv, NavTypeOK, NavConsistent, Terminal, Unanswered
  <2>4. enabled /\ enabled' = enabled /\ handle' = handle
    BY <1>5 DEF TickDispatch, MayDispatch
  <2> QED BY <1>0, <2>2, <2>3, <2>4 DEF HandleIsUsable
<1>6. ASSUME NEW g \in Goals, GoalAccepted(g) PROVE Safe'
  <2>1. CASE enabled
    <3>1. NavInv' /\ Usable(g)'
      BY <1>0, <1>6, <2>1, AcceptancePreserves DEF GoalAccepted
    <3> QED BY <1>0, <1>6, <2>1, <3>1 DEF GoalAccepted, inputVars, HandleIsUsable
  <2>2. CASE ~enabled
    <3>1. NavInv'
      BY <1>0, <1>6, <2>2 DEF GoalAccepted, ResponseReady, Accepted, NavInv, NavTypeOK,
                              NavConsistent, GoalStatuses, Terminal
    <3> QED BY <1>6, <2>2, <3>1 DEF GoalAccepted, HandleIsUsable
  <2> QED BY <2>1, <2>2
<1>7. ASSUME NEW g \in Goals, GoalRejected(g) PROVE Safe'
  <2>1. NavInv' /\ \A h \in Goals : Usable(h) => Usable(h)'
    BY <1>0, <1>7, RejectionPreserves DEF GoalRejected
  <2> QED BY <1>0, <1>7, <2>1 DEF GoalRejected, inputVars, HandleIsUsable
<1>8. ASSUME NEW g \in Goals, Result(g) PROVE Safe'
  <2>1. NavInv'
    BY <1>0, <1>8, ResultPreserves DEF Result
  <2> QED BY <1>8, <2>1 DEF Result, HandleIsUsable
<1>9. CASE Nav2
  <2>1. /\ NavInv' /\ Unanswered' = Unanswered
        /\ \A h \in Goals : Usable(h) => Usable(h)'
    BY <1>0, <1>9, ServerStepPreserves DEF Nav2
  <2> QED BY <1>0, <1>9, <2>1 DEF Nav2, inputVars, HandleIsUsable
<1> QED BY <1>1, <1>2, <1>3, <1>4, <1>5, <1>6, <1>7, <1>8, <1>9 DEF Next, Permission, Topics, Timer, Answers

LEMMA Inductive == IInv /\ [Next]_vars => IInv'
<1>1. IInv /\ Next => IInv'
  BY NavTypeStep, NodeTypeStep, PlacesTypeStep, CurrentIsKnownStep, SafeStep
  DEF IInv, TypeOK, Safe, NavInv
<1>2. IInv /\ UNCHANGED vars => IInv'
  BY DEF IInv, TypeOK, NavTypeOK, NodeTypeOK, PlacesTypeOK, CurrentIsKnown, NavConsistent,
         HandleIsUsable, Usable, DisabledIsIdle, NavigatingIsAnswerable, Unanswered,
         vars, memoryVars, inputVars, navVars
<1> QED BY <1>1, <1>2

LEMMA Invariance == Spec => []IInv
  BY InitEstablishes, Inductive, PTL DEF Spec

(* Every variable keeps its type; in particular the visit history never    *)
(* outgrows its limit and holds only places that goals were sent to.       *)
THEOREM TypeCorrect == Spec => []TypeOK
<1>1. IInv => TypeOK
  BY DEF IInv
<1> QED BY <1>1, Invariance, PTL

(* A node that is not allowed to explore neither waits for nor holds a     *)
(* goal, whatever was under way when the permission was withdrawn.         *)
THEOREM DisabledStaysIdle == Spec => []DisabledIsIdle
<1>1. IInv => DisabledIsIdle
  BY DEF IInv
<1> QED BY <1>1, Invariance, PTL

(* The node is never NAVIGATING without something that will end it.        *)
THEOREM NavigatingEndsSomehow == Spec => []NavigatingIsAnswerable
<1>1. IInv => NavigatingIsAnswerable
  BY DEF IInv
<1> QED BY <1>1, Invariance, PTL

(* Every cancel through the handle reaches a goal that can be cancelled.   *)
THEOREM HandleStaysUsable == Spec => []HandleIsUsable
<1>1. IInv => HandleIsUsable
  BY DEF IInv
<1> QED BY <1>1, Invariance, PTL

-----------------------------------------------------------------------------
(* What holds as long as neither cause of a second goal has occurred.      *)

Outstanding == {g \in Goals : goalStatus[g] # "free"}
LoopFilter  == LoopRadius > 0 /\ MaxVisits > 0

OneOutstanding == \A g, h \in Outstanding : g = h

HeadedForCurrent == \A g \in Outstanding : dest[g] = current

(* What was accepted is held or cancelled, and an idle node that may send  *)
(* has no request on its way.                                              *)
NothingForgotten ==
  /\ answered \subseteq cancelReq \cup {handle}
  /\ state = "IDLE" => /\ handle = None
                       /\ enabled => Unanswered = {}

(* The filter that chose the current goal still holds when it is reached.  *)
RoomForVisit ==
  LoopFilter /\ Outstanding # {} => VisitsNear(current) < MaxVisits

(* The node's own history ends with the arrivals.                          *)
ArrivalsAreVisits ==
  /\ arrivals \in Seq(Places) /\ Len(arrivals) <= Len(visits)
  /\ \A i \in DOMAIN arrivals :
       arrivals[i] = visits[i + (Len(visits) - Len(arrivals))]

OnTrack == OneOutstanding /\ HeadedForCurrent /\ NothingForgotten /\ RoomForVisit

HInv == /\ IInv
        /\ overtaken \in BOOLEAN
        /\ ~overtaken => OnTrack /\ ArrivalsAreVisits

(* With every goal free the node starts afresh, whatever happened before.  *)
LEMMA FreeIsOnTrack == IInv /\ AllFree => OnTrack
<1> SUFFICES ASSUME IInv, AllFree PROVE OnTrack
  OBVIOUS
<1>1. Outstanding = {} /\ Unanswered = {}
  BY DEF AllFree, Outstanding, Unanswered
<1>2. answered = {}
  BY DEF IInv, TypeOK, NavTypeOK, NavConsistent, Terminal, AllFree
<1>3. handle = None
  BY <1>2 DEF IInv, HandleIsUsable, Usable
<1> QED BY <1>1, <1>2, <1>3 DEF OnTrack, OneOutstanding, HeadedForCurrent, NothingForgotten, RoomForVisit

LEMMA HInvStarts == HistoryInit => HInv
<1> SUFFICES ASSUME HistoryInit PROVE HInv
  OBVIOUS
<1>1. IInv /\ AllFree
  BY InitEstablishes DEF HistoryInit, Init, NavInit, AllFree
<1>2. visits = <<>> /\ arrivals = <<>> /\ overtaken = FALSE
  BY DEF HistoryInit, Init
<1>3. ArrivalsAreVisits
  BY <1>2 DEF ArrivalsAreVisits
<1> QED BY <1>1, <1>2, <1>3, FreeIsOnTrack DEF HInv

-----------------------------------------------------------------------------
(* The steps that leave a goal under way and are not a cause.              *)

(* Giving up what the node holds.                                          *)
LEMMA CancelOnTrack ==
  ASSUME IInv, OnTrack, CancelCurrentGoal, UNCHANGED <<current, visits, dest>>,
         enabled' => enabled /\ handle # None
  PROVE  OnTrack'
<1>0. HandleIsUsable /\ NavTypeOK /\ NavConsistent
  BY DEF IInv, TypeOK
<1>1. /\ cancelReq' = cancelReq \cup ({handle} \ {None}) /\ handle' = None
      /\ answered' = answered /\ goalStatus' = goalStatus
  BY DEF CancelCurrentGoal, AskCancel
<1>2. Outstanding' = Outstanding /\ Unanswered' = Unanswered /\ VisitsNear(current)' = VisitsNear(current)
  BY <1>1 DEF Outstanding, Unanswered, VisitsNear
<1>3. None \notin answered
  BY <1>0, GoalAssignmentConstants DEF NavTypeOK
<1>4. handle # None => Unanswered = {}
  BY <1>0 DEF HandleIsUsable, Usable, Terminal, OnTrack, OneOutstanding, Outstanding, Unanswered, NavTypeOK
<1>5. NothingForgotten'
  BY <1>1, <1>2, <1>3, <1>4 DEF OnTrack, NothingForgotten
<1> QED BY <1>2, <1>5 DEF OnTrack, OneOutstanding, HeadedForCurrent, RoomForVisit

(* Nothing that the record is about changes.                               *)
LEMMA OnTrackFrame ==
  ASSUME OnTrack, UNCHANGED <<state, handle, navVars, current, visits, dest>>,
         enabled' => enabled \/ Unanswered = {}
  PROVE  OnTrack'
<1>1. Outstanding' = Outstanding /\ Unanswered' = Unanswered /\ VisitsNear(current)' = VisitsNear(current)
  BY DEF Outstanding, Unanswered, VisitsNear, navVars
<1> QED BY <1>1 DEF OnTrack, OneOutstanding, HeadedForCurrent, NothingForgotten, RoomForVisit, navVars

LEMMA DispatchOnTrack ==
  ASSUME IInv, OnTrack, ~SentBeforeOutcome,
         NEW robot \in Places, NEW e \in BOOLEAN, TickDispatch(robot, e)
  PROVE  OnTrack'
<1> DEFINE best == BestFrontier(robot)
<1>0. NavTypeOK /\ NavConsistent /\ PlacesTypeOK
  BY DEF IInv, TypeOK
<1>1. PICK g \in Goals : SendGoal(g) /\ dest' = [dest EXCEPT ![g] = frontiers[best]]
  BY DEF TickDispatch
<1>2. cancelReq = {}
  BY <1>0, <1>1 DEF SentBeforeOutcome, SendGoal, NavTypeOK
<1>3. handle = None /\ Unanswered = {} /\ answered = {}
  BY <1>0, <1>2, GoalAssignmentConstants DEF TickDispatch, MayDispatch, OnTrack, NothingForgotten, NavTypeOK
<1>4. Outstanding = {}
  BY <1>3 DEF Unanswered, Outstanding
<1>5. Outstanding' = {g}
  BY <1>0, <1>1, <1>4 DEF SendGoal, Outstanding, NavTypeOK
<1>6. best \in DOMAIN frontiers /\ Acceptable(frontiers[best], robot)
  BY <1>0, BestFrontierIsNearest DEF TickDispatch, Candidates
<1>7. current' = frontiers[best] /\ visits' = visits /\ state' = "NAVIGATING" /\ handle' = handle
  BY DEF TickDispatch, memoryVars
<1> HIDE DEF best
<1>8. dest'[g] = current'
  BY <1>0, <1>1, <1>7 DEF PlacesTypeOK
<1>9. LoopFilter => VisitsNear(current)' < MaxVisits
  <2>1. VisitsNear(current)' = VisitsNear(frontiers[best])
    BY <1>7 DEF VisitsNear
  <2> QED BY <1>6, <2>1 DEF Acceptable, LoopFilter
<1>10. NothingForgotten'
  BY <1>1, <1>3, <1>7 DEF NothingForgotten, SendGoal
<1> QED BY <1>5, <1>8, <1>9, <1>10 DEF OnTrack, OneOutstanding, HeadedForCurrent, RoomForVisit

LEMMA AcceptanceOnTrack ==
  ASSUME IInv, OnTrack, NEW g \in Goals, GoalAccepted(g)
  PROVE  OnTrack'
<1>0. g \in Outstanding /\ OneOutstanding
  BY DEF GoalAccepted, ResponseReady, Outstanding, OnTrack
<1>1. Outstanding' = Outstanding /\ answered' = answered \cup {g}
      /\ VisitsNear(current)' = VisitsNear(current)
      /\ UNCHANGED <<current, dest, goalStatus, enabled>>
  BY DEF GoalAccepted, Outstanding, VisitsNear, memoryVars, inputVars
<1>2. g \notin answered /\ answered \subseteq Outstanding
  BY DEF GoalAccepted, ResponseReady, IInv, TypeOK, NavTypeOK, NavConsistent, Terminal, Outstanding
<1>3. answered = {}
  BY <1>0, <1>2 DEF OneOutstanding
<1>4. NothingForgotten'
  BY <1>1, <1>3 DEF GoalAccepted, NothingForgotten
<1> QED BY <1>0, <1>1, <1>4 DEF OnTrack, OneOutstanding, HeadedForCurrent, RoomForVisit

LEMMA ServerOnTrack ==
  ASSUME IInv, OnTrack, Nav2
  PROVE  OnTrack'
<1>1. Outstanding' = Outstanding /\ Unanswered' = Unanswered /\ UNCHANGED <<answered, cancelReq>>
  BY DEF Nav2, ServerStep, ServerAccept, ServerReject, ServerFinish, ServerCancel, Executing,
         Outstanding, Unanswered, IInv, TypeOK, NavTypeOK
<1>2. VisitsNear(current)' = VisitsNear(current)
      /\ UNCHANGED <<state, handle, current, dest, enabled>>
  BY DEF Nav2, VisitsNear, memoryVars, inputVars
<1> QED BY <1>1, <1>2 DEF OnTrack, OneOutstanding, HeadedForCurrent, NothingForgotten, RoomForVisit

(* The outcome of the one goal leaves every goal free.                     *)
LEMMA OutcomeFreesAll ==
  ASSUME IInv, OneOutstanding, NEW g \in Goals, GoalRejected(g) \/ Result(g)
  PROVE  AllFree'
<1>1. g \in Outstanding
  BY DEF GoalRejected, ResponseReady, Result, ResultReady, Terminal, Outstanding
<1>2. goalStatus' = [goalStatus EXCEPT ![g] = "free"]
  BY DEF GoalRejected, ConsumeRejection, Result, ConsumeResult
<1> QED BY <1>1, <1>2 DEF IInv, TypeOK, NavTypeOK, OneOutstanding, Outstanding, AllFree

LEMMA OnTrackStep ==
  ASSUME IInv, OnTrack, Next, ~AllFree', ~GivenBackUnanswered, ~SentBeforeOutcome
  PROVE  OnTrack'
<1> USE DEF memoryVars, inputVars
<1>0. enabled \in BOOLEAN
  BY DEF IInv, TypeOK, NodeTypeOK
<1>1. ASSUME NEW b \in BOOLEAN, ExplorationEnabled(b) PROVE OnTrack'
  <2>1. CASE b
    BY <1>0, <1>1, <2>1, OnTrackFrame DEF ExplorationEnabled, GivenBackUnanswered
  <2>2. CASE ~b
    BY <1>1, <2>2, CancelOnTrack DEF ExplorationEnabled
  <2> QED BY <2>1, <2>2
<1>2. CASE Topics \/ TickWarmupExpired
  BY <1>2, OnTrackFrame DEF Topics, WarmupComplete, Frontiers, TickWarmupExpired
<1>3. CASE TickDisabled
  <2>1. ~enabled /\ ~enabled' /\ UNCHANGED <<current, visits, dest>>
    BY <1>3 DEF TickDisabled
  <2> QED BY <1>3, <2>1, CancelOnTrack, OnTrackFrame DEF TickDisabled
<1>4. CASE TickExpired
  BY <1>4, CancelOnTrack DEF TickExpired, Expired, RecordFailedGoal
<1>5. ASSUME NEW robot \in Places, NEW e \in BOOLEAN, TickDispatch(robot, e) PROVE OnTrack'
  BY <1>5, DispatchOnTrack
<1>6. ASSUME NEW g \in Goals, GoalAccepted(g) PROVE OnTrack'
  BY <1>6, AcceptanceOnTrack
<1>7. ASSUME NEW g \in Goals, GoalRejected(g) \/ Result(g) PROVE OnTrack'
  BY <1>7, OutcomeFreesAll DEF OnTrack
<1>8. CASE Nav2
  BY <1>8, ServerOnTrack
<1> QED BY <1>1, <1>2, <1>3, <1>4, <1>5, <1>6, <1>7, <1>8 DEF Next, Permission, Timer, Answers
-----------------------------------------------------------------------------
(* The two histories.                                                      *)

(* The latest entries: the new one is the last, and what is kept keeps its *)
(* place counted from the end.                                             *)
LEMMA LatestProperties ==
  ASSUME NEW s \in Seq(Places), NEW x \in Places, Len(s) <= HistoryLimit
  PROVE  LET longer == Append(s, x)
             t == Latest(longer)
         IN /\ t \in Seq(Places) /\ DOMAIN t = 1..Len(t)
            /\ Len(t) = IF Len(s) + 1 > HistoryLimit THEN Len(s) ELSE Len(s) + 1
            /\ Len(t) >= 1 /\ t[Len(t)] = x
            /\ \A i \in 1..Len(t) : t[i] = longer[i + (Len(s) + 1 - Len(t))]
<1> DEFINE longer == Append(s, x)
<1>1. /\ longer \in Seq(Places) /\ longer # <<>> /\ Len(s) \in Nat
      /\ Len(longer) = Len(s) + 1 /\ longer[Len(s) + 1] = x
  BY AppendProperties, LenProperties
<1>2. /\ Tail(longer) \in Seq(Places) /\ Len(Tail(longer)) = Len(longer) - 1
      /\ \A i \in 1..Len(Tail(longer)) : Tail(longer)[i] = longer[i + 1]
  BY <1>1, HeadTailProperties
<1> HIDE DEF longer
<1>3. CASE Len(s) + 1 > HistoryLimit
  <2>1. Latest(longer) = Tail(longer)
    BY <1>1, <1>3 DEF Latest
  <2>2. Len(s) >= 1
    BY <1>1, <1>3, GoalAssignmentConstants
  <2>3. DOMAIN Tail(longer) = 1..Len(Tail(longer))
    BY <1>2, LenProperties
  <2>4. Len(Tail(longer)) = Len(s)
    BY <1>1, <1>2
  <2>5. Tail(longer)[Len(s)] = x
    BY <1>1, <1>2, <2>2, <2>4
  <2>6. \A i \in 1..Len(s) : Tail(longer)[i] = longer[i + (Len(s) + 1 - Len(s))]
    BY <1>1, <1>2, <2>4
  <2> QED BY <1>1, <1>2, <1>3, <2>1, <2>2, <2>3, <2>4, <2>5, <2>6 DEF longer
<1>4. CASE ~(Len(s) + 1 > HistoryLimit)
  <2>1. Latest(longer) = longer
    BY <1>1, <1>4 DEF Latest
  <2>2. DOMAIN longer = 1..Len(longer)
    BY <1>1, LenProperties
  <2> QED BY <1>1, <1>4, <2>1, <2>2 DEF longer
<1> QED BY <1>3, <1>4

(* A goal whose success is heard of is one whose result is handled.        *)
LEMMA ReachedByResult ==
  ASSUME NavTypeOK, Next, NEW g \in Reached
  PROVE  Result(g)
<1>0. g \in Goals /\ goalStatus[g] = "succeeded" /\ goalStatus'[g] = "free"
  BY DEF Reached
<1> USE DEF NavTypeOK, navVars
<1>1. CASE Permission \/ Topics
  BY <1>0, <1>1 DEF Permission, Topics, ExplorationEnabled, WarmupComplete, Frontiers, CancelCurrentGoal, AskCancel
<1>2. CASE Timer
  BY <1>0, <1>2 DEF Timer, TickDisabled, TickExpired, TickWarmupExpired, TickDispatch,
              CancelCurrentGoal, AskCancel, SendGoal
<1>3. CASE Answers
  BY <1>0, <1>3 DEF Answers, GoalAccepted, GoalRejected, ResponseReady, Accepted, ConsumeRejection, Result, ConsumeResult
<1>4. CASE Nav2
  BY <1>0, <1>4 DEF Nav2, ServerStep, ServerAccept, ServerReject, ServerFinish, ServerCancel, Executing
<1> QED BY <1>1, <1>2, <1>3, <1>4 DEF Next

(* Only the success of a goal changes the visits.                          *)
LEMMA VisitsFrame ==
  ASSUME NavTypeOK, Next, ~enabled \/ Reached = {}
  PROVE  visits' = visits
<1> USE DEF memoryVars, RecordFailedGoal
<1>1. CASE Permission \/ Topics
  BY <1>1 DEF Permission, Topics, ExplorationEnabled, WarmupComplete, Frontiers
<1>2. CASE Timer
  BY <1>2 DEF Timer, TickDisabled, TickExpired, TickWarmupExpired, TickDispatch
<1>3. ASSUME NEW g \in Goals, GoalAccepted(g) \/ GoalRejected(g) PROVE visits' = visits
  BY <1>3 DEF GoalAccepted, GoalRejected
<1>4. ASSUME NEW g \in Goals, Result(g) PROVE visits' = visits
  <2>1. goalStatus'[g] = "free"
    BY <1>4 DEF Result, ConsumeResult, NavTypeOK
  <2>2. ~enabled \/ goalStatus[g] # "succeeded"
    BY <2>1 DEF Reached
  <2> QED BY <1>4, <2>2 DEF Result
<1>5. CASE Nav2
  BY <1>5 DEF Nav2
<1> QED BY <1>1, <1>2, <1>3, <1>4, <1>5 DEF Next, Answers

(* What is known of a goal whose outcome is heard.                         *)
LEMMA OutcomeOfCurrent ==
  ASSUME HInv, ~overtaken, NEW g \in Outstanding
  PROVE  current \in Places /\ dest[g] = current
BY DEF HInv, IInv, TypeOK, PlacesTypeOK, CurrentIsKnown, Outstanding, OnTrack, HeadedForCurrent

LEMMA ReachedIsCurrent ==
  ASSUME HInv, ~overtaken, Next, enabled, NEW g \in Reached
  PROVE  /\ g \in Outstanding /\ current \in Places /\ dest[g] = current
         /\ visits' = Latest(Append(visits, current))
<1>1. Result(g) /\ goalStatus[g] = "succeeded"
  BY ReachedByResult DEF HInv, IInv, TypeOK, Reached
<1>2. g \in Outstanding
  BY <1>1 DEF Outstanding, Reached
<1>3. RecordSuccessfulVisit
  BY <1>1 DEF Result
<1> QED BY <1>2, <1>3, OutcomeOfCurrent DEF RecordSuccessfulVisit, Latest

LEMMA ArrivalsStep ==
  ASSUME HInv, HistoryNext, ~overtaken'
  PROVE  ArrivalsAreVisits'
<1>0. visits \in Seq(Places) /\ visits' \in Seq(Places) /\ Len(visits) <= HistoryLimit /\ NavTypeOK
  <2>1. IInv'
    BY Inductive DEF HInv, HistoryNext
  <2> QED BY <2>1 DEF HInv, IInv, TypeOK, PlacesTypeOK
<1>1. CASE overtaken
  <2>1. arrivals' = <<>>
    BY <1>1 DEF HistoryNext, RecordArrival
  <2>2. Len(visits') \in Nat
    BY <1>0, LenProperties
  <2> QED BY <2>1, <2>2 DEF ArrivalsAreVisits
<1>2. CASE ~overtaken /\ enabled /\ Reached # {}
  <2>0. ArrivalsAreVisits
    BY <1>2 DEF HInv
  <2>1. PICK g \in Reached : arrivals' = Latest(Append(arrivals, dest[g]))
    BY <1>2 DEF HistoryNext, RecordArrival
  <2>2. /\ current \in Places
        /\ arrivals' = Latest(Append(arrivals, current))
        /\ visits' = Latest(Append(visits, current))
    BY <1>2, <2>1, ReachedIsCurrent DEF HistoryNext
  <2> DEFINE m == Len(arrivals)
             n == Len(visits)
             A == Append(arrivals, current)
             V == Append(visits, current)
  <2>3. /\ arrivals \in Seq(Places) /\ m \in Nat /\ n \in Nat /\ m <= n /\ n <= HistoryLimit
        /\ \A i \in 1..m : arrivals[i] = visits[i + (n - m)]
    BY <1>0, <2>0, LenProperties DEF ArrivalsAreVisits
  <2>4. /\ \A i \in 1..m : A[i] = arrivals[i]
        /\ \A i \in 1..n : V[i] = visits[i]
        /\ A[m + 1] = current /\ V[n + 1] = current
    BY <1>0, <2>2, <2>3, AppendProperties
  <2>5. \A k \in 1..(m + 1) : A[k] = V[k + (n - m)]
    <3> SUFFICES ASSUME NEW k \in 1..(m + 1) PROVE A[k] = V[k + (n - m)]
      OBVIOUS
    <3> HIDE DEF A, V, m, n
    <3>1. CASE k = m + 1
      <4>1. k + (n - m) = n + 1
        BY <2>3, <3>1
      <4> QED BY <2>4, <3>1, <4>1
    <3>2. CASE k \in 1..m
      <4>1. k + (n - m) \in 1..n
        BY <2>3, <3>2
      <4> QED BY <2>3, <2>4, <3>2, <4>1
    <3> QED BY <2>3, <3>1, <3>2
  <2>6. /\ arrivals' \in Seq(Places) /\ DOMAIN arrivals' = 1..Len(arrivals')
        /\ Len(arrivals') = IF m + 1 > HistoryLimit THEN m ELSE m + 1
        /\ \A i \in 1..Len(arrivals') : arrivals'[i] = A[i + (m + 1 - Len(arrivals'))]
    <3>1. Len(arrivals) <= HistoryLimit
      BY <2>3, GoalAssignmentConstants
    <3> QED BY <2>2, <2>3, <3>1, LatestProperties
  <2>7. /\ Len(visits') = IF n + 1 > HistoryLimit THEN n ELSE n + 1
        /\ \A i \in 1..Len(visits') : visits'[i] = V[i + (n + 1 - Len(visits'))]
    BY <1>0, <2>2, <2>3, LatestProperties
  <2> HIDE DEF A, V, m, n
  <2>8. Len(arrivals') \in Nat /\ Len(visits') \in Nat /\ Len(arrivals') <= Len(visits')
    BY <2>3, <2>6, <2>7, GoalAssignmentConstants
  <2>9. ASSUME NEW i \in 1..Len(arrivals')
        PROVE  arrivals'[i] = visits'[i + (Len(visits') - Len(arrivals'))]
    <3> DEFINE k == i + (m + 1 - Len(arrivals'))
               j == i + (Len(visits') - Len(arrivals'))
    <3>1. k \in 1..(m + 1)
      BY <2>3, <2>6, <2>8, GoalAssignmentConstants
    <3>2. j \in 1..Len(visits') /\ j + (n + 1 - Len(visits')) = k + (n - m)
      BY <2>3, <2>8
    <3> HIDE DEF k, j
    <3>3. visits'[j] = V[k + (n - m)]
      BY <2>7, <3>2
    <3>4. arrivals'[i] = A[k]
      BY <2>6 DEF k
    <3>5. arrivals'[i] = visits'[j]
      BY <2>5, <3>1, <3>3, <3>4
    <3> QED BY <3>5 DEF j
  <2> QED BY <2>6, <2>8, <2>9 DEF ArrivalsAreVisits
<1>3. CASE ~overtaken /\ ~(enabled /\ Reached # {})
  <2>1. visits' = visits /\ arrivals' = arrivals
    BY <1>0, <1>3, VisitsFrame DEF HistoryNext, RecordArrival
  <2> QED BY <1>3, <2>1 DEF HInv, ArrivalsAreVisits
<1> QED BY <1>1, <1>2, <1>3

LEMMA HInvStep == HInv /\ [HistoryNext]_allVars => HInv'
<1> SUFFICES ASSUME HInv, [HistoryNext]_allVars PROVE HInv'
  OBVIOUS
<1>1. CASE HistoryNext
  <2>1. IInv'
    BY <1>1, Inductive DEF HInv, HistoryNext
  <2>2. overtaken' \in BOOLEAN
    <3>1. AllFree' \in BOOLEAN /\ overtaken \in BOOLEAN
      BY DEF HInv, AllFree
    <3> QED BY <1>1, <3>1 DEF HistoryNext, RecordCause, GivenBackUnanswered, SentBeforeOutcome
  <2>3. ASSUME ~overtaken' PROVE OnTrack'
    <3>1. CASE AllFree'
      <4>1. IInv' /\ AllFree' => OnTrack'
        BY FreeIsOnTrack, PTL
      <4> QED BY <2>1, <3>1, <4>1
    <3>2. CASE ~AllFree'
      <4>1. ~overtaken /\ ~GivenBackUnanswered /\ ~SentBeforeOutcome
        BY <1>1, <2>3, <3>2 DEF HistoryNext, RecordCause
      <4> QED BY <1>1, <3>2, <4>1, OnTrackStep DEF HInv, HistoryNext
    <3> QED BY <3>1, <3>2
  <2>4. ~overtaken' => ArrivalsAreVisits'
    BY <1>1, ArrivalsStep
  <2> QED BY <2>1, <2>2, <2>3, <2>4 DEF HInv
<1>2. CASE UNCHANGED allVars
  <2>1. IInv' /\ UNCHANGED <<vars, historyVars>>
    BY <1>2, Inductive DEF HInv, allVars
  <2> QED BY <2>1 DEF HInv, OnTrack, OneOutstanding, HeadedForCurrent, NothingForgotten, RoomForVisit,
         ArrivalsAreVisits, VisitsNear, Outstanding, Unanswered, historyVars, vars, memoryVars,
         inputVars, navVars
<1> QED BY <1>1, <1>2

LEMMA HistoryInvariance == HistorySpec => []HInv
  BY HInvStarts, HInvStep, PTL DEF HistorySpec

-----------------------------------------------------------------------------
(* Whatever the permission and the goal timeout do, two goals are under    *)
(* way only after one of the two causes.                                   *)
THEOREM OneGoalIsSentAtATime == HistorySpec => []TwoGoalsHaveACause
<1>1. HInv => TwoGoalsHaveACause
  <2> SUFFICES ASSUME HInv, ~overtaken PROVE Cardinality(InFlight) <= 1
    BY DEF TwoGoalsHaveACause
  <2>1. \A g, h \in InFlight : g = h
    BY DEF HInv, OnTrack, OneOutstanding, Outstanding, InFlight
  <2>2. CASE InFlight = {}
    BY <2>2, FS_EmptySet
  <2>3. ASSUME NEW g \in InFlight PROVE Cardinality(InFlight) <= 1
    <3>1. InFlight = {g}
      BY <2>1
    <3>2. Cardinality(InFlight) = 1
      BY <3>1, FS_Singleton
    <3> QED BY <3>2
  <2> QED BY <2>2, <2>3
<1> QED BY <1>1, HistoryInvariance, PTL

(* Whatever the permission and the goal timeout do, an outcome is recorded *)
(* at another goal's place only after one of the two causes.               *)
THEOREM OutcomesAreRecordedAtTheirGoal == HistorySpec => StrayOutcomesHaveACause
<1> DEFINE AtItsGoal ==
      ~overtaken /\ enabled =>
        /\ \A g \in Goals :
             /\ Result(g) => IF goalStatus[g] = "succeeded"
                             THEN visits'[Len(visits')] = dest[g]
                             ELSE lastFailed' = dest[g]
             /\ GoalRejected(g) => lastFailed' = dest[g]
        /\ TickExpired => lastFailed' = dest[handle]
<1>1. HInv => AtItsGoal
  <2> SUFFICES ASSUME HInv, ~overtaken, enabled PROVE AtItsGoal
    OBVIOUS
  <2>1. ASSUME NEW g \in Goals, Result(g)
        PROVE  IF goalStatus[g] = "succeeded" THEN visits'[Len(visits')] = dest[g]
                                              ELSE lastFailed' = dest[g]
    <3>1. current \in Places /\ dest[g] = current
      BY <2>1, OutcomeOfCurrent DEF Result, ResultReady, Terminal, Outstanding
    <3>2. CASE goalStatus[g] = "succeeded"
      <4>1. visits' = Latest(Append(visits, current))
        BY <2>1, <3>2 DEF Result, RecordSuccessfulVisit, Latest
      <4>2. visits \in Seq(Places) /\ Len(visits) <= HistoryLimit
        BY DEF HInv, IInv, TypeOK, PlacesTypeOK
      <4>3. visits'[Len(visits')] = current
        BY <3>1, <4>1, <4>2, LatestProperties
      <4> QED BY <3>1, <3>2, <4>3
    <3>3. CASE goalStatus[g] # "succeeded"
      BY <2>1, <3>1, <3>3 DEF Result, RecordFailedGoal
    <3> QED BY <3>2, <3>3
  <2>2. ASSUME NEW g \in Goals, GoalRejected(g) PROVE lastFailed' = dest[g]
    <3>1. dest[g] = current
      BY <2>2, OutcomeOfCurrent DEF GoalRejected, ResponseReady, Outstanding
    <3> QED BY <2>2, <3>1 DEF GoalRejected, RecordFailedGoal
  <2>3. ASSUME TickExpired PROVE lastFailed' = dest[handle]
    <3>1. handle \in Outstanding
      BY <2>3 DEF TickExpired, Expired, HInv, IInv, TypeOK, NodeTypeOK, HandleIsUsable, Usable,
                  Terminal, Outstanding
    <3>2. dest[handle] = current
      BY <3>1, OutcomeOfCurrent
    <3> QED BY <2>3, <3>2 DEF TickExpired, RecordFailedGoal
  <2> QED BY <2>1, <2>2, <2>3
<1>2. HInv => [AtItsGoal]_allVars
  BY <1>1
<1> QED BY <1>2, HistoryInvariance, PTL DEF StrayOutcomesHaveACause

(* Without such a cause no place is reached that MaxVisits of the latest   *)
(* HistoryLimit arrivals were near to.                                     *)
THEOREM NoPlaceIsVisitedTooOften == HistorySpec => ArrivalsAreSpaced
<1> DEFINE Spaced ==
      ~overtaken /\ enabled /\ LoopRadius > 0 /\ MaxVisits > 0 =>
        \A g \in Reached :
          Cardinality({i \in DOMAIN arrivals : Dist(dest[g], arrivals[i]) <= LoopRadius}) < MaxVisits
<1>1. HInv /\ HistoryNext => Spaced
  <2> SUFFICES ASSUME HInv, HistoryNext, ~overtaken, enabled, LoopFilter, NEW g \in Reached
               PROVE  Cardinality({i \in DOMAIN arrivals : Dist(dest[g], arrivals[i]) <= LoopRadius}) < MaxVisits
    BY DEF LoopFilter
  <2> DEFINE A == {i \in DOMAIN arrivals : Dist(current, arrivals[i]) <= LoopRadius}
             V == {i \in DOMAIN visits : Dist(current, visits[i]) <= LoopRadius}
             k == Len(visits) - Len(arrivals)
             f == [i \in A |-> i + k]
  <2>1. dest[g] = current /\ Cardinality(V) < MaxVisits
    BY ReachedIsCurrent DEF HistoryNext, HInv, OnTrack, RoomForVisit, VisitsNear
  <2>2. /\ ArrivalsAreVisits /\ visits \in Seq(Places)
        /\ DOMAIN arrivals = 1..Len(arrivals) /\ Len(arrivals) \in Nat
        /\ DOMAIN visits = 1..Len(visits) /\ Len(visits) \in Nat
    BY LenProperties DEF HInv, IInv, TypeOK, PlacesTypeOK, ArrivalsAreVisits
  <2>3. IsFiniteSet(V) /\ IsFiniteSet(A)
    <3>1. IsFiniteSet(1..Len(visits)) /\ IsFiniteSet(1..Len(arrivals))
      BY <2>2, FS_Interval
    <3> QED BY <2>2, <3>1, FS_Subset
  <2>4. f \in Injection(A, V)
    <3>1. \A i \in A : i + k \in V
      BY <2>2 DEF ArrivalsAreVisits
    <3>2. \A i, j \in A : i + k = j + k => i = j
      BY <2>2
    <3> HIDE DEF A, V, k
    <3> QED BY <3>1, <3>2 DEF Injection, IsInjective
  <2> HIDE DEF A, V, f
  <2>5. Cardinality(A) <= Cardinality(V) /\ Cardinality(A) \in Nat /\ Cardinality(V) \in Nat
    BY <2>3, <2>4, FS_Injection, FS_CardinalityType
  <2>6. Cardinality(A) < MaxVisits
    BY <2>1, <2>5, GoalAssignmentConstants
  <2> QED BY <2>1, <2>6 DEF A
<1>2. HInv /\ [HistoryNext]_allVars => [Spaced]_allVars
  BY <1>1
<1> QED BY <1>2, HistoryInvariance, PTL DEF HistorySpec, ArrivalsAreSpaced
=============================================================================
