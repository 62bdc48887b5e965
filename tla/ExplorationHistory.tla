------------------------ MODULE ExplorationHistory ------------------------
(***************************************************************************)
(* GoalAssignment with a record of what has happened to it.                *)
(*                                                                         *)
(* The callbacks of goal_assignment_node.cpp act on the node's current     *)
(* goal whichever goal they are about, so a goal can be overtaken by a     *)
(* newer one.  The variables below are history: they are functions of the  *)
(* steps taken and constrain none of them.  They say when the node may be  *)
(* serving more than one goal, so that what goes wrong can be traced to    *)
(* the only two things that cause it, and they keep the arrivals that the  *)
(* anti-loop filter is about apart from the node's own visit_history_.     *)
(***************************************************************************)
EXTENDS GoalAssignment

VARIABLES
  overtaken,   \* a cause of a second goal has occurred since goals were last all free
  arrivals     \* the last HistoryLimit places reached since then, as Nav2 had them

historyVars == <<overtaken, arrivals>>
allVars == <<vars, historyVars>>

HistoryInit == Init /\ overtaken = FALSE /\ arrivals = <<>>

-----------------------------------------------------------------------------
AllFree == \A g \in Goals : goalStatus[g] = "free"

(* The permission comes back while a request is unanswered: the node is    *)
(* idle and may send again, and the answer is still to come.               *)
GivenBackUnanswered == ~enabled /\ enabled' /\ Unanswered # {}

(* A goal is sent before the outcome of a cancelled one has been heard.    *)
SentBeforeOutcome ==
  /\ cancelReq # {}
  /\ \E g \in Goals : goalStatus[g] = "free" /\ goalStatus'[g] = "requested"

RecordCause ==
  overtaken' = IF AllFree' THEN FALSE
               ELSE overtaken \/ GivenBackUnanswered \/ SentBeforeOutcome

(* Goals whose success is reported in this step.                           *)
Reached == {g \in Goals : goalStatus[g] = "succeeded" /\ goalStatus'[g] = "free"}

Latest(s) == IF Len(s) > HistoryLimit THEN Tail(s) ELSE s

RecordArrival ==
  IF overtaken \/ overtaken' THEN arrivals' = <<>>
  ELSE IF enabled /\ Reached # {}
       THEN \E g \in Reached : arrivals' = Latest(Append(arrivals, dest[g]))
       ELSE UNCHANGED arrivals

HistoryNext == Next /\ RecordCause /\ RecordArrival

HistorySpec == HistoryInit /\ [][HistoryNext]_allVars

-----------------------------------------------------------------------------
(* "One goal at a time": two goals are on their way or being driven to     *)
(* only after the permission came back with a request unanswered, or a     *)
(* goal was sent before the outcome of a cancelled one was heard.  Neither *)
(* withdrawing the permission nor a goal timeout does it by itself.        *)
InFlight == {g \in Goals \ cancelReq : goalStatus[g] \in {"requested", "executing"}}
TwoGoalsHaveACause == ~overtaken => Cardinality(InFlight) <= 1

(* The place recorded for a visit, a failure, a rejection or a timeout is  *)
(* the place of the goal it is about, unless one of the two causes has     *)
(* occurred: result_callback and the others record current_goal_x_.        *)
StrayOutcomesHaveACause ==
  [][~overtaken /\ enabled =>
       /\ \A g \in Goals :
            /\ Result(g) => IF goalStatus[g] = "succeeded"
                            THEN visits'[Len(visits')] = dest[g]
                            ELSE lastFailed' = dest[g]
            /\ GoalRejected(g) => lastFailed' = dest[g]
       /\ TickExpired => lastFailed' = dest[handle]]_allVars

(* The anti-loop filter: a place is reached only when fewer than MaxVisits *)
(* of the latest arrivals were near it.  The arrivals are those Nav2       *)
(* reported, so a visit the node forgets too early is seen.                *)
ArrivalsAreSpaced ==
  [][~overtaken /\ enabled /\ LoopRadius > 0 /\ MaxVisits > 0 =>
       \A g \in Reached :
         Cardinality({i \in DOMAIN arrivals : Dist(dest[g], arrivals[i]) <= LoopRadius})
           < MaxVisits]_allVars
=============================================================================
