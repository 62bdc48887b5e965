----------------------------- MODULE Nav2Server -----------------------------
(***************************************************************************)
(* The NavigateToPose action server as its two clients see it.  Nav2 is    *)
(* not part of the repository: this module keeps only what                 *)
(* coordinator_node.py and goal_assignment_node.cpp observe of it.         *)
(*                                                                         *)
(* The server drives to one goal at a time and a newly accepted goal       *)
(* preempts the running one, whose client is told ABORTED.  Requests,      *)
(* answers, cancellations and results travel asynchronously: each is a     *)
(* step of its own.  A goal handle's identity is an element of Goals; it   *)
(* becomes "free" again once its client has consumed the last message      *)
(* about it.                                                               *)
(***************************************************************************)
CONSTANT Goals

VARIABLES
  goalStatus,  \* what the server has done with each goal
  answered,    \* goals whose acceptance the client has processed
  cancelReq    \* goals a client has asked the server to cancel

navVars == <<goalStatus, answered, cancelReq>>

Terminal == {"succeeded", "aborted", "canceled"}
GoalStatuses == {"free", "requested", "rejected", "executing"} \cup Terminal

NavTypeOK ==
  /\ goalStatus \in [Goals -> GoalStatuses]
  /\ answered \subseteq Goals
  /\ cancelReq \subseteq Goals

NavInit ==
  /\ goalStatus = [g \in Goals |-> "free"]
  /\ answered = {}
  /\ cancelReq = {}

-----------------------------------------------------------------------------
(* The server's own steps.                                                 *)

Executing == {g \in Goals : goalStatus[g] = "executing"}

ServerAccept(g) ==
  /\ goalStatus[g] = "requested"
  /\ goalStatus' = [h \in Goals |-> IF h = g THEN "executing"
                                    ELSE IF h \in Executing THEN "aborted"
                                    ELSE goalStatus[h]]
  /\ UNCHANGED <<answered, cancelReq>>

ServerReject(g) ==
  /\ goalStatus[g] = "requested"
  /\ goalStatus' = [goalStatus EXCEPT ![g] = "rejected"]
  /\ UNCHANGED <<answered, cancelReq>>

ServerFinish(g) ==
  /\ g \in Executing
  /\ \E s \in {"succeeded", "aborted"} : goalStatus' = [goalStatus EXCEPT ![g] = s]
  /\ UNCHANGED <<answered, cancelReq>>

ServerCancel(g) ==
  /\ g \in Executing \cap cancelReq
  /\ goalStatus' = [goalStatus EXCEPT ![g] = "canceled"]
  /\ UNCHANGED <<answered, cancelReq>>

ServerStep ==
  \E g \in Goals :
    ServerAccept(g) \/ ServerReject(g) \/ ServerFinish(g) \/ ServerCancel(g)

-----------------------------------------------------------------------------
(* What a client finds in its queue, and what it does to these variables   *)
(* when it sends a goal or consumes a message.                             *)

ResponseReady(g) ==
  /\ g \notin answered
  /\ goalStatus[g] \notin {"free", "requested"}

Accepted(g) == goalStatus[g] # "rejected"

ResultReady(g) == g \in answered /\ goalStatus[g] \in Terminal

SendGoal(g) ==
  /\ goalStatus[g] = "free"
  /\ goalStatus' = [goalStatus EXCEPT ![g] = "requested"]
  /\ UNCHANGED <<answered, cancelReq>>

ConsumeRejection(g) ==
  /\ goalStatus' = [goalStatus EXCEPT ![g] = "free"]
  /\ UNCHANGED <<answered, cancelReq>>

ConsumeResult(g) ==
  /\ goalStatus' = [goalStatus EXCEPT ![g] = "free"]
  /\ answered' = answered \ {g}
  /\ cancelReq' = cancelReq \ {g}

AskCancel(S) ==
  /\ cancelReq' = cancelReq \cup S
  /\ UNCHANGED <<goalStatus, answered>>

-----------------------------------------------------------------------------
(* Goals the robot is being driven to without anyone having asked to stop. *)
Driving == Executing \ cancelReq

(* Goals whose request has been sent and whose answer the client has not   *)
(* seen yet.                                                               *)
Unanswered == {g \in Goals : goalStatus[g] # "free" /\ g \notin answered}

(* A goal a client may hold: accepted, its result not seen, and its        *)
(* cancellation not asked for, so that a cancel still reaches it.          *)
Usable(g) == g \in answered \ cancelReq /\ goalStatus[g] \in {"executing"} \cup Terminal

(* What the server and its clients keep between them: the client has seen  *)
(* the acceptance only of goals the server accepted, and asks to cancel    *)
(* only goals whose acceptance it has seen.                                *)
NavConsistent ==
  /\ \A g \in answered : goalStatus[g] \in {"executing"} \cup Terminal
  /\ cancelReq \subseteq answered

=============================================================================
