----------------------------- MODULE ModePolicy -----------------------------
(***************************************************************************)
(* What the coordinator promises of its mode, its arming state and the     *)
(* permission to explore, with no timers, messages or goal handles: the    *)
(* state model of the docstring of coordinator_node.py, with the two       *)
(* additions the code makes, arming and the perception sweep.              *)
(***************************************************************************)
VARIABLES mode, armed, explEnabled

vars == <<mode, armed, explEnabled>>

Outcomes == {"TARGET_REACHED", "TARGET_FAILED"}

Init ==
  /\ armed \in BOOLEAN
  /\ explEnabled = armed
  /\ mode = IF armed THEN "EXPLORING" ELSE "IDLE"

Explore == mode' = "EXPLORING" /\ explEnabled' = TRUE

Arm == ~armed /\ armed' = TRUE /\ Explore

Disarm == armed /\ armed' = FALSE /\ mode' = "IDLE" /\ explEnabled' = FALSE

(* A command is taken in any mode, but only while armed.                   *)
Command ==
  /\ armed
  /\ mode' = "SEMANTIC_QUERYING"
  /\ explEnabled' = FALSE
  /\ UNCHANGED armed

Select ==
  /\ mode = "SEMANTIC_QUERYING"
  /\ mode' = "SEMANTIC_NAV"
  /\ UNCHANGED <<armed, explEnabled>>

Arrive ==
  /\ mode = "SEMANTIC_NAV"
  /\ mode' = "TARGET_REACHED"
  /\ UNCHANGED <<armed, explEnabled>>

(* A failure may come late, from a goal of an earlier command.             *)
GiveUp ==
  /\ mode # "PERCEPTION_SWEEP"
  /\ mode' = "TARGET_FAILED"
  /\ UNCHANGED <<armed, explEnabled>>

Resume == armed /\ mode \in Outcomes /\ Explore /\ UNCHANGED armed

BeginSweep ==
  /\ armed /\ mode = "EXPLORING"
  /\ mode' = "PERCEPTION_SWEEP"
  /\ explEnabled' = FALSE
  /\ UNCHANGED armed

EndSweep == armed /\ mode = "PERCEPTION_SWEEP" /\ Explore /\ UNCHANGED armed

Next == \/ Arm \/ Disarm \/ Command \/ Select \/ Arrive \/ GiveUp
        \/ Resume \/ BeginSweep \/ EndSweep

Spec == Init /\ [][Next]_vars
=============================================================================
