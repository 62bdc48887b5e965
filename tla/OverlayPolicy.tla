--------------------------- MODULE OverlayPolicy ---------------------------
(***************************************************************************)
(* What the refiner promises of its overlay ("Authority Boundary" of its   *)
(* README), with no files, threads or timers: jobs are judged one after    *)
(* the other, an overlay is an accepted job of the current run, overlays   *)
(* only move forward, and one is given up only when a newer job has been   *)
(* judged.                                                                 *)
(***************************************************************************)
EXTENDS Naturals

CONSTANT Jobs                 \* the numbers of jobs, positive

VARIABLES judged, accepted, overlay, lastShown

vars == <<judged, accepted, overlay, lastShown>>

NoOverlay == 0

Init == judged = {} /\ accepted = {} /\ overlay = NoOverlay /\ lastShown = NoOverlay

Judge(j) ==
  /\ \A k \in judged : k < j
  /\ judged' = judged \cup {j}
  /\ accepted' \in {accepted, accepted \cup {j}}
  /\ UNCHANGED <<overlay, lastShown>>

Show(j) ==
  /\ j \in accepted
  /\ j >= lastShown
  /\ overlay' = j
  /\ lastShown' = j
  /\ UNCHANGED <<judged, accepted>>

Withdraw ==
  /\ \E j \in judged : j > overlay
  /\ overlay' = NoOverlay
  /\ UNCHANGED <<judged, accepted, lastShown>>

(* The node starts again and knows nothing of what it has shown.           *)
NewRun ==
  /\ judged' = {} /\ accepted' = {}
  /\ overlay' = NoOverlay /\ lastShown' = NoOverlay

Next == \/ \E j \in Jobs : Judge(j)
        \/ \E j \in accepted : Show(j)
        \/ Withdraw
        \/ NewRun

Spec == Init /\ [][Next]_vars
=============================================================================
