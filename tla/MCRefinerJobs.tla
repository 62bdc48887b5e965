--------------------------- MODULE MCRefinerJobs ---------------------------
(* Instances of RefinerJobs for TLC.                                        *)
EXTENDS RefinerJobs

Here == [x |-> 0, yaw |-> 0]
There == [x |-> 1, yaw |-> 0]
TwoPoses == {Here, There}
OnePose == {Here}
=============================================================================
