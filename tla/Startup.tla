------------------------------- MODULE Startup -------------------------------
(***************************************************************************)
(* isaac_semantic_nav.launch.py starts the warmup of the map and the       *)
(* checker of the simulator's contract.  They share no state, and a launch *)
(* argument of each decides whether it is started: a behaviour has one.    *)
(***************************************************************************)
EXTENDS StartupWarmup, ContractChecker

VARIABLE launched     \* launch_startup_warmup or launch_contract_checker

Init == /\ launched \in {"warmup", "checker"}
        /\ WarmupInit
        /\ CheckerInit

Warmup == /\ launched = "warmup" /\ WarmupNext
          /\ UNCHANGED <<launched, checkerVars>>

Checker == /\ launched = "checker" /\ CheckerNext
           /\ UNCHANGED <<launched, warmupVars>>

Next == Warmup \/ Checker

Spec == Init /\ [][Next]_<<launched, warmupVars, checkerVars>>
=============================================================================
