---------------------------- MODULE StartupWarmup ----------------------------
(***************************************************************************)
(* startup_map_warmup_node.py: before exploration the robot turns left,    *)
(* back, right and back, so that SLAM sees its surroundings, and then the  *)
(* node says that the warmup is complete.  A timer drives the phases by    *)
(* the time since their start; the executor may be late, and the robot     *)
(* obeys the last command it was sent until the next.                      *)
(***************************************************************************)
EXTENDS Integers

CONSTANTS
  StartupDelay,       \* startup_delay_sec
  Pause,              \* pause_between_sec
  TurnDuration,       \* scan_angle / scan_angular_speed
  MaxLate             \* longest time from a tick of the timer to the next

ASSUME StartupWarmupConstants ==
  /\ {StartupDelay, Pause} \subseteq Nat
  /\ {TurnDuration, MaxLate} \subseteq Nat \ {0}

VARIABLES
  phase,              \* _phase
  elapsed,            \* time since _phase_start, at the last tick
  command,            \* angular velocity last sent, in units of scan_angular_speed
  heading,            \* what the robot has turned since the start
  complete,           \* the messages on warmup_complete_topic
  interrupted         \* the process was stopped

warmupVars == <<phase, elapsed, command, heading, complete, interrupted>>

INIT_WAIT  == 0
TURN_LEFT  == 1
PAUSE_1    == 2
RETURN_1   == 3
PAUSE_2    == 4
TURN_RIGHT == 5
PAUSE_3    == 6
RETURN_2   == 7
DONE       == 8

Phases == INIT_WAIT..DONE

SignWithoutReturn(p) == IF p \in {TURN_LEFT, RETURN_2, RETURN_1} THEN 1 ELSE -1  \* mutant

(* The direction of a turn.                                                *)
Sign(p) == IF p \in {TURN_LEFT, RETURN_2} THEN 1 ELSE -1

Turns == {TURN_LEFT, RETURN_1, TURN_RIGHT, RETURN_2}

Duration(p) == IF p \in Turns THEN TurnDuration
               ELSE IF p = INIT_WAIT THEN StartupDelay ELSE Pause

WarmupInit == /\ phase = INIT_WAIT /\ elapsed = 0
              /\ command = 0 /\ heading = 0
              /\ complete = 0 /\ interrupted = FALSE

(* The first d units under the last command; then a command for the phase, *)
(* and at its end a stop and the next phase.                               *)
WarmupTick(d) ==
  /\ ~interrupted
  /\ phase # DONE
  /\ heading' = heading + command * d
  /\ LET over == elapsed + d >= Duration(phase)
     IN /\ command' = IF over \/ phase \notin Turns THEN 0 ELSE Sign(phase)
        /\ phase'   = IF over THEN phase + 1 ELSE phase
        /\ elapsed' = IF over THEN 0 ELSE elapsed + d
        /\ complete' = IF over /\ phase = RETURN_2 THEN complete + 1 ELSE complete
  /\ UNCHANGED interrupted

(* main: whoever waits for the warmup is told that it is complete, whether *)
(* the robot stands or not.                                                *)
Interrupt ==
  /\ ~interrupted
  /\ interrupted' = TRUE
  /\ complete' = IF phase = DONE THEN complete ELSE complete + 1
  /\ UNCHANGED <<phase, elapsed, command, heading>>

WarmupNext == (\E d \in 1..MaxLate : WarmupTick(d)) \/ Interrupt

-----------------------------------------------------------------------------
AbsoluteTurn(n) == IF n < 0 THEN -n ELSE n

(* The warmup leaves the robot standing and looking where it looked        *)
(* before: each of its four turns starts and ends up to a tick late, so    *)
(* that it is off by four times the lateness at most, and by half of that  *)
(* in the middle.  The one message that it is complete comes at the end,   *)
(* or when the node is interrupted (and the robot may be turning).         *)
WarmupReturns ==
  /\ phase = DONE => command = 0 /\ AbsoluteTurn(heading) <= 4 * (MaxLate - 1)
  /\ phase = PAUSE_2 => command = 0 /\ AbsoluteTurn(heading) <= 2 * (MaxLate - 1)
  /\ complete = IF phase = DONE \/ interrupted THEN 1 ELSE 0
=============================================================================
