---------------------------- MODULE StartupProofs ----------------------------
(***************************************************************************)
(* The warmup and the contract checker, for every duration, lateness,      *)
(* contract, window, period and number of failures.                        *)
(***************************************************************************)
EXTENDS Startup, TLAPS

vars == <<launched, warmupVars, checkerVars>>

-----------------------------------------------------------------------------
(* The warmup.  The tick that starts a turn is 1 to MaxLate units after    *)
(* its phase began, and the one that ends it comes TurnDuration to         *)
(* TurnDuration + MaxLate - 1 units after that: the robot has turned by    *)
(* Least to Most.                                                          *)

Least == TurnDuration - MaxLate
Most  == TurnDuration + MaxLate - 2

(* Bounds of the heading when a phase begins.                              *)
Low(p)  == IF p <= TURN_LEFT THEN 0
           ELSE IF p <= RETURN_1 THEN Least
           ELSE IF p <= TURN_RIGHT THEN Least - Most
           ELSE IF p <= RETURN_2 THEN Least - 2 * Most
           ELSE 2 * (Least - Most)
High(p) == IF p <= TURN_LEFT THEN 0
           ELSE IF p <= RETURN_1 THEN Most
           ELSE IF p <= TURN_RIGHT THEN Most - Least
           ELSE IF p <= RETURN_2 THEN Most - 2 * Least
           ELSE 2 * (Most - Least)

WarmupTypeOK ==
  /\ phase \in Phases /\ elapsed \in Nat /\ command \in {-1, 0, 1}
  /\ heading \in Int /\ interrupted \in BOOLEAN

(* Within a turn the heading has followed the command since its first      *)
(* tick; everywhere else the robot stands.                                 *)
HeadingFollows ==
  IF phase \in Turns /\ elapsed > 0
  THEN /\ command = Sign(phase)
       /\ LET start == heading - Sign(phase) * elapsed
          IN IF Sign(phase) = 1
             THEN Low(phase) - MaxLate <= start /\ start <= High(phase) - 1
             ELSE Low(phase) + 1 <= start /\ start <= High(phase) + MaxLate
  ELSE command = 0 /\ Low(phase) <= heading /\ heading <= High(phase)

InTurn == phase \in Turns => elapsed < TurnDuration

OneMessage == complete = IF phase = DONE \/ interrupted THEN 1 ELSE 0

WarmupInv == WarmupTypeOK /\ HeadingFollows /\ InTurn /\ OneMessage

LEMMA WarmupStarts == WarmupInit => WarmupInv
<1> SUFFICES ASSUME WarmupInit PROVE WarmupInv
  OBVIOUS
<1>1. phase = 0 /\ elapsed = 0 /\ command = 0 /\ heading = 0 /\ complete = 0 /\ interrupted = FALSE
  BY DEF WarmupInit, INIT_WAIT
<1>2. WarmupTypeOK
  <2>1. interrupted \in BOOLEAN
    BY <1>1, Zenon
  <2> QED BY <1>1, <2>1 DEF WarmupTypeOK, Phases, INIT_WAIT, DONE
<1>3. HeadingFollows
  <2>1. Low(0) = 0 /\ High(0) = 0
    BY DEF Low, High, TURN_LEFT
  <2> QED BY <1>1, <2>1 DEF HeadingFollows
<1>4. InTurn /\ OneMessage
  BY <1>1 DEF InTurn, OneMessage, DONE, Turns, TURN_LEFT, RETURN_1, TURN_RIGHT, RETURN_2
<1> QED BY <1>2, <1>3, <1>4 DEF WarmupInv

LEMMA TickKeeps ==
  ASSUME WarmupInv, NEW d \in 1..MaxLate, WarmupTick(d)
  PROVE  WarmupInv'
<1> USE StartupWarmupConstants
    DEF INIT_WAIT, TURN_LEFT, PAUSE_1, RETURN_1, PAUSE_2, TURN_RIGHT, PAUSE_3,
        RETURN_2, DONE, Phases, Turns
<1> DEFINE over == elapsed + d >= Duration(phase)
<1>1. /\ d \in Nat \ {0} /\ d <= MaxLate
      /\ phase \in 0..7 /\ elapsed \in Nat /\ heading \in Int /\ MaxLate \in Nat \ {0}
      /\ TurnDuration \in Nat \ {0} /\ ~interrupted
  BY DEF WarmupInv, WarmupTypeOK, WarmupTick
<1>2. /\ heading' = heading + command * d
      /\ command' = IF over \/ phase \notin Turns THEN 0 ELSE Sign(phase)
      /\ phase' = IF over THEN phase + 1 ELSE phase
      /\ elapsed' = IF over THEN 0 ELSE elapsed + d
      /\ complete' = IF over /\ phase = RETURN_2 THEN complete + 1 ELSE complete
      /\ interrupted' = interrupted
  BY DEF WarmupTick
<1>3. command \in {-1, 0, 1}
  BY DEF WarmupInv, WarmupTypeOK
<1>4. /\ heading' \in Int
      /\ command = 0 => heading' = heading
      /\ command = 1 => heading' = heading + d
      /\ command = -1 => heading' = heading - d
  <2>1. CASE command = 0
    BY <1>1, <1>2, <2>1
  <2>2. CASE command = 1
    BY <1>1, <1>2, <2>2
  <2>3. CASE command = -1
    BY <1>1, <1>2, <2>3
  <2> QED BY <1>3, <2>1, <2>2, <2>3
<1>5. WarmupTypeOK'
  <2>1. phase' \in Phases /\ elapsed' \in Nat
    BY <1>1, <1>2
  <2>2. command' \in {-1, 0, 1}
    BY <1>2 DEF Sign
  <2> QED BY <1>1, <1>2, <1>4, <2>1, <2>2 DEF WarmupTypeOK, WarmupInv
<1>6. OneMessage' /\ InTurn'
  <2>1. complete = 0
    BY <1>1 DEF OneMessage, WarmupInv
  <2>2. OneMessage'
    BY <1>1, <1>2, <2>1 DEF OneMessage
  <2>3. phase \in Turns => Duration(phase) = TurnDuration
    BY DEF Duration
  <2>4. CASE over
    <3>1. elapsed' = 0
      BY <1>2, <2>4
    <3> QED BY <1>1, <2>2, <3>1 DEF InTurn
  <2>5. CASE ~over
    <3>1. phase' = phase /\ elapsed' = elapsed + d
      BY <1>2, <2>5
    <3> QED BY <1>1, <2>2, <2>3, <2>5, <3>1 DEF InTurn
  <2> QED BY <2>4, <2>5
<1>7. HeadingFollows'
  <2>1. CASE phase \notin Turns
    <3>1. command = 0 /\ Low(phase) <= heading /\ heading <= High(phase)
      BY <2>1 DEF WarmupInv, HeadingFollows
    <3>2. heading' = heading /\ command' = 0
      BY <1>1, <1>2, <2>1, <3>1
    <3>3. phase' \in Turns => elapsed' = 0
      BY <1>1, <1>2, <2>1
    <3>4. phase' \in {phase, phase + 1} /\ Low(phase') = Low(phase) /\ High(phase') = High(phase)
      BY <1>1, <1>2, <2>1 DEF Low, High
    <3> QED BY <3>1, <3>2, <3>3, <3>4 DEF HeadingFollows
  <2>2. CASE phase \in {TURN_LEFT, RETURN_2}
    <3>1. Sign(phase) = 1 /\ Duration(phase) = TurnDuration
      BY <2>2 DEF Sign, Duration
    <3>2. CASE over
      <4>1. command' = 0 /\ elapsed' = 0 /\ phase' = phase + 1
        BY <1>2, <3>2
      <4>2. Low(phase) + Least <= heading' /\ heading' <= High(phase) + Most
        <5>1. CASE elapsed > 0
          <6>1. command = 1 /\ Low(phase) - MaxLate <= heading - elapsed
                /\ heading - elapsed <= High(phase) - 1
            BY <1>1, <2>2, <3>1, <5>1 DEF WarmupInv, HeadingFollows
          <6>2. heading' = heading + d /\ elapsed < TurnDuration /\ TurnDuration <= elapsed + d
            BY <1>4, <3>1, <3>2, <6>1, <2>2 DEF WarmupInv, InTurn
          <6> QED BY <1>1, <2>2, <6>1, <6>2 DEF Least, Most, Low, High
        <5>2. CASE elapsed = 0
          BY <1>1, <1>2, <2>2, <3>1, <3>2, <5>2 DEF WarmupInv, HeadingFollows, Least, Most, Low, High
        <5> QED BY <1>1, <5>1, <5>2
      <4>3. Low(phase + 1) = Low(phase) + Least /\ High(phase + 1) = High(phase) + Most
        BY <1>1, <2>2 DEF Low, High, Least, Most
      <4> QED BY <4>1, <4>2, <4>3 DEF HeadingFollows
    <3>3. CASE ~over
      <4>1. command' = 1 /\ elapsed' = elapsed + d /\ phase' = phase
        BY <1>2, <2>2, <3>1, <3>3
      <4>2. CASE elapsed > 0
        BY <1>1, <1>2, <2>2, <3>1, <4>1, <4>2 DEF WarmupInv, HeadingFollows, Low, High, Least, Most
      <4>3. CASE elapsed = 0
        BY <1>1, <1>2, <2>2, <3>1, <4>1, <4>3 DEF WarmupInv, HeadingFollows, Low, High, Least, Most
      <4> QED BY <1>1, <4>2, <4>3
    <3> QED BY <3>2, <3>3
  <2>3. CASE phase \in {RETURN_1, TURN_RIGHT}
    <3>1. Sign(phase) = -1 /\ Duration(phase) = TurnDuration
      BY <2>3 DEF Sign, Duration
    <3>2. CASE over
      <4>1. command' = 0 /\ elapsed' = 0 /\ phase' = phase + 1
        BY <1>2, <3>2
      <4>2. Low(phase) - Most <= heading' /\ heading' <= High(phase) - Least
        <5>1. CASE elapsed > 0
          <6>1. command = -1 /\ Low(phase) + 1 <= heading + elapsed
                /\ heading + elapsed <= High(phase) + MaxLate
            BY <1>1, <2>3, <3>1, <5>1 DEF WarmupInv, HeadingFollows
          <6>2. heading' = heading - d /\ elapsed < TurnDuration /\ TurnDuration <= elapsed + d
            BY <1>4, <3>1, <3>2, <6>1, <2>3 DEF WarmupInv, InTurn
          <6> QED BY <1>1, <2>3, <6>1, <6>2 DEF Least, Most, Low, High
        <5>2. CASE elapsed = 0
          BY <1>1, <1>2, <2>3, <3>1, <3>2, <5>2 DEF WarmupInv, HeadingFollows, Least, Most, Low, High
        <5> QED BY <1>1, <5>1, <5>2
      <4>3. Low(phase + 1) = Low(phase) - Most /\ High(phase + 1) = High(phase) - Least
        BY <1>1, <2>3 DEF Low, High, Least, Most
      <4> QED BY <4>1, <4>2, <4>3 DEF HeadingFollows
    <3>3. CASE ~over
      <4>1. command' = -1 /\ elapsed' = elapsed + d /\ phase' = phase
        BY <1>2, <2>3, <3>1, <3>3
      <4>2. CASE elapsed > 0
        BY <1>1, <1>2, <2>3, <3>1, <4>1, <4>2 DEF WarmupInv, HeadingFollows, Low, High, Least, Most
      <4>3. CASE elapsed = 0
        BY <1>1, <1>2, <2>3, <3>1, <4>1, <4>3 DEF WarmupInv, HeadingFollows, Low, High, Least, Most
      <4> QED BY <1>1, <4>2, <4>3
    <3> QED BY <3>2, <3>3
  <2> QED BY <2>1, <2>2, <2>3
<1> QED BY <1>5, <1>6, <1>7 DEF WarmupInv

LEMMA InterruptKeeps ==
  ASSUME WarmupInv, Interrupt
  PROVE  WarmupInv'
  BY DEF WarmupInv, WarmupTypeOK, HeadingFollows, InTurn, OneMessage, Interrupt

LEMMA WarmupStep == WarmupInv /\ [Next]_vars => WarmupInv'
<1> SUFFICES ASSUME WarmupInv, [Next]_vars PROVE WarmupInv'
  OBVIOUS
<1>1. CASE Warmup
  BY <1>1, TickKeeps, InterruptKeeps DEF Warmup, WarmupNext
<1>2. CASE UNCHANGED warmupVars
  BY <1>2 DEF warmupVars, WarmupInv, WarmupTypeOK, HeadingFollows, InTurn, OneMessage
<1> QED BY <1>1, <1>2 DEF Next, Checker, vars

LEMMA WarmupInvReturns == WarmupInv => WarmupReturns
<1> SUFFICES ASSUME WarmupInv PROVE WarmupReturns
  OBVIOUS
<1> USE StartupWarmupConstants DEF WarmupInv, WarmupTypeOK, HeadingFollows, Low, High, Least, Most,
      INIT_WAIT, TURN_LEFT, PAUSE_1, RETURN_1, PAUSE_2, TURN_RIGHT, PAUSE_3, RETURN_2,
      DONE, Turns
<1>1. phase = DONE => /\ command = 0
                      /\ -(4 * (MaxLate - 1)) <= heading /\ heading <= 4 * (MaxLate - 1)
  OBVIOUS
<1>2. phase = PAUSE_2 => /\ command = 0
                         /\ -(2 * (MaxLate - 1)) <= heading /\ heading <= 2 * (MaxLate - 1)
  OBVIOUS
<1> QED BY <1>1, <1>2 DEF WarmupReturns, AbsoluteTurn, OneMessage

(* Whatever the speed of the robot and the lateness of the timer, the      *)
(* warmup ends with the robot standing and within four times the lateness  *)
(* of where it looked before, and is announced once.                       *)
(* (startup_map_warmup_node.py, _tick, main)                               *)
THEOREM WarmupAlwaysReturns == Spec => []WarmupReturns
<1>1. Init => WarmupInv
  BY WarmupStarts DEF Init
<1>2. WarmupInv /\ [Next]_vars => WarmupInv'
  BY WarmupStep
<1>3. WarmupInv => WarmupReturns
  BY WarmupInvReturns
<1> QED BY <1>1, <1>2, <1>3, PTL DEF Spec, vars
-----------------------------------------------------------------------------
(* The contract checker.                                                    *)

Reports(k) == k * Period     \* the time of k reports

LEMMA ReportTimes ==
  /\ Period \in Nat \ {0}
  /\ Reports(1) = Period
  /\ \A k \in Nat : Reports(k) \in Nat
  /\ \A k \in Nat \ {0} : Reports(k) = Reports(k - 1) + Period /\ Reports(k) >= Period
  /\ \A k, l \in Nat : k <= l => Reports(k) <= Reports(l)
<1>1. Period \in Nat \ {0}
  BY ContractCheckerConstants
<1>2. \A k \in Nat : Reports(k) \in Nat
  BY <1>1 DEF Reports
<1>3. \A k \in Nat \ {0} : Reports(k) = Reports(k - 1) + Period
  BY <1>1 DEF Reports
<1>4. \A k, l \in Nat : k <= l => Reports(k) <= Reports(l)
  BY <1>1 DEF Reports
<1>5. Reports(1) = Period
  BY <1>1 DEF Reports
<1> QED
  <2>1. \A k \in Nat \ {0} : Reports(k) >= Period
    BY <1>4, <1>5
  <2> QED BY <1>1, <1>2, <1>3, <1>4, <1>5, <2>1

LEMMA Parameters ==
  /\ Grace \in Nat /\ WindowSize \in Nat /\ MaxFailures \in Nat \ {0}
  /\ Never \notin Int
  BY ContractCheckerConstants

Limited(t) == Contracts[t].requireSample /\ Contracts[t].maxAge # NoLimit

CheckerTypeOK ==
  /\ silent \in [Topics -> Nat \cup {Never}]
  /\ running \in Nat /\ due \in 0..Period
  /\ failures \in 0..MaxFailures /\ down \in BOOLEAN

(* A topic that has been quiet since k reports ago has made k of them fail. *)
QuietFails ==
  \A t \in Topics : \A k \in 1..MaxFailures :
    /\ ~down
    /\ Limited(t)
    /\ Quiet(t) > Contracts[t].maxAge + (Reports(k) - due)
    /\ running > Grace + (Reports(k) - due)
    => failures >= k

(* Failures in a row are a report apart, and all after the grace period.   *)
FailuresTakeTime ==
  /\ failures >= 1 => status = "failed"
  /\ ~down => failures < MaxFailures
  /\ ~down /\ failures >= 1 => running + due >= Grace + Reports(failures)

DownForGood ==
  down => /\ status = "failed" /\ due = Period
          /\ running >= Grace + Reports(MaxFailures - 1)

CheckerInv == CheckerTypeOK /\ QuietFails /\ FailuresTakeTime /\ DownForGood

LEMMA CheckerStarts == CheckerInit => CheckerInv
<1> SUFFICES ASSUME CheckerInit PROVE CheckerInv
  OBVIOUS
<1> USE Parameters, ReportTimes
<1>1. CheckerTypeOK
  <2>1. down \in BOOLEAN
    BY Zenon DEF CheckerInit
  <2> QED BY <2>1 DEF CheckerInit, CheckerTypeOK
<1>2. ~down /\ failures = 0 /\ running = 0 /\ due = Period
  BY Zenon DEF CheckerInit
<1>3. QuietFails
  <2> SUFFICES ASSUME NEW t \in Topics, NEW k \in 1..MaxFailures,
                      running > Grace + (Reports(k) - due)
               PROVE  FALSE
    BY DEF QuietFails
  <2>1. Reports(k) \in Nat /\ Reports(k) >= Period
    OBVIOUS
  <2> QED BY <1>2, <2>1
<1>4. FailuresTakeTime
  BY <1>2 DEF FailuresTakeTime
<1>5. DownForGood
  BY <1>2 DEF DownForGood
<1> QED BY <1>1, <1>3, <1>4, <1>5 DEF CheckerInv

LEMMA LimitedAge ==
  \A t \in Topics : Limited(t) => Contracts[t].maxAge \in Nat
  BY ContractCheckerConstants DEF Topics, Limited

LEMMA QuietIsNat == CheckerTypeOK => \A t \in Topics : Quiet(t) \in Nat
  BY DEF CheckerTypeOK, Quiet

(* A quiet topic makes the report fail.                                    *)
LEMMA QuietViolates ==
  ASSUME CheckerTypeOK, NEW t \in Topics, Limited(t), Quiet(t) > Contracts[t].maxAge
  PROVE  Violations(FALSE) # {}
<1> DEFINE traffic == TrafficViolations(Contracts[t], Purge(window[t]), silent[t])
<1>1. Contracts[t].maxAge \in Nat /\ Never \notin Int
  BY LimitedAge, Parameters
<1>2. traffic # {}
  <2>1. CASE silent[t] = Never
    BY <2>1 DEF TrafficViolations, Limited
  <2>2. CASE silent[t] # Never
    BY <1>1, <2>2 DEF TrafficViolations, Limited, Quiet, AgeViolations, When
  <2> QED BY <2>1, <2>2
<1>3. PICK code \in traffic : TRUE
  BY <1>2
<1>4. traffic \subseteq TopicViolations(t, FALSE)
  BY DEF TopicViolations
<1>5. <<t, code>> \in {t} \X TopicViolations(t, FALSE)
  BY <1>3, <1>4
<1> QED BY <1>5 DEF Violations

LEMMA ArrivesKeeps ==
  ASSUME CheckerInv, NEW u \in Topics, Arrives(u)
  PROVE  CheckerInv'
<1> USE Parameters, ReportTimes
<1>1. /\ silent' = [silent EXCEPT ![u] = 0]
      /\ UNCHANGED <<running, due, failures, status, down>>
  BY DEF Arrives
<1>2. CheckerTypeOK'
  BY <1>1 DEF CheckerInv, CheckerTypeOK
<1>3. QuietFails'
  <2> SUFFICES ASSUME NEW t \in Topics, NEW k \in 1..MaxFailures,
                      ~down, Limited(t),
                      Quiet(t)' > Contracts[t].maxAge + (Reports(k) - due),
                      running > Grace + (Reports(k) - due)
               PROVE  failures >= k
    BY <1>1 DEF QuietFails, Limited, Reports
  <2>1. due \in Nat /\ due <= Period /\ Reports(k) \in Nat /\ Reports(k) >= Period
        /\ Contracts[t].maxAge \in Nat
    BY LimitedAge DEF CheckerInv, CheckerTypeOK
  <2>2. CASE t = u
    <3>1. Quiet(t)' = 0
      BY <1>1, <2>2 DEF Quiet, CheckerInv, CheckerTypeOK
    <3> QED BY <2>1, <3>1
  <2>3. CASE t # u
    <3>1. Quiet(t)' = Quiet(t)
      BY <1>1, <2>3 DEF Quiet, CheckerInv, CheckerTypeOK
    <3> QED BY <3>1 DEF CheckerInv, QuietFails
  <2> QED BY <2>2, <2>3
<1>4. FailuresTakeTime' /\ DownForGood'
  BY <1>1 DEF CheckerInv, FailuresTakeTime, DownForGood, Reports
<1> QED BY <1>2, <1>3, <1>4 DEF CheckerInv

LEMMA TimePassesKeeps ==
  ASSUME CheckerInv, TimePasses
  PROVE  CheckerInv'
<1> USE Parameters, ReportTimes
<1>1. /\ due > 0 /\ due \in Nat /\ due <= Period /\ running \in Nat
      /\ failures \in Nat /\ failures <= MaxFailures /\ MaxFailures \in Nat
      /\ silent \in [Topics -> Nat \cup {Never}]
  BY DEF CheckerInv, CheckerTypeOK, TimePasses
<1>2. /\ silent' = [t \in Topics |-> IF silent[t] = Never THEN Never ELSE Older(silent[t])]
      /\ running' = Older(running)
      /\ due' = IF down THEN due ELSE due - 1
      /\ UNCHANGED <<failures, status, down>>
  BY DEF TimePasses
<1>3. Horizon \in Nat /\ Horizon >= Grace + Reports(failures)
  <2>1. Reports(failures) <= Reports(MaxFailures + 1) /\ Reports(MaxFailures + 1) \in Nat
    BY <1>1
  <2>2. Horizon = Grace + Reports(MaxFailures + 1) + WindowSize + 1
    BY DEF Horizon, Reports
  <2>3. Reports(failures) \in Nat
    BY <1>1
  <2> QED BY <2>1, <2>2, <2>3
<1>4. \A age \in Nat : /\ Older(age) \in {age, age + 1}
                       /\ age < Horizon => Older(age) = age + 1
  BY <1>3 DEF Older
<1>clock. running' \in Nat /\ running <= running' /\ running' <= running + 1
      /\ (running < Horizon => running' = running + 1)
  <2>1. running' = Older(running)
    BY <1>2
  <2> QED BY <1>1, <1>3, <1>4, <2>1
<1>5. CheckerTypeOK'
  <2>1. due' \in 0..Period
    BY <1>1, <1>2
  <2>2. silent' \in [Topics -> Nat \cup {Never}]
    <3> SUFFICES ASSUME NEW t \in Topics
                 PROVE  (IF silent[t] = Never THEN Never ELSE Older(silent[t])) \in Nat \cup {Never}
      BY <1>2
    <3> QED BY <1>1, <1>4
  <2>3. failures' \in 0..MaxFailures /\ down' \in BOOLEAN
    BY <1>2, Zenon DEF CheckerInv, CheckerTypeOK
  <2> QED BY <1>clock, <2>1, <2>2, <2>3 DEF CheckerTypeOK
<1>6. QuietFails'
  <2> SUFFICES ASSUME NEW t \in Topics, NEW k \in 1..MaxFailures,
                      ~down, Limited(t),
                      Quiet(t)' > Contracts[t].maxAge + (Reports(k) - (due - 1)),
                      running' > Grace + (Reports(k) - (due - 1))
               PROVE  failures >= k
    BY <1>2 DEF QuietFails, Limited, Reports
  <2>1. Reports(k) \in Nat /\ Contracts[t].maxAge \in Nat
    BY LimitedAge
  <2>2. Quiet(t) \in Nat /\ Quiet(t)' \in {Quiet(t), Quiet(t) + 1}
    BY <1>1, <1>2, <1>4 DEF Quiet
  <2>3. running' \in {running, running + 1}
    BY <1>1, <1>clock
  <2>4. /\ Quiet(t) > Contracts[t].maxAge + (Reports(k) - due)
        /\ running > Grace + (Reports(k) - due)
    BY <1>1, <2>1, <2>2, <2>3
  <2> QED BY <2>4 DEF CheckerInv, QuietFails
<1>7. FailuresTakeTime'
  <2>1. (failures >= 1 => status = "failed") /\ (~down => failures < MaxFailures)
    BY DEF CheckerInv, FailuresTakeTime
  <2>2. ASSUME ~down, failures >= 1
        PROVE  running' + due' >= Grace + Reports(failures)
    <3>1. running + due >= Grace + Reports(failures) /\ due' = due - 1
      BY <1>2, <2>2 DEF CheckerInv, FailuresTakeTime
    <3>2. Reports(failures) \in Nat
      BY <1>1
    <3>3. CASE running < Horizon
      BY <1>1, <1>clock, <3>1, <3>2, <3>3
    <3>4. CASE running >= Horizon
      BY <1>1, <1>3, <1>clock, <3>1, <3>2, <3>4
    <3> QED BY <1>1, <1>3, <3>3, <3>4
  <2> QED BY <1>2, <2>1, <2>2 DEF FailuresTakeTime, Reports
<1>8. DownForGood'
  <2>1. running' >= running
    BY <1>1, <1>clock
  <2>2. Reports(MaxFailures - 1) \in Nat
    OBVIOUS
  <2>3. ASSUME down
        PROVE  status = "failed" /\ due' = Period /\ running' >= Grace + Reports(MaxFailures - 1)
    <3>1. status = "failed" /\ due = Period /\ running >= Grace + Reports(MaxFailures - 1)
      BY <2>3 DEF CheckerInv, DownForGood
    <3>2. due' = due
      BY <1>2, <2>3
    <3> QED BY <1>1, <1>clock, <2>2, <3>1, <3>2
  <2> QED BY <1>2, <2>3 DEF DownForGood, Reports
<1> QED BY <1>5, <1>6, <1>7, <1>8 DEF CheckerInv

LEMMA ReportKeeps ==
  ASSUME CheckerInv, Report
  PROVE  CheckerInv'
<1> USE Parameters, ReportTimes
<1> DEFINE grace == running < Grace
           failed == Violations(grace) # {}
<1>1. /\ due = 0 /\ due' = Period /\ ~down
      /\ UNCHANGED <<silent, running>>
  BY DEF CheckerInv, DownForGood, Report
<1>2. /\ status' = IF grace THEN "grace" ELSE IF failed THEN "failed" ELSE "ok"
      /\ failures' = IF grace \/ ~failed THEN 0
                     ELSE IF failures < MaxFailures THEN failures + 1 ELSE failures
      /\ down' = (~grace /\ failed /\ failures + 1 >= MaxFailures)
  BY DEF Report
<1>3. /\ running \in Nat /\ failures \in Nat /\ failures < MaxFailures
      /\ MaxFailures \in Nat \ {0} /\ silent \in [Topics -> Nat \cup {Never}]
  BY <1>1 DEF CheckerInv, CheckerTypeOK, FailuresTakeTime
<1> HIDE DEF grace, failed
<1>4. CASE grace \/ ~failed
  <2>1. failures' = 0 /\ ~down'
    BY <1>2, <1>4
  <2>2. CheckerTypeOK'
    <3>1. down' \in BOOLEAN
      BY <1>2, Zenon
    <3> QED BY <1>1, <1>3, <2>1, <3>1 DEF CheckerTypeOK
  <2>3. QuietFails'
    <3> SUFFICES ASSUME NEW t \in Topics, NEW k \in 1..MaxFailures, Limited(t),
                        Quiet(t)' > Contracts[t].maxAge + (Reports(k) - Period),
                        running > Grace + (Reports(k) - Period)
                 PROVE  FALSE
      BY <1>1 DEF QuietFails, Limited, Reports
    <3>1. Reports(k) \in Nat /\ Reports(k) >= Period /\ Contracts[t].maxAge \in Nat
      BY LimitedAge
    <3>2. Quiet(t)' = Quiet(t) /\ Quiet(t) \in Nat
      BY <1>1, <1>3 DEF Quiet
    <3>3. Quiet(t) > Contracts[t].maxAge /\ ~grace
      BY <1>3, <3>1, <3>2 DEF grace
    <3>4. Violations(FALSE) # {}
      BY <3>3, QuietViolates DEF CheckerInv
    <3>5. grace = FALSE
      BY <3>3 DEF grace
    <3>6. failed
      BY <3>4, <3>5 DEF failed
    <3> QED BY <1>4, <3>3, <3>6
  <2> QED BY <1>3, <2>1, <2>2, <2>3 DEF CheckerInv, FailuresTakeTime, DownForGood
<1>5. CASE ~grace /\ failed
  <2>1. status' = "failed" /\ failures' = failures + 1 /\ down' = (failures + 1 >= MaxFailures)
    BY <1>2, <1>3, <1>5
  <2>2. CheckerTypeOK'
    <3>1. down' \in BOOLEAN
      BY <1>2, Zenon
    <3> QED BY <1>1, <1>3, <2>1, <3>1 DEF CheckerTypeOK
  <2>3. QuietFails'
    <3> SUFFICES ASSUME NEW t \in Topics, NEW k \in 1..MaxFailures, Limited(t),
                        Quiet(t)' > Contracts[t].maxAge + (Reports(k) - Period),
                        running > Grace + (Reports(k) - Period)
                 PROVE  failures + 1 >= k
      BY <1>1, <2>1 DEF QuietFails, Limited, Reports
    <3>1. Quiet(t)' = Quiet(t) /\ Quiet(t) \in Nat
      BY <1>1, <1>3 DEF Quiet
    <3>2. CASE k = 1
      BY <1>3, <3>2
    <3>3. CASE k # 1
      <4>1. k - 1 \in 1..MaxFailures /\ Reports(k - 1) = Reports(k) - Period
            /\ Reports(k - 1) \in Nat
        BY <3>3
      <4>2. failures >= k - 1
        BY <1>1, <3>1, <4>1 DEF CheckerInv, QuietFails
      <4> QED BY <1>3, <4>1, <4>2
    <3> QED BY <3>2, <3>3
  <2>4. running >= Grace + Reports(failures)
    <3>1. CASE failures = 0
      BY <1>3, <1>5, <3>1 DEF grace, Reports
    <3>2. CASE failures >= 1
      BY <1>1, <1>3, <3>2 DEF CheckerInv, FailuresTakeTime
    <3> QED BY <1>3, <3>1, <3>2
  <2>5. Reports(failures + 1) = Reports(failures) + Period /\ Reports(failures) \in Nat
    BY <1>3
  <2>6. FailuresTakeTime'
    <3>1. ~down' => ~(failures + 1 >= MaxFailures)
      BY <2>1
    <3>3. ~down' => failures + 1 < MaxFailures
      BY <1>3, <3>1
    <3>2. running + Period >= Grace + Reports(failures + 1)
      BY <1>3, <2>4, <2>5
    <3> QED BY <1>1, <2>1, <3>3, <3>2 DEF FailuresTakeTime, Reports
  <2>7. DownForGood'
    <3>1. down' => failures + 1 >= MaxFailures
      BY <2>1
    <3>2. down' => MaxFailures - 1 = failures
      BY <1>3, <3>1
    <3> QED BY <1>1, <2>1, <2>4, <3>2 DEF DownForGood, Reports
  <2> QED BY <2>2, <2>3, <2>6, <2>7 DEF CheckerInv
<1> QED BY <1>4, <1>5

LEMMA CheckerStep == CheckerInv /\ [Next]_vars => CheckerInv'
<1> SUFFICES ASSUME CheckerInv, [Next]_vars PROVE CheckerInv'
  OBVIOUS
<1>1. CASE UNCHANGED <<silent, running, due, failures, status, down>>
  BY <1>1 DEF CheckerInv, CheckerTypeOK, QuietFails, FailuresTakeTime, DownForGood, Quiet,
              Limited, Reports
<1>2. CASE Checker
  <2>1. CASE \E t \in Topics : Arrives(t)
    BY <2>1, ArrivesKeeps
  <2>2. CASE \E t \in Topics : EndpointsChange(t)
    BY <1>1, <2>2 DEF EndpointsChange
  <2>3. CASE TransformsChange
    BY <1>1, <2>3 DEF TransformsChange
  <2>4. CASE TimePasses \/ Report
    BY <2>4, TimePassesKeeps, ReportKeeps
  <2> QED BY <1>2, <2>1, <2>2, <2>3, <2>4 DEF Checker, CheckerNext
<1> QED BY <1>1, <1>2 DEF Next, Warmup, vars, checkerVars

LEMMA CheckerInvReports == CheckerInv => QuietIsReported
<1> SUFFICES ASSUME CheckerInv PROVE QuietIsReported
  OBVIOUS
<1> USE Parameters, ReportTimes
<1>1. /\ running \in Nat /\ due \in Nat /\ due <= Period
      /\ MaxFailures \in 1..MaxFailures /\ 1 \in 1..MaxFailures
  BY DEF CheckerInv, CheckerTypeOK
<1>2. ASSUME NEW t \in Topics, NEW n \in 1..MaxFailures, Limited(t), ~down,
             Quiet(t) > Contracts[t].maxAge + n * Period, running > Grace + n * Period
      PROVE  failures >= n
  <2>0. n \in Nat
    OBVIOUS
  <2>1. /\ Reports(n) = n * Period /\ Reports(n) \in Nat
        /\ Contracts[t].maxAge \in Nat /\ Quiet(t) \in Nat
    BY <1>2, <2>0, LimitedAge, QuietIsNat DEF CheckerInv, Reports
  <2>2. /\ Quiet(t) > Contracts[t].maxAge + (Reports(n) - due)
        /\ running > Grace + (Reports(n) - due)
    BY <1>1, <1>2, <2>1
  <2> QED BY <1>2, <2>2 DEF CheckerInv, QuietFails
<1>3. ASSUME NEW t \in Topics, Limited(t),
             Quiet(t) > Contracts[t].maxAge + 1 * Period, running > Grace + 1 * Period
      PROVE  status = "failed"
  <2>1. CASE down
    BY <2>1 DEF CheckerInv, DownForGood
  <2>2. CASE ~down
    BY <1>1, <1>2, <1>3, <2>2 DEF CheckerInv, FailuresTakeTime
  <2> QED BY <2>1, <2>2
<1>4. ASSUME NEW t \in Topics, Limited(t), ~down,
             Quiet(t) > Contracts[t].maxAge + MaxFailures * Period,
             running > Grace + MaxFailures * Period
      PROVE  FALSE
  <2>1. failures < MaxFailures /\ failures \in Nat
    BY <1>4 DEF CheckerInv, FailuresTakeTime, CheckerTypeOK
  <2> QED BY <1>1, <1>2, <1>4, <2>1
<1>5. down => running >= Grace + (MaxFailures - 1) * Period
  BY DEF CheckerInv, DownForGood, Reports
<1> QED BY <1>3, <1>4, <1>5 DEF QuietIsReported, Limited

(* A topic that falls quiet is reported within a report of its limit, and  *)
(* ends the node after as many reports as it takes, never earlier, for all *)
(* contracts, however the windows, endpoints and transforms change.        *)
(* (contract.py, evaluate_topic_contract; contract_checker_node.py,        *)
(* _report)                                                                *)
THEOREM QuietIsAlwaysReported == Spec => []QuietIsReported
<1>1. Init => CheckerInv
  BY CheckerStarts DEF Init
<1>2. CheckerInv /\ [Next]_vars => CheckerInv'
  BY CheckerStep
<1>3. CheckerInv => QuietIsReported
  BY CheckerInvReports
<1> QED BY <1>1, <1>2, <1>3, PTL DEF Spec, vars
=============================================================================
