--------------------------- MODULE ContractChecker ---------------------------
(***************************************************************************)
(* contract.py and contract_checker_node.py: the node that watches what    *)
(* the simulator offers to ROS.  It counts the messages of every topic in  *)
(* a window of steady time, reports after a period whether the endpoints,  *)
(* the traffic and the transforms are as agreed, and may shut itself down  *)
(* after several failed reports in a row.                                  *)
(*                                                                         *)
(* A contract is a record of the fields of TopicContract, with NoLimit     *)
(* where Python has None; a rate is in messages to ten units of time.      *)
(* Arrivals are kept by their age.  shutdown_on_failure is set; without it *)
(* the node is never down and all else is the same.                        *)
(***************************************************************************)
EXTENDS Integers, Sequences, FiniteSets

LOCAL INSTANCE SequencesExt

CONSTANTS
  Contracts,          \* topic -> its contract
  NoLimit,
  Never,              \* the age of the last message of a topic without one
  WindowSize,         \* rate_window_sec
  Grace,              \* startup_grace_sec
  Period,             \* report_period_sec
  MaxFailures,        \* failure_reports_before_shutdown, at least one
  MaxEndpoints        \* bound: publishers or subscribers of a topic

ASSUME ContractCheckerConstants ==
  /\ {WindowSize, Grace, MaxEndpoints} \subseteq Nat
  /\ {Period, MaxFailures} \subseteq Nat \ {0}
  /\ Never \notin Int /\ NoLimit \notin Int
  /\ \A t \in DOMAIN Contracts : /\ Contracts[t].maxAge \in Nat \cup {NoLimit}
                                 /\ Contracts[t].requireSample \in BOOLEAN

VARIABLES
  window,             \* topic -> ages of its messages in the window, oldest first
  silent,             \* topic -> age of its last message, or Never
  endpoints,          \* topic -> [publishers, subscribers, typed]
  transforms,         \* every required transform is available
  running,            \* time since _started_monotonic
  due,                \* time to the next report
  failures,           \* _consecutive_failure_reports
  status,             \* the last report
  down                \* rclpy.shutdown was called

checkerVars == <<window, silent, endpoints, transforms, running, due, failures, status, down>>

Topics == DOMAIN Contracts

(* Ages and times from which nothing changes any more.                     *)
Horizon == Grace + (MaxFailures + 1) * Period + WindowSize + 1

Older(age) == IF age < Horizon THEN age + 1 ELSE age

-----------------------------------------------------------------------------
(* RateWindow                                                               *)

Purge(ages) == SelectSeq(ages, LAMBDA age : age <= WindowSize)

(* The messages and the time between the first and the last in the window. *)
Intervals(ages) == Len(ages) - 1
Span(ages) == ages[1] - ages[Len(ages)]

-----------------------------------------------------------------------------
(* evaluate_topic_contract                                                  *)

When(condition, code) == IF condition THEN {code} ELSE {}

EndpointViolations(c, e, grace) ==
  When(~grace /\ e.publishers < c.minPublishers, "publisher_count_low")
    \cup When(c.maxPublishers # NoLimit /\ e.publishers > c.maxPublishers, "publisher_count_high")
    \cup When(~grace /\ e.subscribers < c.minSubscribers, "subscriber_count_low")

(* The types are those of the publishers, or of the subscribers of a topic *)
(* that needs no publisher; typed is whether the agreed one is among them. *)
TypeViolations(c, e) ==
  LET known == IF c.minPublishers = 0 /\ c.minSubscribers > 0 THEN e.subscribers > 0
               ELSE e.publishers > 0
  IN When(known /\ ~e.typed, "type_mismatch")

RateViolations(c, ages) ==
  CASE c.minRate = NoLimit -> {}
    [] c.minRate # NoLimit /\ (Len(ages) < 2 \/ Span(ages) = 0) -> {"insufficient_rate_samples"}
    [] OTHER -> When(10 * Intervals(ages) < c.minRate * Span(ages), "rate_low")

AgeLeftToTheRate(c, age) == {}                                    \* mutant

AgeViolations(c, age) == When(c.maxAge # NoLimit /\ age > c.maxAge, "stale")

TrafficViolations(c, ages, age) ==
  IF ~c.requireSample THEN {}
  ELSE IF age = Never THEN {"no_samples"}
  ELSE RateViolations(c, ages) \cup AgeViolations(c, age)

(* During the grace period only too many publishers and wrong types count. *)
TopicViolations(t, grace) ==
  EndpointViolations(Contracts[t], endpoints[t], grace)
    \cup TypeViolations(Contracts[t], endpoints[t])
    \cup (IF grace THEN {} ELSE TrafficViolations(Contracts[t], Purge(window[t]), silent[t]))

Violations(grace) ==
  UNION {{t} \X TopicViolations(t, grace) : t \in Topics}
    \cup When(~grace /\ ~transforms, <<"/tf", "transform_missing">>)

-----------------------------------------------------------------------------
CheckerInit ==
  /\ window = [t \in Topics |-> <<>>]
  /\ silent = [t \in Topics |-> Never]
  /\ endpoints = [t \in Topics |-> [publishers |-> 0, subscribers |-> 0, typed |-> FALSE]]
  /\ transforms = FALSE
  /\ running = 0 /\ due = Period
  /\ failures = 0 /\ status = "none" /\ down = FALSE

(* RateWindow.record; bound: one message of a topic in a unit of time.     *)
Arrives(t) ==
  /\ Contracts[t].requireSample
  /\ endpoints[t].publishers > 0 /\ endpoints[t].typed
  /\ silent[t] # 0
  /\ window' = [window EXCEPT ![t] = Purge(Append(@, 0))]
  /\ silent' = [silent EXCEPT ![t] = 0]
  /\ UNCHANGED <<endpoints, transforms, running, due, failures, status, down>>

(* Nodes of the simulator come and go.                                     *)
EndpointsChange(t) ==
  /\ endpoints' \in {[endpoints EXCEPT ![t] = e] :
       e \in [publishers : 0..MaxEndpoints, subscribers : 0..1, typed : BOOLEAN]}
  /\ UNCHANGED <<window, silent, transforms, running, due, failures, status, down>>

TransformsChange ==
  /\ transforms' = ~transforms
  /\ UNCHANGED <<window, silent, endpoints, running, due, failures, status, down>>

(* Steady time: it passes while simulated time stands still.  A report     *)
(* that is due comes first.                                                *)
TimePasses ==
  /\ due > 0
  /\ window' = [t \in Topics |-> Purge([i \in DOMAIN window[t] |-> window[t][i] + 1])]
  /\ silent' = [t \in Topics |-> IF silent[t] = Never THEN Never ELSE Older(silent[t])]
  /\ running' = Older(running)
  /\ due' = IF down THEN due ELSE due - 1
  /\ UNCHANGED <<endpoints, transforms, failures, status, down>>

(* _report                                                                  *)
Report ==
  /\ due = 0
  /\ LET grace  == running < Grace
         failed == Violations(grace) # {}
     IN /\ status' = IF grace THEN "grace" ELSE IF failed THEN "failed" ELSE "ok"
        /\ failures' = IF grace \/ ~failed THEN 0
                       ELSE IF failures < MaxFailures THEN failures + 1 ELSE failures
        /\ down' = (~grace /\ failed /\ failures + 1 >= MaxFailures)
  /\ due' = Period
  /\ UNCHANGED <<window, silent, endpoints, transforms, running>>

CheckerNext ==
  \/ \E t \in Topics : Arrives(t) \/ EndpointsChange(t)
  \/ TransformsChange \/ TimePasses \/ Report

-----------------------------------------------------------------------------
(* Time since which a topic brings no message; since the start if none.    *)
Quiet(t) == IF silent[t] = Never THEN running ELSE silent[t]

(* When a topic whose age is limited has been quiet for longer than that   *)
(* and a report, and the grace period is over for as long, the last report *)
(* is a failed one, though the messages in the window still make a rate;   *)
(* and after the reports that takes the node is down.  It is never down    *)
(* before that many reports have come after the grace period.              *)
QuietIsReported ==
  /\ \A t \in Topics :
       LET c == Contracts[t]
           QuietFor(n) == /\ c.requireSample /\ c.maxAge # NoLimit
                          /\ Quiet(t) > c.maxAge + n * Period
                          /\ running > Grace + n * Period
       IN /\ QuietFor(1) => status = "failed"
          /\ QuietFor(MaxFailures) => down
  /\ down => running >= Grace + (MaxFailures - 1) * Period
=============================================================================
