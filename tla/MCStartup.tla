------------------------------ MODULE MCStartup ------------------------------
(* Instance of Startup: a sensor topic with traffic, and the command topic *)
(* that needs a subscriber only.                                           *)
EXTENDS Startup

MCContracts ==
  [scan    |-> [minPublishers |-> 1, maxPublishers |-> 1, minSubscribers |-> 0,
                minRate |-> 5, maxAge |-> 1, requireSample |-> TRUE],
   cmd_vel |-> [minPublishers |-> 0, maxPublishers |-> NoLimit, minSubscribers |-> 1,
                minRate |-> NoLimit, maxAge |-> NoLimit, requireSample |-> FALSE]]
=============================================================================
