----------------------------- MODULE MCRabbitMQ -----------------------------
(***************************************************************************)
(* A small instance of RabbitMQ for TLC: a subscription without AutoAck    *)
(* that gets a message and one that cannot be decoded, one that gets all   *)
(* three, and two subscriptions with AutoAck, a publisher and two calls    *)
(* of Shutdown.                                                            *)
(***************************************************************************)
EXTENDS RabbitMQ, TLC

CONSTANTS m1, m2, bad, s1, s2, t1, t2

Delivering ==
  [calls |-> {m1, bad, s1, t1}, autoAck |-> FALSE, concurrency |-> 2]

Prefetching ==
  [calls |-> {m1, m2, bad, s1}, autoAck |-> FALSE, concurrency |-> 2]

Stopping ==
  [calls |-> {m1, s1, s2, t1, t2}, autoAck |-> TRUE, concurrency |-> 1]

ThreePrograms == {Delivering, Prefetching, Stopping}
=============================================================================
