------------------------------ MODULE MCKafka ------------------------------
(***************************************************************************)
(* Small instances of Kafka for TLC: two processes with a subscription     *)
(* each to one group, or one process that subscribes for two groups.       *)
(***************************************************************************)
EXTENDS Kafka, TLC

CONSTANTS s1, s2, p1, p2, g1, g2

TwoProcesses == s1 :> p1 @@ s2 :> p2
OneProcess   == s1 :> p1 @@ s2 :> p1
OneGroup     == s1 :> g1 @@ s2 :> g1
TwoGroups    == s1 :> g1 @@ s2 :> g2
=============================================================================
