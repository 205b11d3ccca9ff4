------------------------------- MODULE MCNats -------------------------------
(***************************************************************************)
(* A small instance of Nats for TLC: two members of one queue group; one   *)
(* may have more messages in flight than there are unreadable ones.        *)
(***************************************************************************)
EXTENDS Nats, TLC

CONSTANTS s1, s2, t1, q1

OneTopic  == s1 :> t1 @@ s2 :> t1
OneQueue  == s1 :> q1 @@ s2 :> q1
TwoAndOne == s1 :> 2 @@ s2 :> 1
=============================================================================
