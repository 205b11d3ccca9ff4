----------------------------- MODULE MCGoogle2 -----------------------------
(***************************************************************************)
(* A small instance of Google2 for TLC: a program that subscribes twice    *)
(* under one name, and one with a unique subscription that publishes.      *)
(***************************************************************************)
EXTENDS Google2, TLC

CONSTANTS s1, s2, p1, n1

Opts(unique, autoAck) == [name |-> n1, unique |-> unique, autoAck |-> autoAck]

SameName ==
  [calls |-> {s1, s2}, opts |-> s1 :> Opts(FALSE, TRUE) @@ s2 :> Opts(FALSE, FALSE)]

UniqueAndPublish ==
  [calls |-> {s1, p1}, opts |-> s1 :> Opts(TRUE, FALSE) @@ s2 :> Opts(FALSE, FALSE)]

TwoPrograms  == {SameName, UniqueAndPublish}
TwoForTheOne == s1 :> 2 @@ s2 :> 1
=============================================================================
