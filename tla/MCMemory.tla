------------------------------ MODULE MCMemory ------------------------------
(***************************************************************************)
(* A small instance of Memory for TLC: two calls of Subscribe and two of   *)
(* Shutdown that may meet them in either order, and one of the former may  *)
(* have options that On refuses.                                           *)
(***************************************************************************)
EXTENDS Memory, TLC

CONSTANTS c1, c2, s1, s2, t1, t2, m1, bad

SomeMains  == {s1, t1}
SomeChains == (s1 :> {<<"prometheus", "audit">>}) @@
              (t1 :> {Default, <<"recoverNil", "audit">>})
=============================================================================
