--------------------------- MODULE MCGoogleCloud ---------------------------
(***************************************************************************)
(* Small instances of GoogleCloud for TLC.                                 *)
(***************************************************************************)
EXTENDS GoogleCloud, TLC

CONSTANTS m1, m2

Opts(concurrency, autoAck, unique, n1, n2) ==
  [concurrency |-> concurrency, autoAck |-> autoAck, unique |-> unique,
   deliveries |-> m1 :> n1 @@ m2 :> n2]

(* One worker and two messages delivered again; a unique subscription that *)
(* is deleted at shutdown; two workers on deliveries of one message.       *)
OneWorker  == Opts(1, TRUE, FALSE, 2, 2)
UniqueSub  == Opts(2, FALSE, TRUE, 1, 1)
TwoWorkers == Opts(2, FALSE, FALSE, 2, 0)

ThreeOptions == {OneWorker, UniqueSub, TwoWorkers}

(* Two workers and AutoAck. *)
SharedErr == {Opts(2, TRUE, FALSE, 1, 1)}
=============================================================================
