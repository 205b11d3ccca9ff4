---------------------------- MODULE MCPublisher ----------------------------
(***************************************************************************)
(* Small instances of Publisher for TLC.  Calls and the clients with a     *)
(* real provider are interchangeable, so the runs without temporal         *)
(* properties use their permutations as symmetry.                          *)
(***************************************************************************)
EXTENDS Publisher, TLC

Symmetry == Permutations(Calls) \cup Permutations(Clients \ {NoopClient})

(* The list of clients is read only by a call that has yet to choose its   *)
(* targets: once every call has, further changes of it are not explored.   *)
ClientsMatter ==
  clients' # clients => \E call \in Calls : pc[call] \in {"idle", "spawned"}
=============================================================================
