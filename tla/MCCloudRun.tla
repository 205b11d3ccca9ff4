----------------------------- MODULE MCCloudRun -----------------------------
(***************************************************************************)
(* A small instance of CloudRun for TLC: two processes that subscribe, one *)
(* of which publishes, in each of the two packages.                        *)
(***************************************************************************)
EXTENDS CloudRun, TLC

CONSTANTS p1, p2, m1, i1, i2

HomeP1       == m1 :> p1
BothPackages == {"google", "cloudrun"}
=============================================================================
