--------------------------- MODULE PublishPromise ---------------------------
(***************************************************************************)
(* What Publish and PublishJSON promise their caller: a call is answered   *)
(* once, after the message was handed to every client it goes to, and the  *)
(* answer is an error exactly when one of those clients failed.  Publisher *)
(* implements it.                                                          *)
(***************************************************************************)
EXTENDS Integers

CONSTANTS
  Calls,     \* calls of Publish and PublishJSON
  MaxFanout  \* bound on the number of clients

VARIABLES
  status,  \* "idle", "asked", "trying" or "answered"
  left,    \* how many clients the call has yet to try
  failed,  \* whether a client of the call has failed
  answer   \* "none" until the call is answered, then "ok" or "error"

vars == <<status, left, failed, answer>>

Init ==
  /\ status = [c \in Calls |-> "idle"]
  /\ left   = [c \in Calls |-> 0]
  /\ failed = [c \in Calls |-> FALSE]
  /\ answer = [c \in Calls |-> "none"]

Ask(call) ==
  /\ status[call] = "idle"
  /\ status' = [status EXCEPT ![call] = "asked"]
  /\ UNCHANGED <<left, failed, answer>>

(* The clients are chosen, in the call or some time after it. *)
Start(call, n) ==
  /\ status[call] \in {"idle", "asked"}
  /\ status' = [status EXCEPT ![call] = "trying"]
  /\ left' = [left EXCEPT ![call] = n]
  /\ UNCHANGED <<failed, answer>>

Try(call, ok) ==
  /\ left[call] > 0
  /\ left' = [left EXCEPT ![call] = @ - 1]
  /\ failed' = [failed EXCEPT ![call] = @ \/ ~ok]
  /\ UNCHANGED <<status, answer>>

Answer(call) ==
  /\ status[call] = "trying"
  /\ left[call] = 0
  /\ status' = [status EXCEPT ![call] = "answered"]
  /\ answer' = [answer EXCEPT ![call] = IF failed[call] THEN "error" ELSE "ok"]
  /\ UNCHANGED <<left, failed>>

Next == \E call \in Calls :
  \/ Ask(call)
  \/ \E n \in 1..MaxFanout : Start(call, n)
  \/ \E ok \in BOOLEAN : Try(call, ok)
  \/ Answer(call)

Spec == Init /\ [][Next]_vars
=============================================================================
