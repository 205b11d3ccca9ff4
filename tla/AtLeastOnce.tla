---------------------------- MODULE AtLeastOnce ----------------------------
(***************************************************************************)
(* What a provider promises the publisher of a message: the message is     *)
(* taken from the queue for good only after a handler returned without an  *)
(* error for it, or when nobody could ever read it, or in a way that the   *)
(* provider is told of: expiring.  A message may be handled again after it *)
(* was handled, and after it was settled.                                  *)
(***************************************************************************)
CONSTANTS
  Messages,    \* published messages
  Unreadable   \* those whose envelope does not decode

VARIABLES
  expiring,  \* the messages that may go away with their queue or in it now
  fate,      \* "open" until the message leaves the queue for good
  handled    \* the messages that a handler has succeeded for, or acked

vars == <<expiring, fate, handled>>

Init ==
  /\ expiring \in SUBSET Messages
  /\ fate = [m \in Messages |-> "open"]
  /\ handled = {}

Handle(m) ==
  /\ m \notin Unreadable
  /\ handled' = handled \cup {m}
  /\ UNCHANGED fate

(* By the handler itself, or after it has succeeded. *)
Settle(m) ==
  /\ m \notin Unreadable
  /\ fate[m] = "open"
  /\ fate' = [fate EXCEPT ![m] = "settled"]
  /\ handled' = handled \cup {m}

Discard(m) ==
  /\ fate[m] = "open"
  /\ m \in Unreadable
  /\ fate' = [fate EXCEPT ![m] = "discarded"]
  /\ UNCHANGED handled

(* The queue drops messages, or goes away with those that are in it; with  *)
(* no message, only what may go away has changed. *)
Expire(ms) ==
  /\ ms \subseteq expiring
  /\ \A m \in ms : fate[m] = "open"
  /\ fate' = [m \in Messages |-> IF m \in ms THEN "expired" ELSE fate[m]]
  /\ UNCHANGED handled

Next ==
  /\ expiring' \in SUBSET Messages
  /\ \/ \E m \in Messages : Handle(m) \/ Settle(m) \/ Discard(m)
     \/ \E ms \in SUBSET Messages : Expire(ms)

Spec == Init /\ [][Next]_vars
=============================================================================
