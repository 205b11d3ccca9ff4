----------------------------- MODULE Lifecycle -----------------------------
(***************************************************************************)
(* Subscribe and Shutdown of subscribe.go, and the clients of pubsub.go:   *)
(* Subscribe sets its subscriber up on the first client and then receives  *)
(* from the unbuffered channel wait, on which Shutdown sends before it     *)
(* shuts the provider of every client down.  A program ends when its main  *)
(* goroutine returns, which runs a call of Shutdown, as in the examples,   *)
(* or a call of Subscribe.                                                 *)
(*                                                                         *)
(* A name with an underscore (Meet_Buffered) is the definition before the  *)
(* underscore with a bug put in; nothing refers to it.                     *)
(***************************************************************************)
EXTENDS Naturals, Sequences, FiniteSets

CONSTANTS
  Clients,   \* clients the application has
  First,     \* the one it has set before the rest
  Subs,      \* calls of Subscribe, whose Setup calls On once
  Careless,  \* those that may come with HandlerOptions that On refuses
  Stoppers,  \* calls of Shutdown
  Mains      \* which of these calls the main goroutine may make

ASSUME CallsAssumption    == IsFiniteSet(Subs) /\ IsFiniteSet(Stoppers)
ASSUME ApartAssumption    == Subs \cap Stoppers = {}
ASSUME FirstAssumption    == First \in Clients
ASSUME CarelessAssumption == Careless \subseteq Subs
ASSUME MainsAssumption    == Mains \subseteq Subs \cup Stoppers

VARIABLES
  clients,     \* the clients that are registered
  swapped,     \* history: SetClient was called again
  subscriber,  \* where each call of Subscribe is
  on,          \* the client each of them has set up
  stopper,     \* where each call of Shutdown is
  todo,        \* the clients each of them has yet to shut down
  down,        \* the clients whose provider has been shut down
  main,        \* the call of the main goroutine
  life         \* "up", or how the process has ended

registered == <<clients, swapped>>
lifeVars == <<registered, subscriber, on, stopper, todo, down, main, life>>

-----------------------------------------------------------------------------
None == "none"

Registered == {clients[i] : i \in 1..Len(clients)}

SetClient(c) ==
  /\ c \notin Registered
  /\ clients' = <<c>>
  /\ swapped' = TRUE
  /\ UNCHANGED <<subscriber, on, stopper, todo, down, main, life>>

AddPublisherClient(c) ==
  /\ c \notin Registered
  /\ clients' = Append(clients, c)
  /\ UNCHANGED <<swapped, subscriber, on, stopper, todo, down, main, life>>

-----------------------------------------------------------------------------
(* Subscribe. *)

(* s.Setup(clients[0]) begins, and calls On. *)
Subscribe(s) ==
  /\ subscriber[s] = "idle"
  /\ \E at \in {"setup"} \cup {"refused" : c \in {s} \cap Careless} :
       subscriber' = [subscriber EXCEPT ![s] = at]
  /\ on' = [on EXCEPT ![s] = clients[1]]
  /\ UNCHANGED <<registered, stopper, todo, down, main, life>>

(* The process ends by a panic. *)
Panic ==
  /\ life' = "panicked"
  /\ UNCHANGED <<registered, subscriber, on, stopper, todo, down, main>>

(* On panics about its options, before it calls the provider. *)
OnRefuses(s) ==
  /\ subscriber[s] = "refused"
  /\ Panic

(* The provider's Subscribe has returned, and with it On and Setup. *)
SetupReturns(s) ==
  /\ subscriber[s] = "setup"
  /\ subscriber' = [subscriber EXCEPT ![s] = "waiting"]
  /\ UNCHANGED <<registered, on, stopper, todo, down, main, life>>

-----------------------------------------------------------------------------
(* Shutdown. *)

Shutdown(t) ==
  /\ stopper[t] = "idle"
  /\ stopper' = [stopper EXCEPT ![t] = "sending"]
  /\ UNCHANGED <<registered, subscriber, on, todo, down, main, life>>

Meet_Buffered(s, t) ==
  /\ stopper[t] = "sending"
  /\ stopper' = [stopper EXCEPT ![t] = "released"]
  /\ subscriber' = [subscriber EXCEPT ![s] = IF @ = "waiting" THEN "returned" ELSE @]
  /\ UNCHANGED <<registered, on, todo, down, main, life>>

Meet_Never(s, t) ==
  /\ stopper[t] = "sending"
  /\ subscriber[s] = "waiting"
  /\ UNCHANGED lifeVars

(* wait <- true meets a <-wait. *)
Meet(s, t) ==
  /\ stopper[t] = "sending"
  /\ subscriber[s] = "waiting"
  /\ stopper' = [stopper EXCEPT ![t] = "released"]
  /\ subscriber' = [subscriber EXCEPT ![s] = "returned"]
  /\ UNCHANGED <<registered, on, todo, down, main, life>>

RangeClients_Publishers(t) ==
  /\ stopper[t] = "released"
  /\ stopper' = [stopper EXCEPT ![t] = "shutting"]
  /\ todo' = [todo EXCEPT ![t] = Tail(clients)]
  /\ UNCHANGED <<registered, subscriber, on, down, main, life>>

(* range clients *)
RangeClients(t) ==
  /\ stopper[t] = "released"
  /\ stopper' = [stopper EXCEPT ![t] = "shutting"]
  /\ todo' = [todo EXCEPT ![t] = clients]
  /\ UNCHANGED <<registered, subscriber, on, down, main, life>>

(* c.Provider.Shutdown() *)
ShutdownProvider(t) ==
  /\ stopper[t] = "shutting"
  /\ todo[t] # <<>>
  /\ down' = down \cup {Head(todo[t])}
  /\ todo' = [todo EXCEPT ![t] = Tail(@)]
  /\ UNCHANGED <<registered, subscriber, on, stopper, main, life>>

ShutdownReturns(t) ==
  /\ stopper[t] = "shutting"
  /\ todo[t] = <<>>
  /\ stopper' = [stopper EXCEPT ![t] = "returned"]
  /\ UNCHANGED <<registered, subscriber, on, todo, down, main, life>>

(* The main goroutine goes on, to the end of the program. *)
MainReturns ==
  /\ \/ main \in Subs /\ subscriber[main] = "returned"
     \/ main \in Stoppers /\ stopper[main] = "returned"
  /\ life' = "exited"
  /\ UNCHANGED <<registered, subscriber, on, stopper, todo, down, main>>

-----------------------------------------------------------------------------
LifeInit ==
  /\ clients    = <<First>>
  /\ swapped    = FALSE
  /\ subscriber = [s \in Subs |-> "idle"]
  /\ on         = [s \in Subs |-> None]
  /\ stopper    = [t \in Stoppers |-> "idle"]
  /\ todo       = [t \in Stoppers |-> <<>>]
  /\ down       = {}
  /\ main       \in Mains
  /\ life       = "up"

Stopping(t) ==
  \/ \E s \in Subs : Meet(s, t)
  \/ RangeClients(t) \/ ShutdownProvider(t) \/ ShutdownReturns(t)

LifeTypeOK ==
  /\ clients    \in Seq(Clients) /\ clients # <<>>
  /\ swapped    \in BOOLEAN
  /\ subscriber \in [Subs -> {"idle", "setup", "refused", "waiting", "returned"}]
  /\ on         \in [Subs -> Clients \cup {None}]
  /\ stopper    \in [Stoppers -> {"idle", "sending", "released", "shutting", "returned"}]
  /\ todo       \in [Stoppers -> Seq(Clients)]
  /\ down       \in SUBSET Clients
  /\ main       \in Mains
  /\ life       \in {"up", "panicked", "exited"}

(* One Shutdown releases one Subscribe, and goes on only when it has: no   *)
(* Shutdown is through while a Subscribe it should have ended is not, and  *)
(* none leaves something behind for a Subscribe that comes later.          *)
OneForOne ==
  Cardinality({t \in Stoppers : stopper[t] \notin {"idle", "sending"}}) =
    Cardinality({s \in Subs : subscriber[s] = "returned"})

(* A program whose main goroutine calls Shutdown, like the examples, ends  *)
(* only when the provider of everything that was set up has been shut      *)
(* down, unless its client was replaced.                                   *)
ExitIsGraceful ==
  (life = "exited" /\ main \in Stoppers /\ ~swapped) =>
    \A s \in Subs : on[s] # None => on[s] \in down
=============================================================================
