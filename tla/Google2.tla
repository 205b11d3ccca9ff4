------------------------------ MODULE Google2 ------------------------------
(***************************************************************************)
(* providers/google2/google2.go: a provider whose calls of Subscribe and   *)
(* Publish share a client, a map of publishers, a map of subscribers and a *)
(* map of cancel functions by the subscription's name, and its Shutdown.   *)
(*                                                                         *)
(* Each Subscribe is a goroutine that looks up or creates the topic and    *)
(* the subscription, registers its cancel function and calls Receive, in   *)
(* which the client library runs a callback for each message; it deletes a *)
(* unique subscription when Receive has returned after a Shutdown.         *)
(*                                                                         *)
(* All is about one topic.  A name with an underscore (CloseClient_Waits)  *)
(* is the definition before the underscore with a bug put in; nothing      *)
(* refers to it.                                                           *)
(***************************************************************************)
EXTENDS Integers, FiniteSets

CONSTANTS
  Subs,           \* calls of Subscribe
  Pubs,           \* callers of Publish
  Names,          \* names of subscriptions
  Programs,       \* programs: the calls they make, and the HandlerOptions of each
  Concurrency,    \* HandlerOptions.Concurrency
  Messages,       \* messages that a subscription may get
  MaxDeliveries   \* bound on how often each call of Subscribe gets a message

Options == [name : Names, unique : BOOLEAN, autoAck : BOOLEAN]

ASSUME ProgramsAssumption ==
  \A p \in Programs :
    /\ p \in [calls : SUBSET (Subs \cup Pubs), opts : [Subs -> Options]]
    /\ \A s, t \in Subs \cap p.calls :
         p.opts[s].unique /\ p.opts[s].name = p.opts[t].name => s = t
ASSUME CallersAssumption     == Subs \cap Pubs = {}
ASSUME ConcurrencyAssumption == Concurrency \in Nat \ {0}
ASSUME DeliveriesAssumption  == MaxDeliveries \in [Subs -> Nat] /\ IsFiniteSet(Messages)

None == "none"

ASSUME NoneAssumption == None \notin Subs

VARIABLES
  program,       \* the program that runs
  topic,         \* the service has the topic
  subscription,  \* whether it has the subscription of a name, or had it
  server,        \* each message of each subscription
  consent,       \* history: the messages that a subscription's handlers are done with
  at,            \* where each call of Subscribe and of Publish is
  cancels,       \* g.cancels
  cancelled,     \* the calls whose subCtx is cancelled
  phase,         \* where the callback of each delivery is
  answered,      \* the deliveries acked or nacked; a second answer is ignored
  sem,           \* what is left of each call's semaphore
  publisher,     \* the topic's publisher in g.publishers
  stopper,       \* where Shutdown is
  copied,        \* the calls whose cancel functions it still has to call
  closed,        \* the client is closed
  life           \* "up", or how the process has ended

service   == <<topic, subscription, server, consent>>
callbacks == <<phase, answered, sem>>
stopping  == <<stopper, copied, closed>>
vars == <<program, service, at, cancels, cancelled, callbacks, publisher, stopping, life>>

Callers    == Subs \cup Pubs
Deliveries == UNION {{s} \X Messages \X (1..MaxDeliveries[s]) : s \in Subs}
opts       == program.opts
Call(d)    == d[1]
Name(s)    == opts[s].name
Key(d)     == <<Name(d[1]), d[2]>>
Keys       == Names \X Messages

(* "called": in the callback, waiting for the semaphore.  "running": in    *)
(* the handler. *)
Phases     == {"none", "called", "running", "over"}
Active(s)  == {d \in Deliveries : Call(d) = s /\ phase[d] \in {"called", "running"}}
Running(s) == {d \in Deliveries : Call(d) = s /\ phase[d] = "running"}

(* g.mu is kept over time only by Shutdown, while it stops the publishers. *)
MuFree == stopper # "stopping"

Go(c, place) == at' = [at EXCEPT ![c] = place]

(* What ends the process loses what is in memory.  A unique subscription   *)
(* gets another name at the next start, and is not made again here.        *)
ProcessEnds(how) ==
  /\ life'      = how
  /\ at'        = [c \in Callers |->
       IF c \in Subs /\ at[c] # "none" /\ opts[c].unique THEN "done" ELSE "none"]
  /\ cancels'   = [n \in Names |-> None]
  /\ cancelled' = {}
  /\ phase'     = [d \in Deliveries |-> IF phase[d] = "none" THEN "none" ELSE "over"]
  /\ answered'  = {}
  /\ sem'       = [s \in Subs |-> Concurrency]
  /\ publisher' = "none"
  /\ stopper'   = "idle"
  /\ copied'    = {}
  /\ closed'    = FALSE
  /\ UNCHANGED <<program, service>>

-----------------------------------------------------------------------------
(* ensureTopic, for Publish and Subscribe, and ensureSubscription.  A call *)
(* to the service may always fail, and does on a closed client.            *)

Begin(c) ==
  /\ c \in program.calls
  /\ at[c] = "none"
  /\ Go(c, "getTopic")
  /\ UNCHANGED <<program, service, cancels, cancelled, callbacks, publisher, stopping, life>>

EnsuredTopic(c) == IF c \in Subs THEN "getSubscription" ELSE "getPublisher"

GetTopic(c) ==
  /\ at[c] = "getTopic"
  /\ \/ topic /\ ~closed /\ Go(c, EnsuredTopic(c))
     \/ Go(c, "createTopic")
  /\ UNCHANGED <<program, service, cancels, cancelled, callbacks, publisher, stopping, life>>

CreateTopic(c) ==
  /\ at[c] = "createTopic"
  /\ ~closed
  /\ ~topic
  /\ topic' = TRUE
  /\ Go(c, EnsuredTopic(c))
  /\ UNCHANGED <<program, subscription, server, consent, cancels, cancelled, callbacks, publisher,
                 stopping, life>>

GetSubscription(s) ==
  /\ at[s] = "getSubscription"
  /\ \/ subscription[Name(s)] = "exists" /\ ~closed /\ Go(s, "register")
     \/ Go(s, "createSubscription")
  /\ UNCHANGED <<program, service, cancels, cancelled, callbacks, publisher, stopping, life>>

CreateSubscription(s) ==
  /\ at[s] = "createSubscription"
  /\ ~closed
  /\ subscription[Name(s)] # "exists"
  /\ subscription' = [subscription EXCEPT ![Name(s)] = "exists"]
  /\ Go(s, "register")
  /\ UNCHANGED <<program, topic, server, consent, cancels, cancelled, callbacks, publisher,
                 stopping, life>>

(* Panicf, also when another caller or process has created it meanwhile,   *)
(* or when Shutdown has closed the client. *)
SetupPanics(s) ==
  /\ at[s] \in {"createTopic", "createSubscription"}
  /\ ProcessEnds("panicked")

-----------------------------------------------------------------------------
(* Publish, the rest. *)

(* getPublisher *)
GetPublisher(p) ==
  /\ at[p] = "getPublisher"
  /\ MuFree
  /\ publisher' = IF publisher = "none" THEN "open" ELSE publisher
  /\ Go(p, "publish")
  /\ UNCHANGED <<program, service, cancels, cancelled, callbacks, stopping, life>>

PublisherPublish(p) ==
  /\ at[p] = "publish"
  /\ publisher = "open"
  /\ Go(p, "sending")
  /\ UNCHANGED <<program, service, cancels, cancelled, callbacks, publisher, stopping, life>>

(* A message gets into the subscriptions that there are. *)
Arrive(m) ==
  server' = [k \in Keys |->
    IF k[2] = m /\ subscription[k[1]] = "exists" /\ server[k] = "none"
    THEN "queued" ELSE server[k]]

Sent(p) ==
  /\ at[p] = "sending"
  /\ ~closed
  /\ \E m \in Messages : Arrive(m)
  /\ Go(p, "none")
  /\ UNCHANGED <<program, topic, subscription, consent, cancels, cancelled, callbacks, publisher,
                 stopping, life>>

PublishFails(p) ==
  /\ \/ at[p] \in {"createTopic", "sending"}
     \/ at[p] = "publish" /\ publisher = "stopped"
  /\ Go(p, "none")
  /\ UNCHANGED <<program, service, cancels, cancelled, callbacks, publisher, stopping, life>>

-----------------------------------------------------------------------------
(* Subscribe, from getSubscriber on. *)

(* Calls with one name share a Subscriber, and the second one's cancel     *)
(* function replaces the first one's. *)
Register(s) ==
  /\ at[s] = "register"
  /\ MuFree
  /\ cancels' = [cancels EXCEPT ![Name(s)] = s]
  /\ Go(s, "receive")
  /\ UNCHANGED <<program, service, cancelled, callbacks, publisher, stopping, life>>

(* A Subscriber has one Receive at a time. *)
InProgress(s) ==
  \E t \in Subs \ {s} : Name(t) = Name(s) /\ at[t] \in {"receiving", "draining"}

Receive(s) ==
  /\ at[s] = "receive"
  /\ Go(s, IF InProgress(s) THEN "returned" ELSE "receiving")
  /\ UNCHANGED <<program, service, cancels, cancelled, callbacks, publisher, stopping, life>>

(* MaxOutstandingMessages *)
Deliver(d) ==
  LET s == Call(d)
  IN  /\ at[s] = "receiving"
      /\ ~closed
      /\ subscription[Name(s)] = "exists"
      /\ server[Key(d)] = "queued"
      /\ phase[d] = "none"
      /\ \A k \in 1..(d[3] - 1) : phase[<<s, d[2], k>>] # "none"
      /\ Cardinality(Active(s)) < 2 * Concurrency
      /\ phase'  = [phase EXCEPT ![d] = "called"]
      /\ server' = [server EXCEPT ![Key(d)] = "leased"]
      /\ UNCHANGED <<program, topic, subscription, consent, at, cancels, cancelled, answered, sem,
                     publisher, stopping, life>>

(* The context of the callbacks is done when subCtx is, or when Receive    *)
(* has met an error. *)
CtxDone(s) == s \in cancelled \/ at[s] = "draining"

Acquire(d) ==
  /\ phase[d] = "called"
  /\ ~CtxDone(Call(d))
  /\ sem[Call(d)] > 0
  /\ phase' = [phase EXCEPT ![d] = "running"]
  /\ sem'   = [sem EXCEPT ![Call(d)] = @ - 1]
  /\ UNCHANGED <<program, service, at, cancels, cancelled, answered, publisher, stopping, life>>

(* What an answer does at the service, if it gets there: the service takes *)
(* an ack also when the lease has expired. *)
Ack(d) ==
  server' \in {server} \cup
    (IF closed \/ d \in answered THEN {} ELSE {[server EXCEPT ![Key(d)] = "acked"]})

Nack(d) ==
  server' \in {server} \cup
    (IF closed \/ d \in answered \/ server[Key(d)] # "leased" THEN {}
     ELSE {[server EXCEPT ![Key(d)] = "queued"]})

AcquireFails(d) ==
  /\ phase[d] = "called"
  /\ CtxDone(Call(d))
  /\ Nack(d)
  /\ phase' = [phase EXCEPT ![d] = "over"]
  /\ UNCHANGED <<program, topic, subscription, consent, at, cancels, cancelled, answered, sem,
                 publisher, stopping, life>>

-----------------------------------------------------------------------------
(* The handler, and the callback after it. *)

HandlerAcks(d) ==
  /\ phase[d] = "running"
  /\ Ack(d)
  /\ answered' = answered \cup {d}
  /\ consent'  = consent \cup {Key(d)}
  /\ UNCHANGED <<program, topic, subscription, at, cancels, cancelled, phase, sem, publisher,
                 stopping, life>>

HandlerNacks(d) ==
  /\ phase[d] = "running"
  /\ Nack(d)
  /\ answered' = answered \cup {d}
  /\ UNCHANGED <<program, topic, subscription, consent, at, cancels, cancelled, phase, sem,
                 publisher, stopping, life>>

Leave(d) ==
  /\ phase[d] = "running"
  /\ phase'    = [phase EXCEPT ![d] = "over"]
  /\ answered' = answered \ {d}
  /\ sem'      = [sem EXCEPT ![Call(d)] = @ + 1]
  /\ UNCHANGED <<program, topic, subscription, at, cancels, cancelled, publisher, stopping, life>>

HandlerSucceeds(d) ==
  /\ Leave(d)
  /\ consent' = consent \cup {Key(d)}
  /\ IF opts[Call(d)].autoAck THEN Ack(d) ELSE UNCHANGED server

HandlerFails_Acks(d) ==
  /\ Leave(d)
  /\ UNCHANGED consent
  /\ IF opts[Call(d)].autoAck THEN Ack(d) ELSE Nack(d)

HandlerFails(d) ==
  /\ Leave(d)
  /\ UNCHANGED consent
  /\ Nack(d)

-----------------------------------------------------------------------------
(* The end of Receive, which waits for its callbacks, and what follows.    *)

(* subCtx is cancelled, or the connection is closed. *)
ReceiveStops(s) ==
  /\ at[s] = "receiving"
  /\ s \in cancelled \/ closed
  /\ Go(s, "draining")
  /\ UNCHANGED <<program, service, cancels, cancelled, callbacks, publisher, stopping, life>>

ReceiveFails(s) ==
  /\ at[s] = "receiving"
  /\ Go(s, "draining")
  /\ UNCHANGED <<program, service, cancels, cancelled, callbacks, publisher, stopping, life>>

Drained_Early(s) ==
  /\ at[s] = "draining"
  /\ Running(s) = {}
  /\ Go(s, "returned")
  /\ UNCHANGED <<program, service, cancels, cancelled, callbacks, publisher, stopping, life>>

Drained(s) ==
  /\ at[s] = "draining"
  /\ Active(s) = {}
  /\ Go(s, "returned")
  /\ UNCHANGED <<program, service, cancels, cancelled, callbacks, publisher, stopping, life>>

Delete(n) ==
  /\ subscription' = [subscription EXCEPT ![n] = "deleted"]
  /\ server' = [k \in Keys |->
       IF k[1] = n /\ server[k] \in {"queued", "leased"} THEN "gone" ELSE server[k]]

(* opts.Unique && g.shutdown; the deletion fails on a closed client, and   *)
(* may fail otherwise. *)
Finish(s) ==
  /\ at[s] = "returned"
  /\ \/ opts[s].unique /\ stopper # "idle" /\ ~closed /\ Delete(Name(s))
     \/ UNCHANGED <<subscription, server>>
  /\ Go(s, "done")
  /\ UNCHANGED <<program, topic, consent, cancels, cancelled, callbacks, publisher, stopping, life>>

-----------------------------------------------------------------------------
(* Shutdown, called once. *)

Shutdown ==
  /\ stopper = "idle"
  /\ stopper' = "cancelling"
  /\ copied'  = {cancels[n] : n \in Names} \ {None}
  /\ UNCHANGED <<program, service, at, cancels, cancelled, callbacks, publisher, closed, life>>

Cancel(s) ==
  /\ stopper = "cancelling"
  /\ s \in copied
  /\ copied'    = copied \ {s}
  /\ cancelled' = cancelled \cup {s}
  /\ UNCHANGED <<program, service, at, cancels, callbacks, publisher, stopper, closed, life>>

(* wg.Wait has returned; Stop refuses new messages, and sends the old.     *)
StopPublishers ==
  /\ stopper = "cancelling"
  /\ copied = {}
  /\ stopper'   = "stopping"
  /\ publisher' = IF publisher = "open" THEN "stopped" ELSE publisher
  /\ UNCHANGED <<program, service, at, cancels, cancelled, callbacks, copied, closed, life>>

PublishersStopped ==
  /\ stopper = "stopping"
  /\ \A p \in Pubs : at[p] # "sending"
  /\ stopper' = "closing"
  /\ UNCHANGED <<program, service, at, cancels, cancelled, callbacks, publisher, copied, closed, life>>

CloseClient_Waits ==
  /\ stopper = "closing"
  /\ \A s \in Subs : at[s] # "receiving"
  /\ stopper' = "returned"
  /\ closed'  = TRUE
  /\ UNCHANGED <<program, service, at, cancels, cancelled, callbacks, publisher, copied, life>>

CloseClient_Skipped ==
  /\ stopper = "closing"
  /\ stopper' = "returned"
  /\ UNCHANGED <<program, service, at, cancels, cancelled, callbacks, publisher, copied, closed, life>>

CloseClient ==
  /\ stopper = "closing"
  /\ stopper' = "returned"
  /\ closed'  = TRUE
  /\ UNCHANGED <<program, service, at, cancels, cancelled, callbacks, publisher, copied, life>>

-----------------------------------------------------------------------------
(* Others. *)

OthersPublish(m) ==
  /\ topic' = TRUE
  /\ Arrive(m)
  /\ UNCHANGED <<program, subscription, consent, at, cancels, cancelled, callbacks, publisher,
                 stopping, life>>

LeaseExpires(k) ==
  /\ server[k] = "leased"
  /\ server' = [server EXCEPT ![k] = "queued"]
  /\ UNCHANGED <<program, topic, subscription, consent, at, cancels, cancelled, callbacks,
                 publisher, stopping, life>>

Kill == ProcessEnds("killed")

Restart ==
  /\ life # "up"
  /\ life' = "up"
  /\ UNCHANGED <<program, service, at, cancels, cancelled, callbacks, publisher, stopping>>

-----------------------------------------------------------------------------
Init ==
  /\ program \in Programs
  /\ topic        = FALSE
  /\ subscription = [n \in Names |-> "none"]
  /\ server       = [k \in Keys |-> "none"]
  /\ consent      = {}
  /\ at           = [c \in Callers |-> "none"]
  /\ cancels      = [n \in Names |-> None]
  /\ cancelled    = {}
  /\ phase        = [d \in Deliveries |-> "none"]
  /\ answered     = {}
  /\ sem          = [s \in Subs |-> Concurrency]
  /\ publisher    = "none"
  /\ stopper      = "idle"
  /\ copied       = {}
  /\ closed       = FALSE
  /\ life         = "up"

EnsureTopic(c) == GetTopic(c) \/ CreateTopic(c)

Publish(p) ==
  EnsureTopic(p) \/ GetPublisher(p) \/ PublisherPublish(p) \/ Sent(p) \/ PublishFails(p)

Subscribe(s) ==
  \/ EnsureTopic(s) \/ GetSubscription(s) \/ CreateSubscription(s) \/ SetupPanics(s)
  \/ Register(s) \/ Receive(s) \/ ReceiveStops(s) \/ Drained(s) \/ Finish(s)

Callback(d) == Acquire(d) \/ AcquireFails(d)

Handler(d) == HandlerAcks(d) \/ HandlerNacks(d) \/ HandlerSucceeds(d) \/ HandlerFails(d)

Stopping ==
  \/ \E s \in Subs : Cancel(s)
  \/ StopPublishers \/ PublishersStopped \/ CloseClient

Process ==
  \/ \E c \in Callers : Begin(c)
  \/ \E p \in Pubs : Publish(p)
  \/ \E s \in Subs : Subscribe(s) \/ ReceiveFails(s)
  \/ \E d \in Deliveries : Deliver(d) \/ Callback(d) \/ Handler(d)
  \/ Shutdown
  \/ Stopping

Next ==
  \/ life = "up" /\ (Process \/ Kill)
  \/ Restart
  \/ \E m \in Messages : OthersPublish(m)
  \/ \E k \in Keys : LeaseExpires(k)

Spec == Init /\ [][Next]_vars

(* Goroutines run on, calls to the service return, and a Receive returns   *)
(* that is cancelled or has lost its connection and its callbacks.         *)
Fairness ==
  /\ \A p \in Pubs : WF_vars(life = "up" /\ Publish(p))
  /\ \A s \in Subs : WF_vars(life = "up" /\ Subscribe(s))
  /\ \A d \in Deliveries : WF_vars(life = "up" /\ Callback(d))
  /\ WF_vars(life = "up" /\ Stopping)

FairSpec == Spec /\ Fairness

-----------------------------------------------------------------------------
(* Type invariant. *)
TypeOK ==
  /\ program      \in Programs
  /\ topic        \in BOOLEAN
  /\ subscription \in [Names -> {"none", "exists", "deleted"}]
  /\ server       \in [Keys -> {"none", "queued", "leased", "acked", "gone"}]
  /\ consent      \in SUBSET Keys
  /\ at \in [Callers -> {"none", "getTopic", "createTopic", "getSubscription",
       "createSubscription", "register", "receive", "receiving", "draining", "returned", "done",
       "getPublisher", "publish", "sending"}]
  /\ \A s \in Subs : at[s] \notin {"getPublisher", "publish", "sending"}
  /\ \A p \in Pubs : at[p] \in {"none", "getTopic", "createTopic", "getPublisher", "publish",
       "sending"}
  /\ cancels      \in [Names -> Subs \cup {None}]
  /\ cancelled    \in SUBSET Subs
  /\ phase        \in [Deliveries -> Phases]
  /\ answered     \in SUBSET Deliveries
  /\ sem          \in [Subs -> 0..Concurrency]
  /\ publisher    \in {"none", "open", "stopped"}
  /\ stopper      \in {"idle", "cancelling", "stopping", "closing", "returned"}
  /\ copied       \in SUBSET Subs
  /\ closed       \in BOOLEAN
  /\ life         \in {"up", "killed", "panicked"}

(* Callbacks run only inside the Receive that started them, no two         *)
(* Receives of one subscription overlap, and each one's semaphore keeps    *)
(* its handlers to opts.Concurrency with no token lost. *)
CallbacksBounded ==
  \A s \in Subs :
    /\ sem[s] + Cardinality(Running(s)) = Concurrency
    /\ Active(s) # {} => at[s] \in {"receiving", "draining"} /\ ~InProgress(s)

(* Only a unique subscription is ever deleted, and only when no handler    *)
(* can still want to ack one of its messages. *)
DeletedWhenDrained ==
  \A n \in Names : subscription[n] = "deleted" =>
    \E s \in Subs : Name(s) = n /\ opts[s].unique /\ at[s] = "done" /\ Active(s) = {}

(* Shutdown returns, though it holds g.mu as it waits for publishers, and  *)
(* handlers hang, unless the process ends. *)
ShutdownReturns ==
  stopper = "cancelling" ~> (stopper = "returned" \/ life # "up")

(* Every Subscribe ends after Shutdown when its handlers do: also one that *)
(* registered too late to be cancelled, or was replaced in g.cancels; or   *)
(* its set-up fails on the closed client, and takes the process down.      *)
SubscriptionsEnd ==
  (\A d \in Deliveries : []<>(phase[d] # "running")) =>
    \A s \in Subs :
      stopper = "returned" /\ at[s] # "none" ~> (at[s] = "done" \/ life # "up")

-----------------------------------------------------------------------------
(* The abstract promise: at-least-once delivery to every subscription.     *)

FateOf(k) ==
  CASE server[k] = "acked" -> "settled"
    [] server[k] = "gone"  -> "expired"
    [] OTHER               -> "open"

(* A unique subscription goes after Shutdown was called, and never under a *)
(* callback that runs.                                                     *)
MayGo ==
  {k \in Keys : stopper # "idle" /\ \E s \in Subs :
     Name(s) = k[1] /\ opts[s].unique /\ Active(s) = {}}

Promise == INSTANCE AtLeastOnce WITH
  Messages   <- Keys,
  Unreadable <- {},
  expiring   <- MayGo,
  fate       <- [k \in Keys |-> FateOf(k)],
  handled    <- consent

(* Whatever Subscribe, Shutdown, failing calls, kills and expired leases   *)
(* do to each other, a message goes for good only with a handler's consent *)
(* or with its unique subscription, when that may go.                      *)
DeliversAtLeastOnce == Promise!Spec
=============================================================================
