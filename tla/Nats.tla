-------------------------------- MODULE Nats --------------------------------
(***************************************************************************)
(* providers/nats/nats.go: one connection, a durable queue subscription    *)
(* for each Subscribe, whose callback decodes a message, runs the handler  *)
(* and acks what it succeeded for, and a Shutdown that closes the          *)
(* connection and then the subscriptions in the map n.topics.              *)
(*                                                                         *)
(* The streaming server keeps what it has sent to a subscription in flight *)
(* until it is acked, sends it again after AckWait, and sends nothing new  *)
(* while MaxInflight messages are out.  The client library runs one        *)
(* callback of a subscription at a time.                                   *)
(*                                                                         *)
(* A name with an underscore (Skip_Acks) is the definition before    *)
(* the underscore with a bug put in; nothing refers to it.                 *)
(***************************************************************************)
EXTENDS Integers, FiniteSets

CONSTANTS
  Subs,         \* calls of Subscribe
  Topics,       \* topics
  Queues,       \* durable queue groups: ServiceName--Name on a topic
  TopicOf,      \* the topic of a call
  QueueOf,      \* its queue group
  Messages,     \* messages to be published to every topic
  Unreadable,   \* those that do not decode, or whose time does not
  Concurrency,  \* HandlerOptions.Concurrency of each call, for MaxInflight
  AutoAck       \* HandlerOptions.AutoAck

ASSUME SubsAssumption ==
  /\ TopicOf \in [Subs -> Topics]
  /\ QueueOf \in [Subs -> Queues]
  /\ \A s, t \in Subs : QueueOf[s] = QueueOf[t] => TopicOf[s] = TopicOf[t]
ASSUME MessagesAssumption    == Unreadable \subseteq Messages /\ IsFiniteSet(Messages)
ASSUME ConcurrencyAssumption == Concurrency \in [Subs -> Nat \ {0}]
ASSUME AutoAckAssumption     == AutoAck \in BOOLEAN

None == "none"

ASSUME NoneAssumption == None \notin Subs \cup Messages

VARIABLES
  published,  \* the messages that each topic has got
  durable,    \* the queue groups the server knows
  unacked,    \* the messages that each queue group still has to handle
  inflight,   \* those it has sent to each subscription
  acked,      \* those that were acked
  consent,    \* history: the messages that a queue group's handlers are done with
  conn,       \* the connection: "open", "closed" or "lost"
  at,         \* where each Subscribe is
  sub,        \* what it got: a subscription that is "open" or "closed", or "nil"
  topics,     \* n.topics
  buffer,     \* the messages that wait for a subscription's callback
  held,       \* the message that its handler has
  stopper,    \* where Shutdown is
  toClose,    \* the subscriptions that it still has to close
  life        \* "up", or how the process has ended

server == <<published, durable, unacked, inflight, acked>>
client == <<conn, at, sub, topics>>
stopping == <<stopper, toClose>>
vars == <<server, consent, client, buffer, held, stopping, life>>

Keys == Queues \X Messages
Key(s, m) == <<QueueOf[s], m>>

Members(q) == {s \in Subs : QueueOf[s] = q}
Out(q)     == UNION {inflight[s] : s \in Members(q)}

Receiving(s) == sub[s] = "open" /\ conn = "open"

(* The server takes back what a subscription or connection had that ended. *)
TakenBack(gone) == inflight' = [s \in Subs |-> IF s \in gone THEN {} ELSE inflight[s]]

ProcessEnds(how) ==
  /\ life'    = how
  /\ conn'    = "open"
  /\ at'      = [s \in Subs |-> "none"]
  /\ sub'     = [s \in Subs |-> "none"]
  /\ topics'  = [t \in Topics |-> None]
  /\ buffer'  = [s \in Subs |-> {}]
  /\ held'    = [s \in Subs |-> None]
  /\ stopper' = "idle"
  /\ toClose' = {}
  /\ TakenBack(Subs)
  /\ UNCHANGED <<published, durable, unacked, acked, consent>>

-----------------------------------------------------------------------------
(* Publish. *)

(* By this process or another one.  On a connection that is gone, and      *)
(* whenever the server does not confirm, it returns an error.              *)
Publish(t, m) ==
  /\ m \notin published[t]
  /\ published' = [published EXCEPT ![t] = @ \cup {m}]
  /\ unacked'   = [q \in Queues |->
       IF q \in durable /\ \E s \in Members(q) : TopicOf[s] = t
       THEN unacked[q] \cup {m} ELSE unacked[q]]
  /\ UNCHANGED <<durable, inflight, acked, consent, client, buffer, held, stopping, life>>

-----------------------------------------------------------------------------
(* Subscribe. *)

(* StartWithLastReceived for a new durable queue: it begins with the last  *)
(* message that was published; with StartFromBeginning, with all of them.  *)
StartOf(q, t) ==
  {ms \in SUBSET published[t] : Cardinality(ms) <= 1} \cup {published[t]}

QueueSubscribe(s) ==
  /\ at[s] = "none"
  /\ conn = "open"
  /\ at'      = [at EXCEPT ![s] = "storing"]
  /\ sub'     = [sub EXCEPT ![s] = "open"]
  /\ durable' = durable \cup {QueueOf[s]}
  /\ IF QueueOf[s] \in durable THEN UNCHANGED unacked
     ELSE \E ms \in StartOf(QueueOf[s], TopicOf[s]) :
            unacked' = [unacked EXCEPT ![QueueOf[s]] = ms]
  /\ UNCHANGED <<published, inflight, acked, consent, conn, topics, buffer, held, stopping, life>>

QueueSubscribeFails(s) ==
  /\ at[s] = "none"
  /\ at'  = [at EXCEPT ![s] = "storing"]
  /\ sub' = [sub EXCEPT ![s] = "nil"]
  /\ UNCHANGED <<server, consent, conn, topics, buffer, held, stopping, life>>

(* n.topics[opts.Topic] = &sub, whether or not there is one. *)
Store(s) ==
  /\ at[s] = "storing"
  /\ at'     = [at EXCEPT ![s] = "done"]
  /\ topics' = [topics EXCEPT ![TopicOf[s]] = s]
  /\ UNCHANGED <<server, consent, conn, sub, buffer, held, stopping, life>>

-----------------------------------------------------------------------------
(* The server. *)

Send(s, m) ==
  /\ Receiving(s)
  /\ m \in unacked[QueueOf[s]] \ Out(QueueOf[s])
  /\ Cardinality(inflight[s]) < Concurrency[s]
  /\ inflight' = [inflight EXCEPT ![s] = @ \cup {m}]
  /\ buffer'   = [buffer EXCEPT ![s] = @ \cup {m}]
  /\ UNCHANGED <<published, durable, unacked, acked, consent, client, held, stopping, life>>

(* AckWait is over: the message is sent again, perhaps to another member.  *)
SendAgain(s, t, m) ==
  /\ m \in inflight[s]
  /\ QueueOf[t] = QueueOf[s]
  /\ Receiving(t)
  /\ s = t \/ Cardinality(inflight[t]) < Concurrency[t]
  /\ inflight' = [[inflight EXCEPT ![s] = @ \ {m}] EXCEPT ![t] = @ \cup {m}]
  /\ buffer'   = [buffer EXCEPT ![t] = @ \cup {m}]
  /\ UNCHANGED <<published, durable, unacked, acked, consent, client, held, stopping, life>>

(* stan gives a connection up for good; the server takes back what it had. *)
ConnectionLost ==
  /\ conn = "open"
  /\ conn'   = "lost"
  /\ buffer' = [s \in Subs |-> {}]
  /\ TakenBack(Subs)
  /\ UNCHANGED <<published, durable, unacked, acked, consent, at, sub, topics, held, stopping, life>>

-----------------------------------------------------------------------------
(* The callback. *)

CallbackReturns(s) == held' = [held EXCEPT ![s] = None]

Skip_Acks(s, m) ==
  /\ Receiving(s)
  /\ held[s] = None
  /\ m \in buffer[s] \cap Unreadable
  /\ buffer'   = [buffer EXCEPT ![s] = @ \ {m}]
  /\ unacked'  = [unacked EXCEPT ![QueueOf[s]] = @ \ {m}]
  /\ inflight' = [t \in Subs |->
       IF QueueOf[t] = QueueOf[s] THEN inflight[t] \ {m} ELSE inflight[t]]
  /\ acked'    = acked \cup {Key(s, m)}
  /\ UNCHANGED <<published, durable, consent, client, held, stopping, life>>

(* It does not decode: the callback returns without an ack. *)
Skip(s, m) ==
  /\ Receiving(s)
  /\ held[s] = None
  /\ m \in buffer[s] \cap Unreadable
  /\ buffer' = [buffer EXCEPT ![s] = @ \ {m}]
  /\ UNCHANGED <<server, consent, client, held, stopping, life>>

Call(s, m) ==
  /\ Receiving(s)
  /\ held[s] = None
  /\ m \in buffer[s] \ Unreadable
  /\ buffer' = [buffer EXCEPT ![s] = @ \ {m}]
  /\ held'   = [held EXCEPT ![s] = m]
  /\ UNCHANGED <<server, consent, client, stopping, life>>

(* An ack that arrives, of whichever delivery. *)
AckArrives(s) ==
  LET m == held[s]
  IN  /\ Receiving(s)
      /\ unacked'  = [unacked EXCEPT ![QueueOf[s]] = @ \ {m}]
      /\ inflight' = [t \in Subs |->
           IF QueueOf[t] = QueueOf[s] THEN inflight[t] \ {m} ELSE inflight[t]]
      /\ acked'    = acked \cup {Key(s, m)}

(* m.Ack; on a subscription or connection that is gone, and when it gets   *)
(* lost, nothing happens. *)
Ack(s) ==
  /\ \/ AckArrives(s)
     \/ UNCHANGED <<unacked, inflight, acked>>
  /\ UNCHANGED <<published, durable>>

Consents(s) == consent' = consent \cup {Key(s, held[s])}

HandlerAcks(s) ==
  /\ held[s] # None
  /\ Ack(s)
  /\ Consents(s)
  /\ UNCHANGED <<client, buffer, held, stopping, life>>

HandlerSucceeds_NoAck(s) ==
  /\ held[s] # None
  /\ Consents(s)
  /\ CallbackReturns(s)
  /\ UNCHANGED <<server, client, buffer, stopping, life>>

HandlerSucceeds(s) ==
  /\ held[s] # None
  /\ IF AutoAck THEN Ack(s) ELSE UNCHANGED server
  /\ Consents(s)
  /\ CallbackReturns(s)
  /\ UNCHANGED <<client, buffer, stopping, life>>

HandlerFails_Acks(s) ==
  /\ held[s] # None
  /\ IF AutoAck THEN Ack(s) ELSE UNCHANGED server
  /\ CallbackReturns(s)
  /\ UNCHANGED <<consent, client, buffer, stopping, life>>

HandlerFails(s) ==
  /\ held[s] # None
  /\ CallbackReturns(s)
  /\ UNCHANGED <<server, consent, client, buffer, stopping, life>>

-----------------------------------------------------------------------------
(* Shutdown, called once. *)

CloseConnection_Not ==
  /\ stopper = "idle"
  /\ stopper' = "ranging"
  /\ UNCHANGED <<server, consent, client, buffer, held, toClose, life>>

CloseConnection ==
  /\ stopper = "idle"
  /\ stopper' = "ranging"
  /\ conn'    = "closed"
  /\ buffer'  = [s \in Subs |-> {}]
  /\ TakenBack(Subs)
  /\ UNCHANGED <<published, durable, unacked, acked, consent, at, sub, topics, held, toClose, life>>

RangeTopics ==
  /\ stopper = "ranging"
  /\ stopper' = "closing"
  /\ toClose' = {topics[t] : t \in Topics} \ {None}
  /\ UNCHANGED <<server, consent, client, buffer, held, life>>

CloseSub(s) ==
  /\ s \in toClose
  /\ sub[s] # "nil"
  /\ toClose' = toClose \ {s}
  /\ sub'     = [sub EXCEPT ![s] = "closed"]
  /\ UNCHANGED <<server, consent, conn, at, topics, buffer, held, stopper, life>>

(* Close on a nil interface panics in its goroutine. *)
CloseNil(s) ==
  /\ s \in toClose
  /\ sub[s] = "nil"
  /\ ProcessEnds("panicked")

(* "fatal error: concurrent map iteration and map write" *)
ConcurrentMapAccess ==
  /\ stopper = "ranging"
  /\ \E s \in Subs : at[s] = "storing"
  /\ ProcessEnds("fatal")

ShutdownReturn ==
  /\ stopper = "closing"
  /\ toClose = {}
  /\ stopper' = "returned"
  /\ UNCHANGED <<server, consent, client, buffer, held, toClose, life>>

Kill == ProcessEnds("killed")

(* NewNats *)
Restart ==
  /\ life # "up"
  /\ life' = "up"
  /\ UNCHANGED <<server, consent, client, buffer, held, stopping>>

-----------------------------------------------------------------------------
Init ==
  /\ published = [t \in Topics |-> {}]
  /\ durable   = {}
  /\ unacked   = [q \in Queues |-> {}]
  /\ inflight  = [s \in Subs |-> {}]
  /\ acked     = {}
  /\ consent   = {}
  /\ conn      = "open"
  /\ at        = [s \in Subs |-> "none"]
  /\ sub       = [s \in Subs |-> "none"]
  /\ topics    = [t \in Topics |-> None]
  /\ buffer    = [s \in Subs |-> {}]
  /\ held      = [s \in Subs |-> None]
  /\ stopper   = "idle"
  /\ toClose   = {}
  /\ life      = "up"

Handler(s) == HandlerAcks(s) \/ HandlerSucceeds(s) \/ HandlerFails(s)

Shutdown ==
  RangeTopics \/ ShutdownReturn \/ \E s \in Subs : CloseSub(s) \/ CloseNil(s)

Process ==
  \/ \E s \in Subs :
       \/ QueueSubscribe(s) \/ QueueSubscribeFails(s) \/ Store(s) \/ Handler(s)
       \/ \E m \in Messages : Skip(s, m) \/ Call(s, m)
  \/ CloseConnection
  \/ Shutdown
  \/ ConcurrentMapAccess

Server ==
  \E s \in Subs, m \in Messages : Send(s, m) \/ \E t \in Subs : SendAgain(s, t, m)

Next ==
  \/ life = "up" /\ (Process \/ Server \/ ConnectionLost \/ Kill)
  \/ Restart
  \/ \E t \in Topics, m \in Messages : Publish(t, m)

Spec == Init /\ [][Next]_vars

(* Goroutines run on; the server sends what it may, and sends it again;    *)
(* callbacks take messages in the order they came, so that none waits for  *)
(* ever behind others. *)
Fairness ==
  \A q \in Queues, m \in Messages \ Unreadable :
    /\ WF_vars(\E s \in Members(q) : Send(s, m))
    /\ WF_vars(\E s, t \in Members(q) : SendAgain(s, t, m))
    /\ SF_vars(\E s \in Members(q) : Call(s, m))

(* A message that the handlers of a group get again and again is handled   *)
(* one day, and the ack arrives. *)
HandlersSucceed ==
  \A q \in Queues, m \in Messages \ Unreadable :
    SF_vars(\E s \in Members(q) : held[s] = m /\ AckArrives(s) /\ HandlerSucceeds(s))

FairSpec == Spec /\ Fairness /\ HandlersSucceed

-----------------------------------------------------------------------------
(* Type invariant; what is in flight is unacked, with one member of its    *)
(* group that receives, and within MaxInflight. *)
TypeOK ==
  /\ published \in [Topics -> SUBSET Messages]
  /\ durable   \in SUBSET Queues
  /\ unacked   \in [Queues -> SUBSET Messages]
  /\ inflight  \in [Subs -> SUBSET Messages]
  /\ \A s \in Subs :
       /\ inflight[s] \subseteq unacked[QueueOf[s]]
       /\ Cardinality(inflight[s]) <= Concurrency[s]
       /\ inflight[s] # {} => Receiving(s)
       /\ \A t \in Members(QueueOf[s]) \ {s} : inflight[s] \cap inflight[t] = {}
  /\ acked     \in SUBSET Keys
  /\ consent   \in SUBSET Keys
  /\ conn      \in {"open", "closed", "lost"}
  /\ at        \in [Subs -> {"none", "storing", "done"}]
  /\ sub       \in [Subs -> {"none", "open", "closed", "nil"}]
  /\ topics    \in [Topics -> Subs \cup {None}]
  /\ buffer    \in [Subs -> SUBSET Messages]
  /\ held      \in [Subs -> (Messages \ Unreadable) \cup {None}]
  /\ stopper   \in {"idle", "ranging", "closing", "returned"}
  /\ toClose   \in SUBSET Subs
  /\ life      \in {"up", "killed", "panicked", "fatal"}

(* After Shutdown no subscription gets anything any more: not those that   *)
(* another Subscribe to the topic has put out of n.topics, and not those   *)
(* that come later. *)
ShutdownStopsAll == stopper = "returned" => \A s \in Subs : ~Receiving(s)

(* As long as fewer messages cannot be read than MaxInflight lets out, a   *)
(* subscription that stays up gets every other message handled, whatever   *)
(* failed, got lost or was in flight when connections and processes ended. *)
EveryMessageHandled ==
  \A s \in Subs, m \in Messages \ Unreadable :
    Cardinality(Unreadable) < Concurrency[s] /\ <>[]Receiving(s) =>
      (m \in unacked[QueueOf[s]] ~> m \notin unacked[QueueOf[s]])

-----------------------------------------------------------------------------
(* The abstract promise: at-least-once delivery to every queue group.      *)

FateOf(k) == IF k \in acked THEN "settled" ELSE "open"

Promise == INSTANCE AtLeastOnce WITH
  Messages   <- Keys,
  Unreadable <- Queues \X Unreadable,
  expiring   <- {},
  fate       <- [k \in Keys |-> FateOf(k)],
  handled    <- consent

(* A message goes only with a handler's consent, whatever was in flight    *)
(* when connections and processes ended; those nobody can read stay.       *)
DeliversAtLeastOnce == Promise!Spec
=============================================================================
