------------------------------ MODULE RabbitMQ ------------------------------
(***************************************************************************)
(* providers/rabbitmq/rabbitmq.go: publishers share one AMQP channel,      *)
(* every subscription has a channel, a queue and a goroutine that handles  *)
(* its deliveries one by one, and Shutdown closes them all.  r.mu, a       *)
(* sync.RWMutex, is held for reading by Publish and by the look a consumer *)
(* takes at r.shutdown, for writing by Subscribe and Shutdown.             *)
(*                                                                         *)
(* All subscriptions here are to one topic, each with a queue of its own.  *)
(* The broker puts a copy of a message in every queue; it takes a message  *)
(* that was not settled back when the channel it went out on closes.       *)
(*                                                                         *)
(* A name with an underscore (Settle_Unguarded) is the definition before the *)
(* underscore with a bug put in; nothing refers to it.                     *)
(***************************************************************************)
EXTENDS Integers, Sequences, FiniteSets

CONSTANTS
  Messages,     \* messages that are published, one by each call of Publish
  Unreadable,   \* those that are no MessageWrapper, published by others
  Subs,         \* calls of Subscribe
  Stoppers,     \* calls of Shutdown
  Programs,     \* programs: the calls they make, and the HandlerOptions of
                \* their subscriptions; Concurrency is the prefetch count
  MaxDelivered  \* bound on how often a queue delivers a message

ASSUME UnreadableAssumption == Unreadable \subseteq Messages
ASSUME ProgramsAssumption ==
  Programs \subseteq [calls : SUBSET (Messages \cup Subs \cup Stoppers),
                      autoAck : BOOLEAN, concurrency : Nat \ {0}]
ASSUME DeliveredAssumption  == MaxDelivered \in Nat \ {0}

VARIABLES
  program,   \* the program that runs
  pub,       \* where each call of Publish is
  stop,      \* where each call of Shutdown is
  shutdown,  \* r.shutdown
  conn,      \* r.conn: "open", "broken", or "closed" by Shutdown
  channel,   \* r.channel, likewise
  chan,      \* the channel of each subscription, likewise, or "none"
  latest,    \* r.subscriptions[topic]: the subscription that wrote it last
  bound,     \* the subscriptions whose queue is bound to the exchange
  queue,     \* where each message is in each queue
  times,     \* how often each queue has delivered each message
  buffer,    \* what the client library holds for each consumer
  consumer,  \* where each Subscribe is, and then its consumer goroutine
  current,   \* the delivery it works on
  answered,  \* that delivery was acked or nacked
  consent    \* history: what the handler of each subscription is done with

linkVars   == <<conn, channel, chan, latest>>
brokerVars == <<bound, queue, times>>
workVars   == <<buffer, consumer, current, answered>>
vars == <<program, pub, stop, shutdown, linkVars, brokerVars, workVars, consent>>

AutoAck     == program.autoAck
Concurrency == program.concurrency

-----------------------------------------------------------------------------
(* r.mu.  A writer that waits keeps new readers out. *)

None == "none"

Readers_PublishUnlocked == {s \in Subs : consumer[s] = "reading"}

Readers_Deferred ==
  {p \in Messages : pub[p] = "sending"}
    \cup {s \in Subs : consumer[s] \in {"reading", "decoding", "handling"}}

(* Publish keeps the read lock to its end, the consumer for its look at    *)
(* r.shutdown. *)
Readers ==
  {p \in Messages : pub[p] = "sending"} \cup {s \in Subs : consumer[s] = "reading"}

CanRead ==
  /\ \A t \in Stoppers : stop[t] # "locking"
  /\ \A s \in Subs : consumer[s] # "locking"

CanWrite == Readers = {}

-----------------------------------------------------------------------------
(* The broker. *)

Unacked(s) == {m \in Messages : queue[s][m] = "unacked"}

(* What the queues of some subscriptions look like when their channels     *)
(* have closed. *)
Requeued(ss) ==
  [s \in Subs |-> [m \in Messages |->
     IF s \in ss /\ queue[s][m] = "unacked" THEN "ready" ELSE queue[s][m]]]

(* A channel to a broker that is gone, for those that were open. *)
Cut(c) == IF c = "open" THEN "broken" ELSE c

Deliver_NeverAutoAcked(s, m) ==
  /\ chan[s] = "open"
  /\ queue[s][m] = "ready"
  /\ times[s][m] < MaxDelivered
  /\ Cardinality(Unacked(s)) < Concurrency
  /\ queue'  = [queue EXCEPT ![s][m] = "unacked"]
  /\ times'  = [times EXCEPT ![s][m] = @ + 1]
  /\ buffer' = [buffer EXCEPT ![s] = Append(@, m)]
  /\ UNCHANGED <<program, pub, stop, shutdown, linkVars, bound, consumer, current,
                 answered, consent>>

(* The broker pushes a message, up to the prefetch count of unacked ones   *)
(* when the consumer acks; with auto-ack it settles what it sends.         *)
Deliver(s, m) ==
  /\ chan[s] = "open"
  /\ queue[s][m] = "ready"
  /\ times[s][m] < MaxDelivered
  /\ AutoAck \/ Cardinality(Unacked(s)) < Concurrency
  /\ queue'  = [queue EXCEPT ![s][m] = IF AutoAck THEN "settled" ELSE "unacked"]
  /\ times'  = [times EXCEPT ![s][m] = @ + 1]
  /\ buffer' = [buffer EXCEPT ![s] = Append(@, m)]
  /\ UNCHANGED <<program, pub, stop, shutdown, linkVars, bound, consumer, current,
                 answered, consent>>

(* x-message-ttl, the subscription's Deadline. *)
Expire(s, m) ==
  /\ queue[s][m] = "ready"
  /\ queue' = [queue EXCEPT ![s][m] = "expired"]
  /\ UNCHANGED <<program, pub, stop, shutdown, linkVars, bound, times, workVars,
                 consent>>

(* A message reaches the exchange. *)
Routed(m) ==
  queue' = [s \in Subs |->
    IF s \in bound THEN [queue[s] EXCEPT ![m] = "ready"] ELSE queue[s]]

(* The connection breaks, and nothing opens it again. *)
ConnectionLost ==
  /\ conn = "open"
  /\ conn' = "broken"
  /\ channel' = Cut(channel)
  /\ chan' = [s \in Subs |-> Cut(chan[s])]
  /\ queue' = Requeued(Subs)
  /\ UNCHANGED <<program, pub, stop, shutdown, latest, bound, times, workVars, consent>>

-----------------------------------------------------------------------------
(* Publish. *)

(* Somebody else publishes something that this package cannot decode.      *)
OthersPublish(m) ==
  /\ m \in Unreadable \cap program.calls
  /\ pub[m] = "idle"
  /\ pub' = [pub EXCEPT ![m] = "sent"]
  /\ Routed(m)
  /\ UNCHANGED <<program, stop, shutdown, linkVars, bound, times, workVars, consent>>

(* RLock, then the look at r.shutdown. *)
PublishLock(p) ==
  /\ p \in program.calls \ Unreadable
  /\ pub[p] = "idle"
  /\ CanRead
  /\ pub' = [pub EXCEPT ![p] = IF shutdown THEN "refused" ELSE "sending"]
  /\ UNCHANGED <<program, stop, shutdown, linkVars, brokerVars, workVars, consent>>

(* The exchange is declared and the message published, on the channel that *)
(* all calls share; an exchange of another kind breaks it.                 *)
PublishSend(p) ==
  /\ pub[p] = "sending"
  /\ \/ /\ channel = "open"
        /\ pub' = [pub EXCEPT ![p] = "sent"]
        /\ Routed(p)
        /\ UNCHANGED channel
     \/ /\ pub' = [pub EXCEPT ![p] = "failed"]
        /\ channel' \in {channel, Cut(channel)}
        /\ UNCHANGED queue
  /\ UNCHANGED <<program, stop, shutdown, conn, chan, latest, bound, times, workVars,
                 consent>>

-----------------------------------------------------------------------------
(* Subscribe. *)

SubscribeCalled(s) ==
  /\ s \in program.calls
  /\ consumer[s] = "none"
  /\ consumer' = [consumer EXCEPT ![s] = "locking"]
  /\ UNCHANGED <<program, pub, stop, shutdown, linkVars, brokerVars, buffer, current,
                 answered, consent>>

(* Under Lock.  A failure leaves a closed channel, at the worst when the   *)
(* queue is bound and the channel is in r.subscriptions.                   *)
Subscribe(s) ==
  /\ consumer[s] = "locking"
  /\ CanWrite
  /\ \/ /\ ~shutdown
        /\ conn = "open"
        /\ chan'     = [chan EXCEPT ![s] = "open"]
        /\ bound'    = bound \cup {s}
        /\ latest'   = s
        /\ consumer' = [consumer EXCEPT ![s] = "idle"]
     \/ /\ \/ UNCHANGED <<chan, bound, latest>>  \* refused, or no channel
           \/ /\ ~shutdown
              /\ conn = "open"
              /\ chan' = [chan EXCEPT ![s] = "closed"]
              /\ \/ UNCHANGED <<bound, latest>>
                 \/ bound' = bound \cup {s} /\ latest' \in {latest, s}
        /\ consumer' = [consumer EXCEPT ![s] = "failed"]
  /\ UNCHANGED <<program, pub, stop, shutdown, conn, channel, queue, times, buffer,
                 current, answered, consent>>

-----------------------------------------------------------------------------
(* The consumer. *)

(* Where a consumer has a delivery in hand. *)
Busy == {"checking", "reading", "decoding", "handling"}

(* for d := range msgs *)
Take(s) ==
  /\ consumer[s] = "idle"
  /\ buffer[s] # <<>>
  /\ current'  = [current EXCEPT ![s] = Head(buffer[s])]
  /\ buffer'   = [buffer EXCEPT ![s] = Tail(@)]
  /\ answered' = [answered EXCEPT ![s] = FALSE]
  /\ consumer' = [consumer EXCEPT ![s] = "checking"]
  /\ UNCHANGED <<program, pub, stop, shutdown, linkVars, brokerVars, consent>>

(* The library closes msgs with the channel, and drops what it still holds. *)
ChannelEnds(s) ==
  /\ consumer[s] = "idle"
  /\ chan[s] \in {"broken", "closed"}
  /\ consumer' = [consumer EXCEPT ![s] = "done"]
  /\ buffer' = [buffer EXCEPT ![s] = <<>>]
  /\ UNCHANGED <<program, pub, stop, shutdown, linkVars, brokerVars, current, answered,
                 consent>>

(* RLock *)
CheckLock(s) ==
  /\ consumer[s] = "checking"
  /\ CanRead
  /\ consumer' = [consumer EXCEPT ![s] = "reading"]
  /\ UNCHANGED <<program, pub, stop, shutdown, linkVars, brokerVars, buffer, current,
                 answered, consent>>

(* RUnlock, and a return that leaves the delivery unsettled. *)
CheckShutdown(s) ==
  /\ consumer[s] = "reading"
  /\ consumer' = [consumer EXCEPT ![s] = IF shutdown THEN "done" ELSE "decoding"]
  /\ UNCHANGED <<program, pub, stop, shutdown, linkVars, brokerVars, buffer, current,
                 answered, consent>>

(* d.Ack or d.Nack, for a subscription without AutoAck.  On a channel that *)
(* is gone it is an error nobody looks at; the second one for a delivery   *)
(* makes the broker close the channel. *)
Settle(s, to) ==
  \/ /\ AutoAck \/ chan[s] # "open"
     /\ UNCHANGED <<queue, chan, answered>>
  \/ /\ ~AutoAck
     /\ chan[s] = "open"
     /\ ~answered[s]
     /\ queue' = [queue EXCEPT ![s][current[s]] = to]
     /\ answered' = [answered EXCEPT ![s] = TRUE]
     /\ UNCHANGED chan
  \/ /\ ~AutoAck
     /\ chan[s] = "open"
     /\ answered[s]
     /\ chan' = [chan EXCEPT ![s] = "broken"]
     /\ queue' = Requeued({s})
     /\ UNCHANGED answered

Decode_LeavesPoison(s) ==
  /\ consumer[s] = "decoding"
  /\ consumer' = [consumer EXCEPT ![s] =
       IF current[s] \in Unreadable THEN "idle" ELSE "handling"]
  /\ UNCHANGED <<program, queue, chan, answered, pub, stop, shutdown, conn, channel,
                 latest, bound, times, buffer, current, consent>>

(* What cannot be decoded is nacked for good. *)
Decode(s) ==
  /\ consumer[s] = "decoding"
  /\ \/ /\ current[s] \in Unreadable
        /\ Settle(s, "discarded")
        /\ consumer' = [consumer EXCEPT ![s] = "idle"]
     \/ /\ current[s] \notin Unreadable
        /\ consumer' = [consumer EXCEPT ![s] = "handling"]
        /\ UNCHANGED <<queue, chan, answered>>
  /\ UNCHANGED <<program, pub, stop, shutdown, conn, channel, latest, bound, times,
                 buffer, current, consent>>

(* The handler calls msg.Ack or msg.Nack; with AutoAck these do nothing.   *)
HandlerAcks(s) ==
  /\ ~AutoAck
  /\ consumer[s] = "handling"
  /\ consent' = [consent EXCEPT ![s] = @ \cup {current[s]}]
  /\ Settle(s, "settled")
  /\ UNCHANGED <<program, pub, stop, shutdown, conn, channel, latest, bound, times,
                 buffer, consumer, current>>

HandlerNacks(s) ==
  /\ ~AutoAck
  /\ consumer[s] = "handling"
  /\ Settle(s, "ready")
  /\ UNCHANGED <<program, pub, stop, shutdown, conn, channel, latest, bound, times,
                 buffer, consumer, current, consent>>

HandlerFails_Drops(s) ==
  /\ consumer[s] = "handling"
  /\ Settle(s, "discarded")
  /\ consumer' = [consumer EXCEPT ![s] = "idle"]
  /\ UNCHANGED <<program, pub, stop, shutdown, conn, channel, latest, bound, times,
                 buffer, current, consent>>

(* h returns an error: msg.Nack, with requeue, whatever the handler did    *)
(* before. *)
HandlerFails(s) ==
  /\ consumer[s] = "handling"
  /\ Settle(s, "ready")
  /\ consumer' = [consumer EXCEPT ![s] = "idle"]
  /\ UNCHANGED <<program, pub, stop, shutdown, conn, channel, latest, bound, times,
                 buffer, current, consent>>

(* h returns nil: nothing is left to do, for the Ack of an auto-acked      *)
(* message is empty. *)
HandlerSucceeds(s) ==
  /\ consumer[s] = "handling"
  /\ consumer' = [consumer EXCEPT ![s] = "idle"]
  /\ consent' = IF AutoAck THEN [consent EXCEPT ![s] = @ \cup {current[s]}] ELSE consent
  /\ UNCHANGED <<program, pub, stop, shutdown, linkVars, brokerVars, buffer, current,
                 answered>>

-----------------------------------------------------------------------------
(* Shutdown. *)

ShutdownCalled(t) ==
  /\ t \in program.calls
  /\ stop[t] = "idle"
  /\ stop' = [stop EXCEPT ![t] = "locking"]
  /\ UNCHANGED <<program, pub, shutdown, linkVars, brokerVars, workVars, consent>>

ShutdownRuns_KeepsConnection(t) ==
  /\ stop[t] = "locking"
  /\ CanWrite
  /\ shutdown' = TRUE
  /\ channel'  = "closed"
  /\ chan'  = [s \in Subs |-> IF s = latest THEN "closed" ELSE chan[s]]
  /\ queue' = Requeued({latest})
  /\ stop'  = [stop EXCEPT ![t] = "returned"]
  /\ UNCHANGED <<program, pub, conn, latest, bound, times, workVars, consent>>

(* Under Lock: the flag, r.channel, the channels in r.subscriptions, and   *)
(* the connection, which takes along the channels that were overwritten in *)
(* that map. *)
ShutdownRuns(t) ==
  /\ stop[t] = "locking"
  /\ CanWrite
  /\ shutdown' = TRUE
  /\ channel'  = "closed"
  /\ conn'     = "closed"
  /\ chan'  = [s \in Subs |-> IF chan[s] = "none" THEN "none" ELSE "closed"]
  /\ queue' = Requeued(Subs)
  /\ stop'  = [stop EXCEPT ![t] = "returned"]
  /\ UNCHANGED <<program, pub, latest, bound, times, workVars, consent>>

-----------------------------------------------------------------------------
(* The process ends, and a new one connects to the broker. *)
Restart ==
  /\ pub'      = [p \in Messages |-> IF pub[p] = "sending" THEN "lost" ELSE pub[p]]
  /\ stop'     = [t \in Stoppers |-> "idle"]
  /\ shutdown' = FALSE
  /\ conn'     = "open"
  /\ channel'  = "open"
  /\ chan'     = [s \in Subs |-> "none"]
  /\ latest'   = None
  /\ queue'    = Requeued(Subs)
  /\ buffer'   = [s \in Subs |-> <<>>]
  /\ consumer' = [s \in Subs |-> "none"]
  /\ current'  = [s \in Subs |-> None]
  /\ answered' = [s \in Subs |-> FALSE]
  /\ UNCHANGED <<program, bound, times, consent>>

Init ==
  /\ program \in Programs
  /\ pub      = [p \in Messages |-> "idle"]
  /\ stop     = [t \in Stoppers |-> "idle"]
  /\ shutdown = FALSE
  /\ conn     = "open"
  /\ channel  = "open"
  /\ chan     = [s \in Subs |-> "none"]
  /\ latest   = None
  /\ bound    = {}
  /\ queue    = [s \in Subs |-> [m \in Messages |-> "absent"]]
  /\ times    = [s \in Subs |-> [m \in Messages |-> 0]]
  /\ buffer   = [s \in Subs |-> <<>>]
  /\ consumer = [s \in Subs |-> "none"]
  /\ current  = [s \in Subs |-> None]
  /\ answered = [s \in Subs |-> FALSE]
  /\ consent  = [s \in Subs |-> {}]

Consumer(s) ==
  Take(s) \/ ChannelEnds(s) \/ CheckLock(s) \/ CheckShutdown(s) \/ Decode(s)

HandlerReturns(s) == HandlerFails(s) \/ HandlerSucceeds(s)

Broker ==
  \/ \E s \in Subs, m \in Messages : Deliver(s, m) \/ Expire(s, m)
  \/ \E m \in Messages : OthersPublish(m)
  \/ ConnectionLost

Next ==
  \/ \E p \in Messages : PublishLock(p) \/ PublishSend(p)
  \/ \E s \in Subs :
       \/ SubscribeCalled(s) \/ Subscribe(s) \/ Consumer(s)
       \/ HandlerAcks(s) \/ HandlerNacks(s) \/ HandlerReturns(s)
  \/ \E t \in Stoppers : ShutdownCalled(t) \/ ShutdownRuns(t)
  \/ Broker
  \/ Restart

Spec == Init /\ [][Next]_vars

(* The scheduler runs every goroutine that can run, the lock goes to       *)
(* whoever waits for it, and calls to the broker end: heartbeats break a   *)
(* connection that does not answer.  Handlers need not return.             *)
Fairness ==
  /\ \A p \in Messages : WF_vars(PublishSend(p))
  /\ \A s \in Subs : WF_vars(Subscribe(s)) /\ WF_vars(Consumer(s))
  /\ \A t \in Stoppers : WF_vars(ShutdownRuns(t))

FairSpec == Spec /\ Fairness

-----------------------------------------------------------------------------
(* Type invariant: every call and consumer is at a place that rabbitmq.go  *)
(* has, and a consumer at work works on a message.                         *)
TypeOK ==
  /\ program  \in Programs
  /\ pub      \in [Messages -> {"idle", "sending", "sent", "failed", "refused", "lost"}]
  /\ stop     \in [Stoppers -> {"idle", "locking", "returned"}]
  /\ shutdown \in BOOLEAN
  /\ conn     \in {"open", "broken", "closed"}
  /\ channel  \in {"open", "broken", "closed"}
  /\ chan     \in [Subs -> {"none", "open", "broken", "closed"}]
  /\ latest   \in Subs \cup {None}
  /\ bound    \in SUBSET Subs
  /\ queue    \in [Subs -> [Messages ->
       {"absent", "ready", "unacked", "settled", "discarded", "expired"}]]
  /\ times    \in [Subs -> [Messages -> 0..MaxDelivered]]
  /\ buffer   \in [Subs -> Seq(Messages)]
  /\ consumer \in [Subs -> {"none", "locking", "idle", "checking", "reading",
                            "decoding", "handling", "done", "failed"}]
  /\ current  \in [Subs -> Messages \cup {None}]
  /\ \A s \in Subs : consumer[s] \in Busy => current[s] \in Messages
  /\ answered \in [Subs -> BOOLEAN]
  /\ consent  \in [Subs -> SUBSET Messages]

(* What a consumer has in its buffer or in hand is unacked at the broker,  *)
(* which gives it to nobody else; and no message that cannot be decoded    *)
(* stays unacked behind it, where it would take up a place of the prefetch *)
(* window for good.                                                        *)
UnackedIsWithConsumer ==
  \A s \in Subs : (chan[s] = "open" /\ ~AutoAck) =>
    LET inHand   == IF consumer[s] \in Busy \ {"handling"}
                    THEN {current[s]} ELSE {}
        buffered == {buffer[s][i] : i \in 1..Len(buffer[s])}
    IN  /\ inHand \cap buffered = {}
        /\ inHand \cup buffered \subseteq Unacked(s)
        /\ Unacked(s) \cap Unreadable \subseteq inHand \cup buffered
        /\ Cardinality(buffered) = Len(buffer[s])

(* With AutoAck the broker settles what it sends: the handler gets a       *)
(* message that no handler was called with before, also after it failed,   *)
(* and after the connection, the channel or the process has ended with     *)
(* deliveries in the buffer, which are lost then and never come again.     *)
AutoAckedOnce ==
  AutoAck => \A s \in Subs : consumer[s] = "handling" =>
    times[s][current[s]] = 1 /\ current[s] \notin consent[s]

(* Publish never works on a channel that Shutdown has closed: it would     *)
(* report a failure instead of the shutdown.                               *)
NoPublishAfterClose ==
  \A p \in Messages : pub[p] = "sending" => channel # "closed" /\ ~shutdown

(* Once Shutdown has returned no channel is left open, those included that *)
(* a second subscription to the topic has pushed out of r.subscriptions.   *)
ShutdownClosesAll ==
  \A t \in Stoppers : stop[t] = "returned" =>
    /\ channel # "open"
    /\ \A s \in Subs : chan[s] # "open"

(* Shutdown gets the lock and returns, though publishers and consumers     *)
(* come and go and some handler never returns.                             *)
ShutdownReturns ==
  \A t \in Stoppers : stop[t] = "locking" ~> stop[t] # "locking"

(* After Shutdown every consumer goroutine ends, if handlers return: also  *)
(* the one whose channel is no longer in r.subscriptions.                  *)
ConsumersEnd ==
  (\A s \in Subs : []<>(consumer[s] # "handling")) =>
    \A t \in Stoppers, s \in Subs :
      stop[t] = "returned" ~>
        (stop[t] # "returned" \/ consumer[s] \in {"none", "locking", "failed", "done"})

-----------------------------------------------------------------------------
(* The abstract promise, for the copy of each message in each queue.  With *)
(* AutoAck the broker settles what it sends, and AutoAckedOnce is all that *)
(* is left of it.                                                          *)

FateOf(d) ==
  IF ~AutoAck /\ queue[d[1]][d[2]] \in {"settled", "discarded", "expired"}
  THEN queue[d[1]][d[2]] ELSE "open"

Promise == INSTANCE AtLeastOnce WITH
  Messages   <- Subs \X Messages,
  Unreadable <- Subs \X Unreadable,
  expiring   <- Subs \X Messages,
  fate       <- [d \in Subs \X Messages |-> FateOf(d)],
  handled    <- {d \in Subs \X Messages : d[2] \in consent[d[1]]}

(* Without AutoAck, no lost connection, closed channel or restart takes a  *)
(* message from a queue that its handler was not done with, but for        *)
(* expiry; and what is taken never comes back.                             *)
DeliversAtLeastOnce == Promise!Spec

=============================================================================
