----------------------------- MODULE NatsProofs -----------------------------
(***************************************************************************)
(* Proofs about Nats for any subscriptions, topics, queue groups and       *)
(* concurrency and any finite set of messages.                             *)
(*                                                                         *)
(* The argument: what the server has in flight is unacked, with one member *)
(* of the group that receives, within MaxInflight (TypeOK); a connection   *)
(* that Shutdown has closed stays closed while the process lives (Closed); *)
(* and an ack takes from the queue only what a handler has in its hands    *)
(* and is done with, which is never unreadable (UnackedStep).              *)
(***************************************************************************)
EXTENDS Nats, FiniteSetTheorems, TLAPS

(* A subscription is to a queue group the server knows, and Shutdown goes  *)
(* on only while the connection it closed is not open.                     *)
Closed ==
  /\ stopper # "idle" => conn # "open"
  /\ toClose # {} => stopper # "idle"
  /\ \A s \in Subs : sub[s] = "open" => QueueOf[s] \in durable
  /\ \A s \in Subs : at[s] = "none" => sub[s] # "open"

(* What TypeOK says of the messages in flight.                             *)
InFlightOK ==
  \A s \in Subs :
    /\ inflight[s] \subseteq unacked[QueueOf[s]]
    /\ Cardinality(inflight[s]) <= Concurrency[s]
    /\ inflight[s] # {} => Receiving(s)
    /\ \A t \in Members(QueueOf[s]) \ {s} : inflight[s] \cap inflight[t] = {}

LEMMA InitType == Init => TypeOK
<1> SUFFICES ASSUME Init PROVE TypeOK
  OBVIOUS
<1>1. \A s \in Subs : Cardinality({}) <= Concurrency[s]
  BY FS_EmptySet, ConcurrencyAssumption
<1> QED
  BY <1>1 DEF Init, TypeOK, Receiving

(* A subset of what may be in flight may be in flight.                     *)
LEMMA FewerInFlight ==
  ASSUME NEW S \in SUBSET Messages, NEW T \in SUBSET S
  PROVE  IsFiniteSet(S) /\ IsFiniteSet(T) /\ Cardinality(T) <= Cardinality(S)
         /\ Cardinality(S) \in Nat /\ Cardinality(T) \in Nat
  BY MessagesAssumption, FS_Subset, FS_CardinalityType

LEMMA OneMore ==
  ASSUME NEW S \in SUBSET Messages, NEW m
  PROVE  Cardinality(S \cup {m}) <= Cardinality(S) + 1 /\ Cardinality(S \cup {m}) \in Nat
<1>1. IsFiniteSet(S) /\ Cardinality(S) \in Nat
  BY FewerInFlight
<1>2. IsFiniteSet(S \cup {m})
  BY <1>1, FS_AddElement
<1> QED
  BY <1>1, <1>2, FS_AddElement, FS_CardinalityType

LEMMA TakenBackOK ==
  ASSUME TypeOK, TakenBack(Subs)
  PROVE  inflight' \in [Subs -> SUBSET Messages] /\ InFlightOK'
<1>1. \A s \in Subs : inflight'[s] = {}
  BY DEF TakenBack
<1>2. \A s \in Subs : Cardinality({}) <= Concurrency[s]
  BY FS_EmptySet, ConcurrencyAssumption
<1> QED
  BY <1>1, <1>2 DEF TakenBack, InFlightOK, Receiving

LEMMA ProcessEndsType ==
  ASSUME TypeOK, NEW how \in {"killed", "panicked", "fatal"}, ProcessEnds(how)
  PROVE  TypeOK'
<1>1. inflight' \in [Subs -> SUBSET Messages] /\ InFlightOK'
  BY TakenBackOK DEF ProcessEnds
<1> QED
  BY <1>1 DEF ProcessEnds, TypeOK, InFlightOK, Receiving

LEMMA AckType ==
  ASSUME TypeOK, NEW s \in Subs, held[s] # None, Ack(s), UNCHANGED <<conn, sub>>
  PROVE  /\ unacked' \in [Queues -> SUBSET Messages]
         /\ inflight' \in [Subs -> SUBSET Messages]
         /\ InFlightOK'
         /\ acked' \in SUBSET Keys
<1>1. CASE UNCHANGED <<unacked, inflight, acked>>
  BY <1>1 DEF TypeOK, InFlightOK, Receiving, Members
<1>2. CASE AckArrives(s)
  <2>1. held[s] \in Messages /\ QueueOf[s] \in Queues
    BY SubsAssumption DEF TypeOK
  <2>2. /\ unacked' \in [Queues -> SUBSET Messages]
        /\ inflight' \in [Subs -> SUBSET Messages]
        /\ acked' \in SUBSET Keys
    BY <1>2, <2>1 DEF AckArrives, TypeOK, Keys, Key
  <2>3. ASSUME NEW t \in Subs
        PROVE  /\ inflight'[t] \subseteq inflight[t]
               /\ inflight'[t] \subseteq unacked'[QueueOf[t]]
    <3>1. QueueOf[t] \in Queues
      BY SubsAssumption
    <3> QED
      BY <1>2, <2>1, <3>1 DEF AckArrives, TypeOK
  <2>4. \A t \in Subs : Cardinality(inflight'[t]) <= Concurrency[t]
    <3> SUFFICES ASSUME NEW t \in Subs PROVE Cardinality(inflight'[t]) <= Concurrency[t]
      OBVIOUS
    <3>1. inflight[t] \in SUBSET Messages /\ inflight'[t] \in SUBSET inflight[t]
      BY <2>3 DEF TypeOK
    <3>2. Cardinality(inflight'[t]) <= Cardinality(inflight[t])
          /\ Cardinality(inflight[t]) \in Nat /\ Cardinality(inflight'[t]) \in Nat
      BY <3>1, FewerInFlight
    <3>3. Cardinality(inflight[t]) <= Concurrency[t] /\ Concurrency[t] \in Nat
      BY ConcurrencyAssumption DEF TypeOK
    <3> QED
      BY <3>2, <3>3
  <2>5. \A t \in Subs : Receiving(t)' <=> Receiving(t)
    BY DEF Receiving
  <2> QED
    BY <2>2, <2>3, <2>4, <2>5 DEF InFlightOK, TypeOK, Members
<1> QED
  BY <1>1, <1>2 DEF Ack

LEMMA SendType ==
  ASSUME TypeOK, NEW s \in Subs, NEW m \in Messages, Send(s, m) PROVE TypeOK'
<1>1. /\ inflight' = [inflight EXCEPT ![s] = @ \cup {m}]
      /\ inflight' \in [Subs -> SUBSET Messages]
      /\ buffer' \in [Subs -> SUBSET Messages]
      /\ UNCHANGED <<unacked, conn, sub>>
  BY DEF Send, TypeOK, client
<1>2. /\ Receiving(s) /\ Cardinality(inflight[s]) < Concurrency[s]
      /\ m \in unacked[QueueOf[s]] \ Out(QueueOf[s])
  BY DEF Send
<1>3. \A t \in Members(QueueOf[s]) : m \notin inflight[t]
  BY <1>2 DEF Out
<1>4. Cardinality(inflight[s] \cup {m}) <= Concurrency[s]
  <2>1. IsFiniteSet(inflight[s]) /\ Cardinality(inflight[s]) \in Nat
    BY FewerInFlight DEF TypeOK
  <2>2. Cardinality(inflight[s] \cup {m}) <= Cardinality(inflight[s]) + 1
        /\ Cardinality(inflight[s] \cup {m}) \in Nat
    BY OneMore DEF TypeOK
  <2>3. Concurrency[s] \in Nat
    BY ConcurrencyAssumption
  <2> QED
    BY <1>2, <2>1, <2>2, <2>3
<1>5. \A t \in Subs : Receiving(t)' <=> Receiving(t)
  BY <1>1 DEF Receiving
<1>6. InFlightOK'
  <2> SUFFICES ASSUME NEW t \in Subs
               PROVE  /\ inflight'[t] \subseteq unacked'[QueueOf[t]]
                      /\ Cardinality(inflight'[t]) <= Concurrency[t]
                      /\ inflight'[t] # {} => Receiving(t)'
                      /\ \A r \in Members(QueueOf[t]) \ {t} : inflight'[t] \cap inflight'[r] = {}
    BY DEF InFlightOK, Members
  <2>1. inflight'[t] = IF t = s THEN inflight[s] \cup {m} ELSE inflight[t]
    BY <1>1 DEF TypeOK
  <2>2. \A r \in Subs : inflight'[r] = IF r = s THEN inflight[s] \cup {m} ELSE inflight[r]
    BY <1>1 DEF TypeOK
  <2>3. \A r \in Members(QueueOf[t]) \ {t} : inflight'[t] \cap inflight'[r] = {}
    BY <1>3, <2>2 DEF TypeOK, Members
  <2> QED
    BY <1>1, <1>2, <1>4, <1>5, <2>1, <2>3 DEF TypeOK
<1> QED
  BY <1>1, <1>6 DEF InFlightOK, TypeOK, Send, client, stopping, Receiving

LEMMA SendAgainType ==
  ASSUME TypeOK, NEW s \in Subs, NEW t \in Subs, NEW m \in Messages, SendAgain(s, t, m)
  PROVE  TypeOK'
<1>1. /\ inflight' = [[inflight EXCEPT ![s] = @ \ {m}] EXCEPT ![t] = @ \cup {m}]
      /\ inflight' \in [Subs -> SUBSET Messages]
      /\ buffer' \in [Subs -> SUBSET Messages]
      /\ UNCHANGED <<unacked, conn, sub>>
      /\ m \in inflight[s] /\ QueueOf[t] = QueueOf[s] /\ Receiving(t)
      /\ s = t \/ Cardinality(inflight[t]) < Concurrency[t]
  BY DEF SendAgain, TypeOK, client
<1>2. \A r \in Subs : inflight'[r] =
        IF r = t THEN inflight[t] \cup {m} ELSE IF r = s THEN inflight[s] \ {m} ELSE inflight[r]
  BY <1>1 DEF TypeOK
<1>3. \A r \in Members(QueueOf[s]) \ {s} : m \notin inflight[r]
  BY <1>1 DEF TypeOK
<1>4. ASSUME NEW r \in Subs PROVE Cardinality(inflight'[r]) <= Concurrency[r]
  <2>1. /\ IsFiniteSet(inflight[r]) /\ Cardinality(inflight[r]) \in Nat
        /\ Cardinality(inflight[r]) <= Concurrency[r] /\ Concurrency[r] \in Nat
    BY FewerInFlight, ConcurrencyAssumption DEF TypeOK
  <2>2. CASE r = t /\ s # t
    <3>1. Cardinality(inflight[r] \cup {m}) <= Cardinality(inflight[r]) + 1
          /\ Cardinality(inflight[r] \cup {m}) \in Nat
      BY <2>1, FS_AddElement, FS_CardinalityType
    <3> QED
      BY <1>1, <1>2, <2>1, <2>2, <3>1
  <2>3. CASE r = t /\ s = t
    <3>1. inflight'[r] = inflight[r]
      BY <1>1, <1>2, <2>3
    <3> QED
      BY <2>1, <3>1
  <2>4. CASE r # t
    <3>1. inflight'[r] \in SUBSET inflight[r] /\ inflight[r] \in SUBSET Messages
      BY <1>2, <2>4 DEF TypeOK
    <3>2. Cardinality(inflight'[r]) <= Cardinality(inflight[r])
          /\ Cardinality(inflight'[r]) \in Nat
      BY <3>1, FewerInFlight
    <3> QED
      BY <2>1, <3>2
  <2> QED
    BY <2>2, <2>3, <2>4
<1>5. \A r \in Subs : Receiving(r)' <=> Receiving(r)
  BY <1>1 DEF Receiving
<1>6. InFlightOK'
  <2> SUFFICES ASSUME NEW r \in Subs
               PROVE  /\ inflight'[r] \subseteq unacked'[QueueOf[r]]
                      /\ inflight'[r] # {} => Receiving(r)'
                      /\ \A u \in Members(QueueOf[r]) \ {r} : inflight'[r] \cap inflight'[u] = {}
    BY <1>4 DEF InFlightOK, Members
  <2>1. inflight'[r] \subseteq unacked'[QueueOf[r]]
    BY <1>1, <1>2 DEF TypeOK
  <2>2. inflight'[r] # {} => Receiving(r)'
    BY <1>1, <1>2, <1>5 DEF TypeOK
  <2>3. \A u \in Members(QueueOf[r]) \ {r} : inflight'[r] \cap inflight'[u] = {}
    <3> SUFFICES ASSUME NEW u \in Subs, QueueOf[u] = QueueOf[r], u # r
                 PROVE  inflight'[r] \cap inflight'[u] = {}
      BY DEF Members
    <3>1. inflight[r] \cap inflight[u] = {}
      BY DEF TypeOK, Members
    <3>2. \A w \in Subs : (QueueOf[w] = QueueOf[s] /\ w # t) => m \notin inflight'[w]
      BY <1>2, <1>3 DEF Members
    <3>3. \A w \in Subs : \A n \in inflight'[w] : n # m => n \in inflight[w]
      BY <1>2
    <3>4. \A w \in Subs : QueueOf[w] # QueueOf[s] => inflight'[w] = inflight[w]
      BY <1>1, <1>2
    <3> QED
      BY <1>1, <3>1, <3>2, <3>3, <3>4
  <2> QED
    BY <2>1, <2>2, <2>3
<1> QED
  BY <1>1, <1>6 DEF InFlightOK, TypeOK, SendAgain, client, stopping, Receiving

(* A subscription that starts gets what the server knows its group needs.  *)
LEMMA QueueSubscribeType ==
  ASSUME TypeOK, Closed, NEW s \in Subs, QueueSubscribe(s) PROVE TypeOK'
<1>1. QueueOf[s] \in Queues /\ TopicOf[s] \in Topics
  BY SubsAssumption
<1>2. unacked' \in [Queues -> SUBSET Messages] /\ durable' \in SUBSET Queues
  <2>1. CASE QueueOf[s] \in durable
    BY <1>1, <2>1 DEF QueueSubscribe, TypeOK
  <2>2. CASE QueueOf[s] \notin durable
    <3>1. PICK ms \in StartOf(QueueOf[s], TopicOf[s]) :
            unacked' = [unacked EXCEPT ![QueueOf[s]] = ms]
      BY <2>2 DEF QueueSubscribe
    <3>2. ms \subseteq Messages
      BY <1>1, <3>1 DEF StartOf, TypeOK
    <3> QED
      BY <1>1, <3>1, <3>2 DEF QueueSubscribe, TypeOK
  <2> QED
    BY <2>1, <2>2
<1>3. ASSUME NEW t \in Subs PROVE inflight[t] \subseteq unacked'[QueueOf[t]]
  <2>1. CASE unacked'[QueueOf[t]] = unacked[QueueOf[t]]
    BY <2>1 DEF TypeOK
  <2>2. CASE QueueOf[t] = QueueOf[s] /\ QueueOf[s] \notin durable
    BY <2>2 DEF TypeOK, Closed, Receiving
  <2>3. QueueOf[t] \in Queues
    BY SubsAssumption
  <2>4. UNCHANGED unacked \/ QueueOf[s] \notin durable
    BY DEF QueueSubscribe
  <2>5. QueueOf[t] # QueueOf[s] => unacked'[QueueOf[t]] = unacked[QueueOf[t]]
    BY <2>3 DEF QueueSubscribe, TypeOK
  <2> QED
    BY <2>1, <2>2, <2>4, <2>5
<1>4. \A t \in Subs : Receiving(t) => Receiving(t)'
  BY DEF QueueSubscribe, Receiving, TypeOK
<1>5. InFlightOK'
  BY <1>3, <1>4 DEF QueueSubscribe, InFlightOK, TypeOK, Members
<1> QED
  BY <1>2, <1>5 DEF InFlightOK, TypeOK, QueueSubscribe, stopping, Receiving

(* As long as nothing in flight, the queues and who receives change, a     *)
(* step keeps TypeOK if it keeps the types.                                *)
LEMMA SameInFlight ==
  ASSUME TypeOK, UNCHANGED <<unacked, inflight, conn, sub>> PROVE InFlightOK'
  BY DEF TypeOK, InFlightOK, Receiving, Members

(* Closing a subscription, or failing to get one, takes nothing back that  *)
(* is in flight: nothing is.                                               *)
LEMMA NotReceiving ==
  ASSUME TypeOK, NEW s \in Subs, ~Receiving(s), UNCHANGED <<unacked, inflight, conn>>,
         NEW v, sub' = [sub EXCEPT ![s] = v]
  PROVE  InFlightOK'
<1>1. \A t \in Subs : t # s => (Receiving(t)' <=> Receiving(t))
  BY DEF Receiving, TypeOK
<1>2. inflight[s] = {}
  BY DEF TypeOK
<1> QED
  BY <1>1, <1>2 DEF TypeOK, InFlightOK, Members

LEMMA PublishType ==
  ASSUME TypeOK, NEW t \in Topics, NEW m \in Messages, Publish(t, m) PROVE TypeOK'
<1>1. published' \in [Topics -> SUBSET Messages] /\ unacked' \in [Queues -> SUBSET Messages]
  BY DEF Publish, TypeOK
<1>2. \A q \in Queues : unacked[q] \subseteq unacked'[q]
  BY DEF Publish, TypeOK
<1>3. \A s \in Subs : QueueOf[s] \in Queues
  BY SubsAssumption
<1>4. UNCHANGED <<durable, inflight, acked, consent, client, buffer, held, stopping, life>>
  BY DEF Publish
<1>5. InFlightOK'
  BY <1>2, <1>3, <1>4 DEF TypeOK, InFlightOK, Receiving, Members, client
<1> QED
  BY <1>1, <1>4, <1>5 DEF TypeOK, InFlightOK, client, stopping, Receiving

LEMMA TypeStep == TypeOK /\ Closed /\ [Next]_vars => TypeOK'
<1> SUFFICES ASSUME TypeOK, Closed, [Next]_vars PROVE TypeOK'
  OBVIOUS
<1> USE DEF server, client, stopping
<1>1. CASE UNCHANGED vars
  BY <1>1, SameInFlight DEF TypeOK, InFlightOK, vars, Receiving
<1>2. ASSUME NEW s \in Subs, QueueSubscribe(s) PROVE TypeOK'
  BY <1>2, QueueSubscribeType
<1>3. ASSUME NEW s \in Subs, QueueSubscribeFails(s) PROVE TypeOK'
  <2>1. InFlightOK'
    BY <1>3, NotReceiving DEF QueueSubscribeFails, Closed, Receiving
  <2> QED
    BY <1>3, <2>1 DEF QueueSubscribeFails, TypeOK, InFlightOK, Receiving
<1>4. ASSUME NEW s \in Subs, Store(s) PROVE TypeOK'
  <2>1. InFlightOK' /\ TopicOf[s] \in Topics
    BY <1>4, SameInFlight, SubsAssumption DEF Store
  <2> QED
    BY <1>4, <2>1 DEF Store, TypeOK, InFlightOK, Receiving
<1>5. ASSUME NEW s \in Subs, HandlerAcks(s) \/ HandlerSucceeds(s) PROVE TypeOK'
  <2>1. CASE Ack(s)
    <3>1. /\ unacked' \in [Queues -> SUBSET Messages]
          /\ inflight' \in [Subs -> SUBSET Messages]
          /\ InFlightOK'
          /\ acked' \in SUBSET Keys
      BY <1>5, <2>1, AckType DEF HandlerAcks, HandlerSucceeds
    <3>2. consent' \in SUBSET Keys /\ held' \in [Subs -> (Messages \ Unreadable) \cup {None}]
      BY <1>5, SubsAssumption
      DEF HandlerAcks, HandlerSucceeds, Consents, CallbackReturns, TypeOK, Keys, Key
    <3> QED
      BY <1>5, <2>1, <3>1, <3>2
      DEF HandlerAcks, HandlerSucceeds, Ack, TypeOK, InFlightOK, Receiving
  <2>2. CASE UNCHANGED server
    <3>1. InFlightOK'
      BY <1>5, <2>2, SameInFlight DEF HandlerAcks, HandlerSucceeds
    <3>2. consent' \in SUBSET Keys /\ held' \in [Subs -> (Messages \ Unreadable) \cup {None}]
      BY <1>5, SubsAssumption
      DEF HandlerAcks, HandlerSucceeds, Consents, CallbackReturns, TypeOK, Keys, Key
    <3> QED
      BY <1>5, <2>2, <3>1, <3>2
      DEF HandlerAcks, HandlerSucceeds, TypeOK, InFlightOK, Receiving
  <2> QED
    BY <1>5, <2>1, <2>2 DEF HandlerAcks, HandlerSucceeds
<1>6. ASSUME NEW s \in Subs, HandlerFails(s) PROVE TypeOK'
  <2>1. InFlightOK'
    BY <1>6, SameInFlight DEF HandlerFails
  <2> QED
    BY <1>6, <2>1 DEF HandlerFails, CallbackReturns, TypeOK, InFlightOK, Receiving
<1>7. ASSUME NEW s \in Subs, NEW m \in Messages, Skip(s, m) \/ Call(s, m) PROVE TypeOK'
  <2>1. InFlightOK'
    BY <1>7, SameInFlight DEF Skip, Call
  <2> QED
    BY <1>7, <2>1 DEF Skip, Call, TypeOK, InFlightOK, Receiving
<1>8. CASE CloseConnection \/ ConnectionLost
  <2>1. inflight' \in [Subs -> SUBSET Messages] /\ InFlightOK'
    BY <1>8, TakenBackOK DEF CloseConnection, ConnectionLost
  <2> QED
    BY <1>8, <2>1 DEF CloseConnection, ConnectionLost, TypeOK, InFlightOK, Receiving
<1>9. CASE RangeTopics \/ ShutdownReturn
  <2>1. InFlightOK'
    BY <1>9, SameInFlight DEF RangeTopics, ShutdownReturn
  <2> QED
    BY <1>9, <2>1 DEF RangeTopics, ShutdownReturn, TypeOK, InFlightOK, Receiving
<1>10. ASSUME NEW s \in Subs, CloseSub(s) PROVE TypeOK'
  <2>1. InFlightOK'
    BY <1>10, NotReceiving DEF CloseSub, Closed, Receiving
  <2> QED
    BY <1>10, <2>1 DEF CloseSub, TypeOK, InFlightOK, Receiving
<1>11. ASSUME (\E s \in Subs : CloseNil(s)) \/ ConcurrentMapAccess \/ Kill PROVE TypeOK'
  BY <1>11, ProcessEndsType DEF CloseNil, ConcurrentMapAccess, Kill
<1>12. ASSUME NEW s \in Subs, NEW m \in Messages, Send(s, m) PROVE TypeOK'
  BY <1>12, SendType
<1>13. ASSUME NEW s \in Subs, NEW t \in Subs, NEW m \in Messages, SendAgain(s, t, m) PROVE TypeOK'
  BY <1>13, SendAgainType
<1>14. CASE Restart
  <2>1. InFlightOK'
    BY <1>14, SameInFlight DEF Restart
  <2> QED
    BY <1>14, <2>1 DEF Restart, TypeOK, InFlightOK, Receiving
<1>15. ASSUME NEW t \in Topics, NEW m \in Messages, Publish(t, m) PROVE TypeOK'
  BY <1>15, PublishType
<1> QED
  BY <1>1, <1>2, <1>3, <1>4, <1>5, <1>6, <1>7, <1>8, <1>9, <1>10, <1>11, <1>12, <1>13, <1>14, <1>15
  DEF Next, Process, Server, Shutdown, Handler

LEMMA ClosedStep == TypeOK /\ Closed /\ [Next]_vars => Closed'
<1> SUFFICES ASSUME TypeOK, Closed, [Next]_vars PROVE Closed'
  OBVIOUS
<1> USE DEF server, client, stopping
<1>1. CASE UNCHANGED <<conn, stopper, toClose, sub, at, durable>>
  BY <1>1 DEF Closed
<1>2. ASSUME NEW s \in Subs,
             QueueSubscribe(s) \/ QueueSubscribeFails(s) \/ Store(s) \/ CloseSub(s)
      PROVE  Closed'
  BY <1>2 DEF QueueSubscribe, QueueSubscribeFails, Store, CloseSub, Closed, TypeOK
<1>3. CASE CloseConnection \/ ConnectionLost \/ RangeTopics \/ ShutdownReturn
  BY <1>3 DEF CloseConnection, ConnectionLost, RangeTopics, ShutdownReturn, Closed
<1>4. ASSUME (\E s \in Subs : CloseNil(s)) \/ ConcurrentMapAccess \/ Kill PROVE Closed'
  BY <1>4 DEF CloseNil, ConcurrentMapAccess, Kill, ProcessEnds, Closed
<1>5. \/ UNCHANGED <<conn, stopper, toClose, sub, at, durable>>
      \/ \E s \in Subs :
           QueueSubscribe(s) \/ QueueSubscribeFails(s) \/ Store(s) \/ CloseSub(s)
      \/ CloseConnection \/ ConnectionLost \/ RangeTopics \/ ShutdownReturn
      \/ (\E s \in Subs : CloseNil(s)) \/ ConcurrentMapAccess \/ Kill
  BY DEF Next, Process, Server, Shutdown, Handler, vars, Skip, Call, HandlerAcks, Ack,
     HandlerSucceeds, HandlerFails, Send, SendAgain, Publish, Restart
<1> QED
  BY <1>1, <1>2, <1>3, <1>4, <1>5

(* What the server has sent and not settled is in the hands of a           *)
(* subscription that receives, one of each group, within MaxInflight       *)
(* (nats.go:79-84), through lost connections, resends and restarts.        *)
THEOREM TypeCorrect == Spec => []TypeOK
<1>1. Init => Closed
  BY DEF Init, Closed
<1> QED
  BY <1>1, InitType, TypeStep, ClosedStep, PTL DEF Spec

(* Shutdown closes the connection before it touches n.topics, and nothing  *)
(* opens it again.                                                         *)
THEOREM ClosedHolds == Spec => []Closed
<1>1. Init => Closed
  BY DEF Init, Closed
<1> QED
  BY <1>1, InitType, TypeStep, ClosedStep, PTL DEF Spec

(* Once Shutdown has returned no subscription gets a message any more,     *)
(* those n.topics has forgotten included (nats.go:118-133).                *)
THEOREM ShutdownStopsAllHolds == Spec => []ShutdownStopsAll
<1>1. Closed => ShutdownStopsAll
  BY DEF Closed, ShutdownStopsAll, Receiving
<1> QED
  BY <1>1, ClosedHolds, PTL

(* Only an ack takes a message from its queue group.                       *)
LEMMA PromiseStep == TypeOK /\ [Next]_vars => [Promise!Next]_(Promise!vars)
<1> SUFFICES ASSUME TypeOK, [Next]_vars PROVE [Promise!Next]_(Promise!vars)
  OBVIOUS
<1> DEFINE fate == [k \in Keys |-> FateOf(k)]
<1> USE DEF server, client, stopping
<1>1. CASE UNCHANGED <<acked, consent>>
  BY <1>1 DEF Promise!vars, FateOf
<1>2. ASSUME NEW s \in Subs, HandlerAcks(s) \/ HandlerSucceeds(s)
      PROVE  [Promise!Next]_(Promise!vars)
  <2>1. held[s] \in Messages \ Unreadable
    BY <1>2 DEF HandlerAcks, HandlerSucceeds, TypeOK
  <2>2. PICK k \in Keys : k = Key(s, held[s])
    BY <2>1, SubsAssumption DEF Key, Keys
  <2>3. k \notin Queues \X Unreadable
    BY <2>1, <2>2 DEF Key
  <2>4. consent' = consent \cup {k}
    BY <1>2, <2>2 DEF HandlerAcks, HandlerSucceeds, Consents
  <2>5. acked' = acked \/ acked' = acked \cup {k}
    BY <1>2, <2>2 DEF HandlerAcks, HandlerSucceeds, Ack, AckArrives
  <2>6. CASE acked' = acked
    <3>1. Promise!Handle(k)
      BY <2>3, <2>4, <2>6 DEF Promise!Handle, FateOf
    <3> QED
      BY <3>1 DEF Promise!Next
  <2>7. CASE acked' = acked \cup {k} /\ k \notin acked
    <3>1. FateOf(k) = "open" /\ fate' = [fate EXCEPT ![k] = "settled"]
      BY <2>7 DEF FateOf
    <3>2. Promise!Settle(k)
      BY <2>3, <2>4, <3>1 DEF Promise!Settle
    <3> QED
      BY <3>2 DEF Promise!Next
  <2> QED
    BY <2>5, <2>6, <2>7
<1>3. \/ UNCHANGED <<acked, consent>>
      \/ \E s \in Subs : HandlerAcks(s) \/ HandlerSucceeds(s)
  BY DEF Next, Process, Server, Shutdown, Handler, vars, Skip, Call, HandlerFails, Send,
     SendAgain, Publish, Restart, QueueSubscribe, QueueSubscribeFails, Store, CloseSub,
     CloseConnection, ConnectionLost, RangeTopics, ShutdownReturn, CloseNil,
     ConcurrentMapAccess, Kill, ProcessEnds
<1> QED
  BY <1>1, <1>2, <1>3

(* A message leaves the queue of a group only with the consent of one of   *)
(* its handlers (nats.go:86-113), whatever was in flight when connections  *)
(* and processes ended.                                                    *)
THEOREM DeliversAtLeastOnceHolds == Spec => DeliversAtLeastOnce
<1>1. Init => Promise!Init
  BY DEF Init, Promise!Init, FateOf
<1> QED
  BY <1>1, PromiseStep, TypeCorrect, PTL DEF Spec, DeliversAtLeastOnce, Promise!Spec

-----------------------------------------------------------------------------
(* What the server still has to give out. *)

(* It has nothing for a queue group that it does not know. *)
Fresh == \A q \in Queues : q \notin durable => unacked[q] = {}

(* What a step takes from a queue group, or gives to one.                  *)
LEMMA UnackedStep ==
  ASSUME TypeOK, Fresh, [Next]_vars
  PROVE  /\ durable \subseteq durable'
         /\ \A q \in Queues : unacked'[q] # unacked[q] => q \in durable'
         /\ \A q \in Queues : \A m \in unacked[q] \ unacked'[q] :
              m \notin Unreadable /\ <<q, m>> \in consent'
<1> USE DEF server, client, stopping
<1>1. CASE UNCHANGED <<durable, unacked>>
  BY <1>1
<1>2. ASSUME NEW t \in Topics, NEW m \in Messages, Publish(t, m)
      PROVE  /\ UNCHANGED durable
             /\ \A q \in Queues : unacked'[q] # unacked[q] => q \in durable
             /\ \A q \in Queues : unacked[q] \subseteq unacked'[q]
  BY <1>2 DEF Publish
<1>3. ASSUME NEW s \in Subs, QueueSubscribe(s)
      PROVE  /\ durable' = durable \cup {QueueOf[s]}
             /\ \A q \in Queues : unacked'[q] # unacked[q] => q = QueueOf[s] /\ unacked[q] = {}
  <2>1. QueueOf[s] \in Queues
    BY SubsAssumption
  <2> QED
    BY <1>3, <2>1 DEF QueueSubscribe, TypeOK, Fresh
<1>4. ASSUME NEW s \in Subs, held[s] # None, Ack(s), Consents(s)
      PROVE  /\ UNCHANGED durable
             /\ \A q \in Queues : unacked'[q] # unacked[q] =>
                  q = QueueOf[s] /\ held[s] \in unacked[q] /\ unacked'[q] = unacked[q] \ {held[s]}
             /\ held[s] \notin Unreadable
             /\ <<QueueOf[s], held[s]>> \in consent'
  <2>1. held[s] \in Messages \ Unreadable /\ QueueOf[s] \in Queues
    BY <1>4, SubsAssumption DEF TypeOK
  <2>2. UNCHANGED durable
    BY <1>4 DEF Ack
  <2>3. unacked' \in {unacked, [unacked EXCEPT ![QueueOf[s]] = @ \ {held[s]}]}
    BY <1>4 DEF Ack, AckArrives
  <2>4. \A q \in Queues : unacked'[q] # unacked[q] =>
          q = QueueOf[s] /\ held[s] \in unacked[q] /\ unacked'[q] = unacked[q] \ {held[s]}
    <3> SUFFICES ASSUME NEW q \in Queues, unacked'[q] # unacked[q]
                 PROVE  /\ q = QueueOf[s] /\ held[s] \in unacked[q]
                        /\ unacked'[q] = unacked[q] \ {held[s]}
      OBVIOUS
    <3>1. unacked' = [unacked EXCEPT ![QueueOf[s]] = @ \ {held[s]}]
      BY <2>3
    <3>2. unacked \in [Queues -> SUBSET Messages]
      BY DEF TypeOK
    <3>3. q = QueueOf[s]
      BY <3>1, <3>2
    <3>4. unacked'[q] = unacked[q] \ {held[s]}
      BY <2>1, <3>1, <3>2, <3>3
    <3>5. held[s] \in unacked[q]
      BY <3>4
    <3> QED
      BY <3>3, <3>4, <3>5
  <2>5. <<QueueOf[s], held[s]>> \in consent'
    BY <1>4 DEF Consents, Key
  <2> QED
    BY <2>1, <2>2, <2>4, <2>5
<1>5. ASSUME NEW s \in Subs, HandlerAcks(s) \/ HandlerSucceeds(s)
      PROVE  UNCHANGED <<durable, unacked>> \/ (held[s] # None /\ Ack(s) /\ Consents(s))
  BY <1>5 DEF HandlerAcks, HandlerSucceeds
<1>6. \/ UNCHANGED <<durable, unacked>>
      \/ \E t \in Topics, m \in Messages : Publish(t, m)
      \/ \E s \in Subs : QueueSubscribe(s) \/ HandlerAcks(s) \/ HandlerSucceeds(s)
  BY DEF Next, Process, Server, Shutdown, Handler, vars, Skip, Call, HandlerFails, Send,
     SendAgain, Restart, QueueSubscribeFails, Store, CloseSub, CloseConnection,
     ConnectionLost, RangeTopics, ShutdownReturn, CloseNil, ConcurrentMapAccess, Kill,
     ProcessEnds
<1>7. ASSUME NEW s \in Subs, held[s] # None, Ack(s), Consents(s), NEW q \in Queues,
             unacked'[q] # unacked[q]
      PROVE  q \in durable
  BY <1>4, <1>7 DEF Fresh
<1>8. CASE \E t \in Topics, m \in Messages : Publish(t, m)
  BY <1>2, <1>8
<1>9. ASSUME NEW s \in Subs, QueueSubscribe(s)
      PROVE  /\ durable \subseteq durable'
             /\ \A q \in Queues : unacked'[q] # unacked[q] => q \in durable'
             /\ \A q \in Queues : unacked[q] \ unacked'[q] = {}
  BY <1>3, <1>9
<1>10. ASSUME NEW s \in Subs, held[s] # None, Ack(s), Consents(s)
       PROVE  /\ durable \subseteq durable'
              /\ \A q \in Queues : unacked'[q] # unacked[q] => q \in durable'
              /\ \A q \in Queues : \A m \in unacked[q] \ unacked'[q] :
                   m = held[s] /\ q = QueueOf[s]
  <2>1. durable \subseteq durable' /\ \A q \in Queues : unacked'[q] # unacked[q] => q \in durable'
    BY <1>4, <1>7, <1>10
  <2>2. ASSUME NEW q \in Queues, NEW m \in unacked[q] \ unacked'[q]
        PROVE  m = held[s] /\ q = QueueOf[s]
    <3>1. unacked'[q] # unacked[q]
      BY <2>2
    <3>2. q = QueueOf[s] /\ unacked'[q] = unacked[q] \ {held[s]}
      BY <1>4, <1>10, <3>1
    <3> QED
      BY <2>2, <3>2
  <2> QED
    BY <2>1, <2>2
<1> QED
  BY <1>1, <1>4, <1>5, <1>6, <1>8, <1>9, <1>10

THEOREM FreshHolds == Spec => []Fresh
<1>1. Init => Fresh
  BY DEF Init, Fresh
<1>2. TypeOK /\ Fresh /\ [Next]_vars => Fresh'
  <2> SUFFICES ASSUME TypeOK, Fresh, [Next]_vars, NEW q \in Queues, q \notin durable'
               PROVE  unacked'[q] = {}
    BY DEF Fresh
  <2>1. unacked'[q] = unacked[q] /\ q \notin durable
    BY UnackedStep
  <2> QED
    BY <2>1 DEF Fresh
<1> QED
  BY <1>1, <1>2, TypeCorrect, PTL DEF Spec

(* A message leaves a queue group only when one of its handlers was done   *)
(* with it: subscriptions, connections and processes that end take nothing *)
(* along.  So one that cannot be decoded, for which the callback returns   *)
(* without an ack (nats.go:86-111), never leaves.                          *)
THEOREM NothingVanishes ==
  Spec => [][\A q \in Queues : \A m \in unacked[q] \ unacked'[q] :
               m \notin Unreadable /\ <<q, m>> \in consent']_vars
<1>1. TypeOK /\ Fresh /\ [Next]_vars =>
        [\A q \in Queues : \A m \in unacked[q] \ unacked'[q] :
           m \notin Unreadable /\ <<q, m>> \in consent']_vars
  BY UnackedStep
<1> QED
  BY <1>1, FreshHolds, TypeCorrect, PTL DEF Spec

(* When the window of a subscription is full, which MaxInflight makes of   *)
(* its Concurrency, and fewer messages than that cannot be decoded, it has *)
(* one in flight that a handler can finish; this is why the subscription   *)
(* gets on.                                                                *)
THEOREM NeverClogged ==
  Spec => [](\A s \in Subs :
               Cardinality(Unreadable) < Concurrency[s]
                 /\ Cardinality(inflight[s]) = Concurrency[s]
               => /\ inflight[s] \ Unreadable # {}
                  /\ Receiving(s))
<1>1. ASSUME TypeOK, NEW s \in Subs, Cardinality(Unreadable) < Concurrency[s],
             Cardinality(inflight[s]) = Concurrency[s]
      PROVE  inflight[s] \ Unreadable # {} /\ Receiving(s)
  <2>1. IsFiniteSet(Unreadable) /\ Concurrency[s] \in Nat \ {0}
    BY MessagesAssumption, ConcurrencyAssumption, FS_Subset
  <2>2. Cardinality(Unreadable) \in Nat
    BY <2>1, FS_CardinalityType
  <2>3. inflight[s] \subseteq Unreadable => Cardinality(inflight[s]) <= Cardinality(Unreadable)
    BY <2>1, FS_Subset
  <2>4. ~(inflight[s] \subseteq Unreadable)
    BY <1>1, <2>1, <2>2, <2>3
  <2>5. inflight[s] # {}
    BY <2>4
  <2> QED
    BY <1>1, <2>4, <2>5 DEF TypeOK
<1>2. TypeOK => \A s \in Subs :
               Cardinality(Unreadable) < Concurrency[s]
                 /\ Cardinality(inflight[s]) = Concurrency[s]
               => /\ inflight[s] \ Unreadable # {}
                  /\ Receiving(s)
  BY <1>1
<1> QED
  BY <1>2, TypeCorrect, PTL
=============================================================================
