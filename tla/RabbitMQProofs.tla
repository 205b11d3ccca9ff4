--------------------------- MODULE RabbitMQProofs ---------------------------
(***************************************************************************)
(* Proofs about RabbitMQ for any messages, calls of Subscribe and Shutdown *)
(* and any programs.                                                       *)
(*                                                                         *)
(* The argument: r.mu keeps Shutdown and calls of Publish apart (Closing); *)
(* a delivery that a consumer has not settled is unacked at the broker,    *)
(* and no other copy of it is in the consumer's buffer (Hand), so that     *)
(* what is settled is what the handler has had, and that the prefetch      *)
(* count bounds what a subscription holds (Light).  After Shutdown, what a *)
(* consumer can still do counts down (StepsLeft), and it is never asleep.  *)
(***************************************************************************)
EXTENDS RabbitMQ, FiniteSetTheorems, TLAPS

QueueStates == {"absent", "ready", "unacked", "settled", "discarded", "expired"}
Places == {"none", "locking", "idle", "checking", "reading", "decoding", "handling",
           "done", "failed"}

LEMMA InitType == Init => TypeOK
<1> SUFFICES ASSUME Init PROVE TypeOK
  OBVIOUS
<1> USE DEF Init
<1>1. times \in [Subs -> [Messages -> 0..MaxDelivered]]
  BY DeliveredAssumption
<1>2. /\ queue \in [Subs -> [Messages -> QueueStates]]
      /\ buffer \in [Subs -> Seq(Messages)]
      /\ consent \in [Subs -> SUBSET Messages]
      /\ bound \in SUBSET Subs
  BY DEF QueueStates
<1>3. /\ pub \in [Messages -> {"idle", "sending", "sent", "failed", "refused", "lost"}]
      /\ stop \in [Stoppers -> {"idle", "locking", "returned"}]
      /\ chan \in [Subs -> {"none", "open", "broken", "closed"}]
      /\ consumer \in [Subs -> Places]
      /\ current \in [Subs -> Messages \cup {None}]
      /\ answered \in [Subs -> BOOLEAN]
  BY DEF Places
<1>4. /\ shutdown \in BOOLEAN /\ latest \in Subs \cup {None}
      /\ conn \in {"open", "broken", "closed"} /\ channel \in {"open", "broken", "closed"}
  OBVIOUS
<1>5. \A s \in Subs : consumer[s] \notin Busy
  BY DEF Busy
<1> QED
  BY <1>1, <1>2, <1>3, <1>4, <1>5 DEF TypeOK, QueueStates, Places

LEMMA RequeuedType ==
  ASSUME TypeOK, NEW ss PROVE Requeued(ss) \in [Subs -> [Messages -> QueueStates]]
  BY DEF TypeOK, Requeued, QueueStates

LEMMA CutType ==
  ASSUME NEW c \in {"none", "open", "broken", "closed"}
  PROVE  /\ Cut(c) \in {"none", "broken", "closed"}
         /\ c \in {"open", "broken", "closed"} => Cut(c) \in {"broken", "closed"}
         /\ c = "none" => Cut(c) = "none"
         /\ c # "closed" => Cut(c) # "closed"
  BY DEF Cut

LEMMA SettleType ==
  ASSUME TypeOK, NEW s \in Subs, NEW to \in QueueStates, Settle(s, to),
         current[s] \in Messages
  PROVE  /\ queue' \in [Subs -> [Messages -> QueueStates]]
         /\ chan' \in [Subs -> {"none", "open", "broken", "closed"}]
         /\ answered' \in [Subs -> BOOLEAN]
<1>1. /\ queue \in [Subs -> [Messages -> QueueStates]]
      /\ chan \in [Subs -> {"none", "open", "broken", "closed"}]
      /\ answered \in [Subs -> BOOLEAN]
  BY DEF TypeOK, QueueStates
<1>2. CASE AutoAck \/ chan[s] # "open"
  BY <1>1, <1>2 DEF Settle
<1>3. CASE ~AutoAck /\ chan[s] = "open" /\ answered[s]
  BY <1>1, <1>3, RequeuedType DEF Settle
<1>4. CASE ~AutoAck /\ chan[s] = "open" /\ ~answered[s]
  <2>1. /\ queue' = [queue EXCEPT ![s][current[s]] = to]
        /\ answered' = [answered EXCEPT ![s] = TRUE]
        /\ UNCHANGED chan
    BY <1>4 DEF Settle
  <2> QED
    BY <1>1, <2>1
<1> QED
  BY <1>2, <1>3, <1>4

LEMMA TypeStep == TypeOK /\ [Next]_vars => TypeOK'
<1> SUFFICES ASSUME TypeOK, [Next]_vars PROVE TypeOK'
  OBVIOUS
<1> USE DEF TypeOK, linkVars, brokerVars, workVars
<1>a. queue' \in [Subs -> [Messages -> QueueStates]] =>
        queue' \in [Subs -> [Messages ->
          {"absent", "ready", "unacked", "settled", "discarded", "expired"}]]
  BY DEF QueueStates
<1>1. CASE UNCHANGED vars
  BY <1>1 DEF vars
<1>2. ASSUME NEW s \in Subs, NEW m \in Messages, Deliver(s, m) PROVE TypeOK'
  <2>1. times' \in [Subs -> [Messages -> 0..MaxDelivered]]
    BY <1>2, DeliveredAssumption DEF Deliver
  <2>2. queue' \in [Subs -> [Messages -> QueueStates]]
    BY <1>2 DEF Deliver, QueueStates
  <2>3. buffer' \in [Subs -> Seq(Messages)]
    BY <1>2 DEF Deliver
  <2> QED
    BY <1>2, <1>a, <2>1, <2>2, <2>3 DEF Deliver
<1>3. ASSUME NEW s \in Subs, NEW m \in Messages, Expire(s, m) PROVE TypeOK'
  BY <1>3 DEF Expire
<1>4. ASSUME NEW m \in Messages, Routed(m)
      PROVE  queue' \in [Subs -> [Messages -> QueueStates]]
  BY <1>4 DEF Routed, QueueStates
<1>5. CASE ConnectionLost
  <2>1. /\ channel' \in {"open", "broken", "closed"}
        /\ chan' \in [Subs -> {"none", "open", "broken", "closed"}]
    BY <1>5, CutType DEF ConnectionLost
  <2>2. queue' \in [Subs -> [Messages -> QueueStates]]
    BY <1>5, RequeuedType DEF ConnectionLost
  <2> QED
    BY <1>5, <1>a, <2>1, <2>2 DEF ConnectionLost
<1>6. ASSUME NEW m \in Messages, OthersPublish(m) PROVE TypeOK'
  BY <1>4, <1>6, <1>a DEF OthersPublish
<1>7. ASSUME NEW p \in Messages, PublishLock(p) PROVE TypeOK'
  BY <1>7 DEF PublishLock
<1>8. ASSUME NEW p \in Messages, PublishSend(p) PROVE TypeOK'
  <2>1. /\ pub' \in [Messages -> {"idle", "sending", "sent", "failed", "refused", "lost"}]
        /\ channel' \in {"open", "broken", "closed"}
    BY <1>8, CutType DEF PublishSend
  <2>2. queue' \in [Subs -> [Messages -> QueueStates]]
    BY <1>4, <1>8 DEF PublishSend, QueueStates
  <2> QED
    BY <1>8, <1>a, <2>1, <2>2 DEF PublishSend
<1>9. ASSUME NEW s \in Subs, SubscribeCalled(s) PROVE TypeOK'
  BY <1>9 DEF SubscribeCalled, Busy
<1>10. ASSUME NEW s \in Subs, Subscribe(s) PROVE TypeOK'
  BY <1>10 DEF Subscribe, Busy
<1>11. ASSUME NEW s \in Subs, Take(s) PROVE TypeOK'
  <2>1. Head(buffer[s]) \in Messages /\ Tail(buffer[s]) \in Seq(Messages)
    BY <1>11 DEF Take
  <2> QED
    BY <1>11, <2>1 DEF Take, Busy
<1>12. ASSUME NEW s \in Subs, ChannelEnds(s) PROVE TypeOK'
  BY <1>12 DEF ChannelEnds, Busy
<1>13. ASSUME NEW s \in Subs, CheckLock(s) PROVE TypeOK'
  BY <1>13 DEF CheckLock, Busy
<1>14. ASSUME NEW s \in Subs, CheckShutdown(s) PROVE TypeOK'
  BY <1>14 DEF CheckShutdown, Busy
<1>15. ASSUME NEW s \in Subs, Decode(s) PROVE TypeOK'
  <2>1. current[s] \in Messages
    BY <1>15 DEF Decode, Busy
  <2>2. CASE Settle(s, "discarded") /\ consumer' = [consumer EXCEPT ![s] = "idle"]
    BY <1>15, <1>a, <2>1, <2>2, SettleType DEF Decode, Busy, QueueStates
  <2>3. CASE consumer' = [consumer EXCEPT ![s] = "handling"] /\ UNCHANGED <<queue, chan, answered>>
    BY <1>15, <2>1, <2>3 DEF Decode, Busy
  <2> QED
    BY <1>15, <2>2, <2>3 DEF Decode
<1>16. ASSUME NEW s \in Subs, HandlerAcks(s) PROVE TypeOK'
  <2>1. current[s] \in Messages
    BY <1>16 DEF HandlerAcks, Busy
  <2> QED
    BY <1>16, <1>a, <2>1, SettleType DEF HandlerAcks, QueueStates
<1>17. ASSUME NEW s \in Subs, HandlerNacks(s) PROVE TypeOK'
  <2>1. current[s] \in Messages
    BY <1>17 DEF HandlerNacks, Busy
  <2> QED
    BY <1>17, <1>a, <2>1, SettleType DEF HandlerNacks, QueueStates
<1>18. ASSUME NEW s \in Subs, HandlerFails(s) PROVE TypeOK'
  <2>1. current[s] \in Messages
    BY <1>18 DEF HandlerFails, Busy
  <2> QED
    BY <1>18, <1>a, <2>1, SettleType DEF HandlerFails, QueueStates, Busy
<1>19. ASSUME NEW s \in Subs, HandlerSucceeds(s) PROVE TypeOK'
  <2>1. current[s] \in Messages
    BY <1>19 DEF HandlerSucceeds, Busy
  <2> QED
    BY <1>19, <2>1 DEF HandlerSucceeds, Busy
<1>20. ASSUME NEW t \in Stoppers, ShutdownCalled(t) PROVE TypeOK'
  BY <1>20 DEF ShutdownCalled
<1>21. ASSUME NEW t \in Stoppers, ShutdownRuns(t) PROVE TypeOK'
  BY <1>21, <1>a, RequeuedType DEF ShutdownRuns
<1>22. CASE Restart
  <2>1. queue' \in [Subs -> [Messages -> QueueStates]]
    BY <1>22, RequeuedType DEF Restart
  <2>2. /\ pub' \in [Messages -> {"idle", "sending", "sent", "failed", "refused", "lost"}]
        /\ buffer' \in [Subs -> Seq(Messages)]
        /\ \A s \in Subs : consumer'[s] \notin Busy
    BY <1>22 DEF Restart, Busy
  <2> QED
    BY <1>22, <1>a, <2>1, <2>2 DEF Restart
<1> QED
  BY <1>1, <1>2, <1>3, <1>5, <1>6, <1>7, <1>8, <1>9, <1>10, <1>11, <1>12, <1>13, <1>14,
     <1>15, <1>16, <1>17, <1>18, <1>19, <1>20, <1>21, <1>22
     DEF Next, Consumer, HandlerReturns, Broker

(* Every variable of RabbitMQ keeps its type.                              *)
THEOREM TypeCorrect == Spec => []TypeOK
<1> QED
  BY InitType, TypeStep, PTL DEF Spec

-----------------------------------------------------------------------------
(* r.channel is closed exactly when r.shutdown is set, no call of Publish  *)
(* is past its look at r.shutdown then, and no subscription's channel is   *)
(* open.                                                                   *)
Closing ==
  /\ \A p \in Messages : pub[p] = "sending" => ~shutdown
  /\ channel = "closed" <=> shutdown
  /\ shutdown => \A s \in Subs : chan[s] # "open"
  /\ \A t \in Stoppers : stop[t] = "returned" => shutdown

LEMMA SettleLinks ==
  ASSUME TypeOK, NEW s \in Subs, NEW to, Settle(s, to)
  PROVE  \A r \in Subs : chan'[r] = chan[r] \/ (r = s /\ chan[r] = "open" /\ chan'[r] = "broken")
  BY DEF TypeOK, Settle

LEMMA ClosingStep == TypeOK /\ Closing /\ [Next]_vars => Closing'
<1> SUFFICES ASSUME TypeOK, Closing, [Next]_vars PROVE Closing'
  OBVIOUS
<1> USE DEF Closing, linkVars
<1>1. UNCHANGED <<pub, stop, shutdown, channel, chan>> => Closing'
  OBVIOUS
<1>2. ASSUME NEW s \in Subs, NEW to, Settle(s, to), UNCHANGED <<pub, stop, shutdown, channel>>
      PROVE  Closing'
  BY <1>2, SettleLinks
<1>3. CASE ConnectionLost
  <2>1. /\ UNCHANGED <<pub, stop, shutdown>>
        /\ channel' = "closed" <=> channel = "closed"
    BY <1>3, CutType DEF ConnectionLost, TypeOK, Cut
  <2>2. \A s \in Subs : chan'[s] # "open"
    BY <1>3, CutType DEF ConnectionLost, TypeOK
  <2> QED
    BY <2>1, <2>2
<1>4. ASSUME NEW m \in Messages, OthersPublish(m) PROVE Closing'
  BY <1>4 DEF OthersPublish, TypeOK
<1>5. ASSUME NEW p \in Messages, PublishLock(p) PROVE Closing'
  BY <1>5 DEF PublishLock, TypeOK
<1>6. ASSUME NEW p \in Messages, PublishSend(p) PROVE Closing'
  <2>1. channel' = "closed" <=> channel = "closed"
    BY <1>6 DEF PublishSend, TypeOK, Cut
  <2>2. /\ UNCHANGED <<stop, shutdown, chan>>
        /\ \A q \in Messages : pub'[q] = "sending" => pub[q] = "sending"
    BY <1>6 DEF PublishSend, TypeOK
  <2> QED
    BY <2>1, <2>2
<1>7. ASSUME NEW s \in Subs, Subscribe(s) PROVE Closing'
  BY <1>7 DEF Subscribe, TypeOK
<1>8. ASSUME NEW s \in Subs, Decode(s) PROVE Closing'
  BY <1>1, <1>2, <1>8 DEF Decode
<1>9. ASSUME NEW s \in Subs, HandlerAcks(s) \/ HandlerNacks(s) \/ HandlerFails(s)
      PROVE  Closing'
  BY <1>2, <1>9 DEF HandlerAcks, HandlerNacks, HandlerFails
<1>10. ASSUME NEW t \in Stoppers, ShutdownCalled(t) PROVE Closing'
  BY <1>10 DEF ShutdownCalled, TypeOK
<1>11. ASSUME NEW t \in Stoppers, ShutdownRuns(t) PROVE Closing'
  <2>1. \A p \in Messages : pub'[p] # "sending"
    BY <1>11 DEF ShutdownRuns, CanWrite, Readers
  <2> QED
    BY <1>11, <2>1 DEF ShutdownRuns
<1>12. CASE Restart
  BY <1>12 DEF Restart
<1>13. ASSUME \/ UNCHANGED vars
              \/ \E s \in Subs, m \in Messages : Deliver(s, m) \/ Expire(s, m)
              \/ \E s \in Subs : \/ SubscribeCalled(s) \/ Take(s) \/ ChannelEnds(s)
                                 \/ CheckLock(s) \/ CheckShutdown(s) \/ HandlerSucceeds(s)
       PROVE  Closing'
  BY <1>1, <1>13 DEF vars, Deliver, Expire, SubscribeCalled, Take, ChannelEnds, CheckLock,
     CheckShutdown, HandlerSucceeds
<1> QED
  BY <1>3, <1>4, <1>5, <1>6, <1>7, <1>8, <1>9, <1>10, <1>11, <1>12, <1>13
     DEF Next, Consumer, HandlerReturns, Broker

THEOREM ClosingHolds == Spec => []Closing
<1>1. Init => Closing
  BY DEF Init, Closing
<1>2. TypeOK /\ Closing /\ [Next]_vars => Closing'
  BY ClosingStep
<1> QED
  BY <1>1, <1>2, TypeCorrect, PTL DEF Spec

(* No call of Publish works on a channel that Shutdown has closed, for any *)
(* number of calls of both.                                                *)
THEOREM NoPublishAfterCloseHolds == Spec => []NoPublishAfterClose
<1>1. Closing => NoPublishAfterClose
  BY DEF Closing, NoPublishAfterClose
<1> QED
  BY <1>1, ClosingHolds, PTL

(* Once a Shutdown has returned no channel is open, for any number of      *)
(* subscriptions to the topic.                                             *)
THEOREM ShutdownClosesAllHolds == Spec => []ShutdownClosesAll
<1>1. Closing => ShutdownClosesAll
  BY DEF Closing, ShutdownClosesAll
<1> QED
  BY <1>1, ClosingHolds, PTL

-----------------------------------------------------------------------------
(* A subscription: what its consumer has in the buffer and in hand, and    *)
(* how the broker sees it.                                                 *)

InHand(s) == consumer[s] \in Busy \ {"handling"}

Buffered(s, m) == \E i \in 1..Len(buffer[s]) : buffer[s][i] = m

(* While the channel is open and deliveries are acked. *)
Window(s) ==
  /\ \A i, j \in 1..Len(buffer[s]) : buffer[s][i] = buffer[s][j] => i = j
  /\ \A m \in Messages : Buffered(s, m) => queue[s][m] = "unacked"
  /\ \A m \in Messages : m = current[s] /\ consumer[s] \in Busy /\ ~answered[s] =>
       queue[s][m] = "unacked" /\ ~Buffered(s, m)
  /\ InHand(s) => ~answered[s]
  /\ \A m \in Unreadable : queue[s][m] = "unacked" =>
       Buffered(s, m) \/ (InHand(s) /\ m = current[s])

Hand(s) ==
  /\ consumer[s] \in {"none", "locking"} => chan[s] = "none" /\ buffer[s] = <<>>
  /\ consumer[s] = "done" => chan[s] # "open"
  /\ consumer[s] = "handling" => current[s] \notin Unreadable
  /\ \A m \in Messages : pub[m] \in {"idle", "sending"} => queue[s][m] = "absent"
  /\ \A m \in Messages : queue[s][m] = "unacked" => chan[s] = "open"
  /\ (chan[s] = "open" /\ ~AutoAck) => Window(s)

Hands == \A s \in Subs : Hand(s)

(* Nothing that a subscription's part of the argument is about changes. *)
Untouched(s) ==
  /\ consumer'[s] = consumer[s] /\ chan'[s] = chan[s] /\ buffer'[s] = buffer[s]
  /\ current'[s] = current[s] /\ answered'[s] = answered[s] /\ queue'[s] = queue[s]

Published == \A m \in Messages : pub'[m] \in {"idle", "sending"} => pub[m] \in {"idle", "sending"}

LEMMA UntouchedHand ==
  ASSUME NEW s \in Subs, Hand(s), Untouched(s), Published, UNCHANGED program
  PROVE  Hand(s)'
<1>1. AutoAck' = AutoAck
  BY DEF AutoAck
<1>2. Window(s) => Window(s)'
  BY DEF Window, InHand, Buffered, Untouched
<1> QED
  BY <1>1, <1>2 DEF Hand, Untouched, Published

(* A channel closes, and the broker takes back what was not settled. *)
LEMMA CloseHand ==
  ASSUME TypeOK, NEW s \in Subs, Hand(s), Published, NEW ss \in SUBSET Subs, s \in ss,
         queue' = Requeued(ss), consumer'[s] = consumer[s], current'[s] = current[s],
         buffer'[s] = buffer[s], chan'[s] # "open", chan[s] = "none" => chan'[s] = "none"
  PROVE  Hand(s)'
<1>1. \A m \in Messages : queue'[s][m] =
        IF queue[s][m] = "unacked" THEN "ready" ELSE queue[s][m]
  BY DEF Requeued
<1> QED
  BY <1>1 DEF Hand, Published

(* An answer to a delivery in hand: it is settled for the first time, the  *)
(* channel breaks for the second, or nobody listens. *)
LEMMA SettleHand ==
  ASSUME TypeOK, NEW s \in Subs, Hand(s), NEW to \in QueueStates \ {"unacked", "absent"},
         Settle(s, to), consumer[s] \in {"decoding", "handling"},
         consumer[s] = "decoding" => current[s] \in Unreadable,
         consumer'[s] \in {"idle", consumer[s]},
         consumer[s] = "decoding" => consumer'[s] = "idle",
         UNCHANGED <<program, pub, buffer, current>>
  PROVE  Hand(s)'
<1>1. AutoAck' = AutoAck /\ Published
  BY DEF AutoAck, Published
<1>2. current[s] \in Messages /\ Unreadable \subseteq Messages
  BY UnreadableAssumption DEF TypeOK, Busy
<1>3. CASE AutoAck \/ chan[s] # "open"
  <2>1. UNCHANGED <<queue, chan, answered>>
    BY <1>3 DEF Settle
  <2> QED
    BY <1>1, <1>3, <2>1 DEF Hand
<1>4. CASE ~AutoAck /\ chan[s] = "open" /\ ~answered[s]
  <2>1. /\ queue' = [queue EXCEPT ![s][current[s]] = to]
        /\ answered' = [answered EXCEPT ![s] = TRUE]
        /\ UNCHANGED chan
    BY <1>4 DEF Settle
  <2>2. \A m \in Messages : queue'[s][m] = IF m = current[s] THEN to ELSE queue[s][m]
    BY <1>2, <2>1 DEF TypeOK
  <2>3. answered'[s]
    BY <2>1 DEF TypeOK
  <2>4. Window(s)
    BY <1>4 DEF Hand
  <2>5. queue[s][current[s]] = "unacked" /\ ~Buffered(s, current[s])
    BY <1>2, <1>4, <2>4 DEF Window, Busy
  <2>6. \A m : Buffered(s, m)' <=> Buffered(s, m)
    BY DEF Buffered
  <2>7. ~InHand(s)'
    BY DEF InHand, Busy
  <2>8. Window(s)'
    <3>1. \A i, j \in 1..Len(buffer'[s]) : buffer'[s][i] = buffer'[s][j] => i = j
      BY <2>4 DEF Window
    <3>2. \A m \in Messages : Buffered(s, m)' => queue'[s][m] = "unacked"
      BY <2>2, <2>4, <2>5, <2>6 DEF Window
    <3>3. \A m \in Unreadable : queue'[s][m] = "unacked" => Buffered(s, m)'
      <4> SUFFICES ASSUME NEW m \in Unreadable, queue'[s][m] = "unacked"
                   PROVE  Buffered(s, m)'
        OBVIOUS
      <4>1. m # current[s] /\ queue[s][m] = "unacked"
        BY <1>2, <2>2
      <4> QED
        BY <2>4, <2>6, <4>1 DEF Window
    <3> QED
      BY <2>3, <2>7, <3>1, <3>2, <3>3 DEF Window
  <2>9. \A m \in Messages : pub'[m] \in {"idle", "sending"} => queue'[s][m] = "absent"
    BY <2>2, <2>5 DEF Hand
  <2>10. \A m \in Messages : queue'[s][m] = "unacked" => chan'[s] = "open"
    BY <1>4, <2>1
  <2> QED
    BY <2>1, <2>8, <2>9, <2>10, <1>4 DEF Hand
<1>5. CASE ~AutoAck /\ chan[s] = "open" /\ answered[s]
  <2>1. chan' = [chan EXCEPT ![s] = "broken"] /\ queue' = Requeued({s})
    BY <1>5 DEF Settle
  <2>2. \A m \in Messages : queue'[s][m] =
          IF queue[s][m] = "unacked" THEN "ready" ELSE queue[s][m]
    BY <2>1 DEF Requeued
  <2>3. chan'[s] = "broken"
    BY <2>1 DEF TypeOK
  <2> QED
    BY <2>2, <2>3 DEF Hand
<1> QED
  BY <1>3, <1>4, <1>5

(* It touches no other subscription. *)
LEMMA SettleOthers ==
  ASSUME TypeOK, NEW s \in Subs, NEW to, Settle(s, to), NEW r \in Subs, r # s
  PROVE  chan'[r] = chan[r] /\ queue'[r] = queue[r] /\ answered'[r] = answered[r]
<1>1. \A m \in Messages : Requeued({s})[r][m] = queue[r][m]
  BY DEF Requeued
<1>2. Requeued({s})[r] = queue[r]
  BY <1>1 DEF TypeOK, Requeued
<1> QED
  BY <1>2 DEF Settle, TypeOK

(* The broker delivers a message that was ready, to a buffer it is not in. *)
LEMMA DeliverHand ==
  ASSUME TypeOK, NEW s \in Subs, Hand(s), NEW m \in Messages, Deliver(s, m)
  PROVE  Hand(s)'
<1> DEFINE to == IF AutoAck THEN "settled" ELSE "unacked"
<1>1. /\ queue' = [queue EXCEPT ![s][m] = to]
      /\ buffer' = [buffer EXCEPT ![s] = Append(@, m)]
      /\ UNCHANGED <<program, pub, chan, consumer, current, answered>>
      /\ chan[s] = "open" /\ queue[s][m] = "ready"
  BY DEF Deliver, linkVars
<1>2. \A n \in Messages : queue'[s][n] = IF n = m THEN to ELSE queue[s][n]
  BY <1>1 DEF TypeOK
<1>3. consumer[s] \notin {"none", "locking", "done"}
  BY <1>1 DEF Hand
<1>4. ASSUME ~AutoAck PROVE Window(s)'
  <2>1. Window(s) /\ to = "unacked"
    BY <1>1, <1>4 DEF Hand
  <2>2. /\ buffer[s] \in Seq(Messages) /\ buffer'[s] = Append(buffer[s], m)
    BY <1>1 DEF TypeOK
  <2>3. ~Buffered(s, m)
    BY <1>1, <2>1 DEF Window
  <2>4. \A n : Buffered(s, n)' <=> Buffered(s, n) \/ n = m
    BY <2>2 DEF Buffered
  <2>5. \A i, j \in 1..Len(buffer'[s]) : buffer'[s][i] = buffer'[s][j] => i = j
    <3> SUFFICES ASSUME NEW i \in 1..Len(buffer'[s]), NEW j \in 1..Len(buffer'[s]),
                        buffer'[s][i] = buffer'[s][j]
                 PROVE  i = j
      OBVIOUS
    <3>1. /\ Len(buffer'[s]) = Len(buffer[s]) + 1
          /\ \A k \in 1..Len(buffer[s]) : buffer'[s][k] = buffer[s][k]
          /\ buffer'[s][Len(buffer[s]) + 1] = m
      BY <2>2
    <3> QED
      BY <2>1, <2>2, <2>3, <3>1 DEF Window, Buffered
  <2>6. \A n \in Messages : Buffered(s, n)' => queue'[s][n] = "unacked"
    BY <1>2, <2>1, <2>4 DEF Window
  <2>7. \A n \in Messages : n = current'[s] /\ consumer'[s] \in Busy /\ ~answered'[s] =>
          queue'[s][n] = "unacked" /\ ~Buffered(s, n)'
    <3> SUFFICES ASSUME NEW n \in Messages, n = current[s], consumer[s] \in Busy, ~answered[s]
                 PROVE  queue'[s][n] = "unacked" /\ ~Buffered(s, n)'
      BY <1>1
    <3>1. queue[s][n] = "unacked" /\ ~Buffered(s, n)
      BY <2>1 DEF Window
    <3> QED
      BY <1>1, <1>2, <2>4, <3>1
  <2>8. \A n \in Unreadable : queue'[s][n] = "unacked" =>
          Buffered(s, n)' \/ (InHand(s)' /\ n = current'[s])
    BY <1>1, <1>2, <2>1, <2>4, UnreadableAssumption DEF Window, InHand
  <2>9. InHand(s)' => ~answered'[s]
    BY <1>1, <2>1 DEF Window, InHand
  <2> QED
    BY <2>5, <2>6, <2>7, <2>8, <2>9 DEF Window
<1>5. \A n \in Messages : pub'[n] \in {"idle", "sending"} => queue'[s][n] = "absent"
  BY <1>1, <1>2 DEF Hand
<1> QED
  BY <1>1, <1>3, <1>4, <1>5 DEF Hand, AutoAck

(* A consumer takes the first message of its buffer into its hands. *)
LEMMA TakeHand ==
  ASSUME TypeOK, NEW s \in Subs, Hand(s), Take(s) PROVE Hand(s)'
<1>1. /\ consumer'[s] = "checking" /\ ~answered'[s]
      /\ current'[s] = Head(buffer[s]) /\ buffer'[s] = Tail(buffer[s])
      /\ buffer[s] # <<>> /\ buffer[s] \in Seq(Messages) /\ consumer[s] = "idle"
      /\ UNCHANGED <<program, pub, chan, queue>>
  BY DEF Take, TypeOK, linkVars, brokerVars
<1>2. ASSUME chan[s] = "open", ~AutoAck PROVE Window(s)'
  <2>1. Window(s)
    BY <1>2 DEF Hand
  <2>2. /\ Len(buffer'[s]) = Len(buffer[s]) - 1
        /\ \A i \in 1..Len(buffer'[s]) : buffer'[s][i] = buffer[s][i + 1]
        /\ buffer[s][1] = current'[s] /\ Len(buffer[s]) \in Nat \ {0}
    BY <1>1
  <2>3. \A n : Buffered(s, n) <=> Buffered(s, n)' \/ n = current'[s]
    <3> SUFFICES ASSUME NEW n PROVE Buffered(s, n) <=> Buffered(s, n)' \/ n = current'[s]
      OBVIOUS
    <3>1. ASSUME NEW i \in 1..Len(buffer[s]), buffer[s][i] = n
          PROVE  Buffered(s, n)' \/ n = current'[s]
      <4>1. CASE i = 1
        BY <2>2, <3>1, <4>1
      <4>2. CASE i # 1
        <5>1. i - 1 \in 1..Len(buffer'[s]) /\ buffer'[s][i - 1] = n
          BY <2>2, <3>1, <4>2
        <5> QED
          BY <5>1 DEF Buffered
      <4> QED
        BY <4>1, <4>2
    <3>2. ASSUME NEW i \in 1..Len(buffer'[s]), buffer'[s][i] = n PROVE Buffered(s, n)
      <4>1. i + 1 \in 1..Len(buffer[s]) /\ buffer[s][i + 1] = n
        BY <2>2, <3>2
      <4> QED
        BY <4>1 DEF Buffered
    <3>3. ASSUME n = current'[s] PROVE Buffered(s, n)
      <4>1. 1 \in 1..Len(buffer[s]) /\ buffer[s][1] = n
        BY <2>2, <3>3
      <4> QED
        BY <4>1 DEF Buffered
    <3> QED
      BY <3>1, <3>2, <3>3 DEF Buffered
  <2>4. \A n : n = current'[s] => ~Buffered(s, n)'
    <3> SUFFICES ASSUME NEW i \in 1..Len(buffer'[s]), buffer'[s][i] = current'[s]
                 PROVE  FALSE
      BY DEF Buffered
    <3>1. buffer[s][i + 1] = buffer[s][1] /\ i + 1 \in 1..Len(buffer[s])
          /\ 1 \in 1..Len(buffer[s])
      BY <2>2
    <3> QED
      BY <2>1, <3>1 DEF Window
  <2>5. \A i, j \in 1..Len(buffer'[s]) : buffer'[s][i] = buffer'[s][j] => i = j
    <3> SUFFICES ASSUME NEW i \in 1..Len(buffer'[s]), NEW j \in 1..Len(buffer'[s]),
                        buffer'[s][i] = buffer'[s][j]
                 PROVE  i = j
      OBVIOUS
    <3>1. buffer[s][i + 1] = buffer[s][j + 1] /\ i + 1 \in 1..Len(buffer[s])
          /\ j + 1 \in 1..Len(buffer[s])
      BY <2>2
    <3>2. i + 1 = j + 1
      BY <2>1, <3>1 DEF Window
    <3> QED
      BY <3>2
  <2>6. current'[s] \in Messages
    BY <1>1
  <2>7. queue'[s][current'[s]] = "unacked"
    BY <1>1, <2>1, <2>3, <2>6 DEF Window
  <2>8. \A n \in Messages : Buffered(s, n)' => queue'[s][n] = "unacked"
    BY <1>1, <2>1, <2>3 DEF Window
  <2>9. InHand(s)'
    BY <1>1 DEF InHand, Busy
  <2>10. \A n \in Unreadable : queue'[s][n] = "unacked" =>
           Buffered(s, n)' \/ n = current'[s]
    <3>1. ~InHand(s)
      BY <1>1 DEF InHand, Busy
    <3> QED
      BY <1>1, <2>1, <2>3, <3>1 DEF Window
  <2> QED
    BY <1>1, <2>4, <2>5, <2>7, <2>8, <2>9, <2>10 DEF Window
<1> QED
  BY <1>1, <1>2 DEF Hand, AutoAck

(* A consumer that is done, or moves on with its delivery. *)
LEMMA WalkHand ==
  ASSUME TypeOK, NEW s \in Subs, Hand(s), consumer[s] \in {"checking", "reading", "decoding"},
         consumer'[s] \in {"reading", "decoding", "handling", "done"},
         consumer'[s] = "done" => chan[s] # "open",
         consumer'[s] = "handling" => current[s] \notin Unreadable,
         UNCHANGED <<program, pub, chan, buffer, current, answered, queue>>
  PROVE  Hand(s)'
<1>1. \A m : Buffered(s, m)' <=> Buffered(s, m)
  BY DEF Buffered
<1>2. ASSUME chan[s] = "open", ~AutoAck PROVE Window(s)'
  <2>1. Window(s) /\ InHand(s)
    BY <1>2 DEF Hand, InHand, Busy
  <2>2. ~answered[s]
    BY <2>1 DEF Window
  <2>3. \A m \in Messages : m = current[s] => queue[s][m] = "unacked" /\ ~Buffered(s, m)
    BY <2>1, <2>2 DEF Window, InHand
  <2>4. \A m \in Unreadable : queue'[s][m] = "unacked" =>
          Buffered(s, m)' \/ (InHand(s)' /\ m = current'[s])
    BY <1>1, <1>2, <2>1 DEF Window, InHand, Busy
  <2>5. \A m \in Messages : Buffered(s, m)' => queue'[s][m] = "unacked"
    BY <1>1, <2>1 DEF Window
  <2>6. \A i, j \in 1..Len(buffer'[s]) : buffer'[s][i] = buffer'[s][j] => i = j
    BY <2>1 DEF Window
  <2>7. \A m \in Messages : m = current'[s] => queue'[s][m] = "unacked" /\ ~Buffered(s, m)'
    BY <1>1, <2>3
  <2> QED
    BY <2>2, <2>4, <2>5, <2>6, <2>7 DEF Window
<1> QED
  BY <1>2 DEF Hand, AutoAck

(* Every step keeps the facts about each subscription. *)
LEMMA HandsStep == TypeOK /\ Closing /\ Hands /\ [Next]_vars => Hands'
<1> SUFFICES ASSUME TypeOK, Closing, Hands, [Next]_vars, NEW s \in Subs PROVE Hand(s)'
  BY DEF Hands
<1>a. Hand(s)
  BY DEF Hands
<1>b. (Untouched(s) /\ Published /\ UNCHANGED program) => Hand(s)'
  BY <1>a, UntouchedHand
<1>c. UNCHANGED pub => Published
  BY DEF Published
<1> USE DEF TypeOK, linkVars, brokerVars, workVars
<1>1. CASE UNCHANGED vars
  BY <1>1, <1>b, <1>c DEF vars, Untouched
<1>2. ASSUME NEW r \in Subs, NEW m \in Messages, Deliver(r, m) PROVE Hand(s)'
  <2>1. CASE r = s
    BY <1>2, <1>a, <2>1, DeliverHand
  <2>2. CASE r # s
    BY <1>2, <1>b, <1>c, <2>2 DEF Deliver, Untouched
  <2> QED
    BY <2>1, <2>2
<1>3. ASSUME NEW r \in Subs, NEW m \in Messages, Expire(r, m) PROVE Hand(s)'
  <2>1. \A n \in Messages : queue'[s][n] # queue[s][n] =>
          queue[s][n] = "ready" /\ queue'[s][n] = "expired"
    BY <1>3 DEF Expire
  <2>2. UNCHANGED <<program, pub, chan, consumer, buffer, current, answered>>
    BY <1>3 DEF Expire
  <2>3. Window(s) => Window(s)'
    <3>1. \A n \in Messages : queue[s][n] = "unacked" <=> queue'[s][n] = "unacked"
      BY <2>1
    <3> QED
      BY <2>2, <3>1, UnreadableAssumption DEF Window, InHand, Buffered, Busy
  <2>4. \A n \in Messages : pub'[n] \in {"idle", "sending"} => queue'[s][n] = "absent"
    BY <1>a, <2>1, <2>2 DEF Hand
  <2>5. \A n \in Messages : queue'[s][n] = "unacked" => chan'[s] = "open"
    <3>1. \A n \in Messages : queue[s][n] = "unacked" => chan[s] = "open"
      BY <1>a DEF Hand
    <3>2. \A n \in Messages : queue'[s][n] = "unacked" => queue[s][n] = "unacked"
      BY <2>1
    <3>3. chan' = chan
      BY <2>2
    <3> QED
      BY ONLY <3>1, <3>2, <3>3
  <2>6. AutoAck' = AutoAck
    BY <2>2 DEF AutoAck
  <2> QED
    BY <1>a, <2>2, <2>3, <2>4, <2>5, <2>6 DEF Hand
<1>4. ASSUME NEW m \in Messages, Routed(m), pub[m] \in {"idle", "sending"},
             pub' = [pub EXCEPT ![m] = "sent"],
             UNCHANGED <<program, chan, consumer, buffer, current, answered>>
      PROVE  Hand(s)'
  <2>1. queue[s][m] = "absent"
    BY <1>4, <1>a DEF Hand
  <2>2. \A n \in Messages : n # m => queue'[s][n] = queue[s][n]
    BY <1>4 DEF Routed
  <2>3. queue'[s][m] \in {"absent", "ready"}
    BY <1>4, <2>1 DEF Routed
  <2>4. Window(s) => Window(s)'
    <3>1. \A n \in Messages : queue[s][n] = "unacked" <=> queue'[s][n] = "unacked"
      BY <2>1, <2>2, <2>3
    <3> QED
      BY <1>4, <3>1, UnreadableAssumption DEF Window, InHand, Buffered, Busy
  <2>5. \A n \in Messages : pub'[n] \in {"idle", "sending"} => queue'[s][n] = "absent"
    BY <1>4, <1>a, <2>2 DEF Hand
  <2>6. \A n \in Messages : queue'[s][n] = "unacked" => chan'[s] = "open"
    BY <1>4, <1>a, <2>2, <2>3 DEF Hand
  <2> QED
    BY <1>4, <1>a, <2>4, <2>5, <2>6 DEF Hand, AutoAck
<1>5. CASE ConnectionLost
  <2>1. chan'[s] # "open" /\ (chan[s] = "none" => chan'[s] = "none")
    BY <1>5, CutType DEF ConnectionLost
  <2> QED
    BY <1>5, <1>a, <1>c, <2>1, CloseHand DEF ConnectionLost
<1>6. ASSUME NEW m \in Messages, OthersPublish(m) PROVE Hand(s)'
  BY <1>4, <1>6 DEF OthersPublish
<1>7. ASSUME NEW p \in Messages, PublishLock(p) PROVE Hand(s)'
  <2>1. Published
    BY <1>7 DEF PublishLock, Published
  <2> QED
    BY <1>7, <1>b, <2>1 DEF PublishLock, Untouched
<1>8. ASSUME NEW p \in Messages, PublishSend(p) PROVE Hand(s)'
  <2>1. CASE Routed(p) /\ pub' = [pub EXCEPT ![p] = "sent"]
    BY <1>4, <1>8, <2>1 DEF PublishSend
  <2>2. CASE UNCHANGED queue /\ pub' = [pub EXCEPT ![p] = "failed"]
    <3>1. Published
      BY <2>2 DEF Published
    <3> QED
      BY <1>8, <1>b, <2>2, <3>1 DEF PublishSend, Untouched
  <2> QED
    BY <1>8, <2>1, <2>2 DEF PublishSend
<1>9. ASSUME NEW r \in Subs, SubscribeCalled(r) PROVE Hand(s)'
  <2>1. CASE r = s
    BY <1>9, <1>a, <2>1 DEF SubscribeCalled, Hand, Window, InHand, Buffered, Busy, AutoAck
  <2>2. CASE r # s
    BY <1>9, <1>b, <1>c, <2>2 DEF SubscribeCalled, Untouched
  <2> QED
    BY <2>1, <2>2
<1>10. ASSUME NEW r \in Subs, Subscribe(r) PROVE Hand(s)'
  <2>1. CASE r = s
    <3>1. /\ buffer[s] = <<>> /\ chan[s] = "none"
          /\ \A m \in Messages : queue[s][m] # "unacked"
      BY <1>10, <1>a, <2>1 DEF Subscribe, Hand
    <3>2. /\ consumer'[s] \in {"idle", "failed"}
          /\ UNCHANGED <<program, pub, queue, buffer, current, answered>>
      BY <1>10, <2>1 DEF Subscribe
    <3>3. \A m : ~Buffered(s, m)'
      BY <3>1, <3>2 DEF Buffered
    <3>4. Window(s)'
      BY <3>1, <3>2, <3>3, UnreadableAssumption DEF Window, InHand, Busy
    <3> QED
      BY <1>a, <3>1, <3>2, <3>4 DEF Hand
  <2>2. CASE r # s
    BY <1>10, <1>b, <1>c, <2>2 DEF Subscribe, Untouched
  <2> QED
    BY <2>1, <2>2
<1>11. ASSUME NEW r \in Subs, Take(r) PROVE Hand(s)'
  <2>1. CASE r = s
    BY <1>11, <1>a, <2>1, TakeHand
  <2>2. CASE r # s
    BY <1>11, <1>b, <1>c, <2>2 DEF Take, Untouched
  <2> QED
    BY <2>1, <2>2
<1>12. ASSUME NEW r \in Subs, ChannelEnds(r) PROVE Hand(s)'
  <2>1. CASE r = s
    BY <1>12, <1>a, <2>1 DEF ChannelEnds, Hand
  <2>2. CASE r # s
    BY <1>12, <1>b, <1>c, <2>2 DEF ChannelEnds, Untouched
  <2> QED
    BY <2>1, <2>2
<1>13. ASSUME NEW r \in Subs, CheckLock(r) PROVE Hand(s)'
  <2>1. CASE r = s
    BY <1>13, <1>a, <2>1, WalkHand DEF CheckLock
  <2>2. CASE r # s
    BY <1>13, <1>b, <1>c, <2>2 DEF CheckLock, Untouched
  <2> QED
    BY <2>1, <2>2
<1>14. ASSUME NEW r \in Subs, CheckShutdown(r) PROVE Hand(s)'
  <2>1. CASE r = s
    BY <1>14, <1>a, <2>1, WalkHand DEF CheckShutdown, Closing
  <2>2. CASE r # s
    BY <1>14, <1>b, <1>c, <2>2 DEF CheckShutdown, Untouched
  <2> QED
    BY <2>1, <2>2
<1>15. ASSUME NEW r \in Subs, NEW to, r # s, Settle(r, to),
              UNCHANGED <<program, pub, buffer, current>>, consumer'[s] = consumer[s]
       PROVE  Hand(s)'
  BY <1>15, <1>b, <1>c, SettleOthers DEF Untouched
<1>16. ASSUME NEW r \in Subs, Decode(r) PROVE Hand(s)'
  <2>1. UNCHANGED <<program, pub, buffer, current>> /\ consumer[r] = "decoding"
    BY <1>16 DEF Decode
  <2>2. CASE /\ current[r] \in Unreadable /\ Settle(r, "discarded")
             /\ consumer' = [consumer EXCEPT ![r] = "idle"]
    <3>1. CASE r = s
      BY <1>a, <2>1, <2>2, <3>1, SettleHand DEF QueueStates
    <3>2. CASE r # s
      BY <1>15, <2>1, <2>2, <3>2
    <3> QED
      BY <3>1, <3>2
  <2>3. CASE /\ current[r] \notin Unreadable /\ UNCHANGED <<queue, chan, answered>>
             /\ consumer' = [consumer EXCEPT ![r] = "handling"]
    <3>1. CASE r = s
      BY <1>a, <2>1, <2>3, <3>1, WalkHand
    <3>2. CASE r # s
      BY <1>b, <1>c, <2>1, <2>3, <3>2 DEF Untouched
    <3> QED
      BY <3>1, <3>2
  <2> QED
    BY <1>16, <2>2, <2>3 DEF Decode
<1>17. ASSUME NEW r \in Subs, NEW to \in {"settled", "ready"}, Settle(r, to),
              consumer[r] = "handling", UNCHANGED <<program, pub, buffer, current>>,
              consumer' = consumer \/ consumer' = [consumer EXCEPT ![r] = "idle"]
       PROVE  Hand(s)'
  <2>1. CASE r = s
    BY <1>17, <1>a, <2>1, SettleHand DEF QueueStates
  <2>2. CASE r # s
    BY <1>15, <1>17, <2>2
  <2> QED
    BY <2>1, <2>2
<1>18. ASSUME NEW r \in Subs, HandlerAcks(r) \/ HandlerNacks(r) \/ HandlerFails(r)
       PROVE  Hand(s)'
  BY <1>17, <1>18 DEF HandlerAcks, HandlerNacks, HandlerFails
<1>19. ASSUME NEW r \in Subs, HandlerSucceeds(r) PROVE Hand(s)'
  <2>1. CASE r = s
    <3>1. consumer[s] = "handling" /\ consumer'[s] = "idle"
          /\ UNCHANGED <<program, pub, queue, chan, buffer, current, answered>>
      BY <1>19, <2>1 DEF HandlerSucceeds
    <3>2. Window(s) => Window(s)'
      BY <3>1 DEF Window, InHand, Buffered, Busy
    <3> QED
      BY <1>a, <3>1, <3>2 DEF Hand, AutoAck
  <2>2. CASE r # s
    BY <1>19, <1>b, <1>c, <2>2 DEF HandlerSucceeds, Untouched
  <2> QED
    BY <2>1, <2>2
<1>20. ASSUME NEW t \in Stoppers, ShutdownCalled(t) PROVE Hand(s)'
  BY <1>20, <1>b, <1>c DEF ShutdownCalled, Untouched
<1>21. ASSUME NEW t \in Stoppers, ShutdownRuns(t) PROVE Hand(s)'
  <2>1. chan'[s] # "open" /\ (chan[s] = "none" => chan'[s] = "none")
    BY <1>21 DEF ShutdownRuns
  <2> QED
    BY <1>21, <1>a, <1>c, <2>1, CloseHand DEF ShutdownRuns
<1>22. CASE Restart
  <2>1. \A m \in Messages : queue'[s][m] =
          IF queue[s][m] = "unacked" THEN "ready" ELSE queue[s][m]
    BY <1>22 DEF Restart, Requeued
  <2>2. \A m \in Messages : pub'[m] \in {"idle", "sending"} => pub[m] \in {"idle", "sending"}
    BY <1>22 DEF Restart
  <2>3. chan'[s] = "none" /\ buffer'[s] = <<>> /\ consumer'[s] = "none"
    BY <1>22 DEF Restart
  <2> QED
    BY <1>a, <2>1, <2>2, <2>3 DEF Hand
<1> QED
  BY <1>1, <1>2, <1>3, <1>5, <1>6, <1>7, <1>8, <1>9, <1>10, <1>11, <1>12, <1>13, <1>14,
     <1>16, <1>18, <1>19, <1>20, <1>21, <1>22
     DEF Next, Consumer, HandlerReturns, Broker

(* What a consumer has not settled is its own: Hand holds for every        *)
(* subscription.                                                           *)
THEOREM HandsHold == Spec => []Hands
<1>1. Init => Hands
  BY DEF Init, Hands, Hand, Busy
<1>2. TypeOK /\ Closing /\ Hands /\ [Next]_vars => Hands'
  BY HandsStep
<1> QED
  BY <1>1, <1>2, TypeCorrect, ClosingHolds, PTL DEF Spec

(* A sequence without repetitions has as many members as it is long.       *)
LEMMA CountOnce ==
  ASSUME NEW S, NEW q \in Seq(S), \A i, j \in 1..Len(q) : q[i] = q[j] => i = j
  PROVE  Cardinality({q[i] : i \in 1..Len(q)}) = Len(q)
<1> DEFINE R == {q[i] : i \in 1..Len(q)}
           f == [i \in 1..Len(q) |-> q[i]]
<1>1. Len(q) \in Nat
  OBVIOUS
<1>2. f \in Bijection(1..Len(q), R)
  <2>1. f \in [1..Len(q) -> R]
    OBVIOUS
  <2>2. f \in Injection(1..Len(q), R)
    BY <2>1 DEF Injection, IsInjective
  <2>3. f \in Surjection(1..Len(q), R)
    BY <2>1 DEF Surjection
  <2> QED
    BY <2>2, <2>3 DEF Bijection
<1>3. ExistsBijection(1..Len(q), R)
  BY <1>2 DEF ExistsBijection
<1> HIDE DEF R
<1>4. IsFiniteSet(R)
  BY <1>1, <1>3, FS_NatBijection
<1> QED
  BY <1>1, <1>3, <1>4, FS_CountingElements DEF R

LEMMA HandsSuffice == TypeOK /\ Hands => UnackedIsWithConsumer
<1> SUFFICES ASSUME TypeOK, Hands, NEW s \in Subs, chan[s] = "open", ~AutoAck
             PROVE  LET inHand   == IF consumer[s] \in Busy \ {"handling"}
                                    THEN {current[s]} ELSE {}
                        buffered == {buffer[s][i] : i \in 1..Len(buffer[s])}
                    IN  /\ inHand \cap buffered = {}
                        /\ inHand \cup buffered \subseteq Unacked(s)
                        /\ Unacked(s) \cap Unreadable \subseteq inHand \cup buffered
                        /\ Cardinality(buffered) = Len(buffer[s])
  BY DEF UnackedIsWithConsumer
<1> DEFINE inHand   == IF InHand(s) THEN {current[s]} ELSE {}
           buffered == {buffer[s][i] : i \in 1..Len(buffer[s])}
<1>1. Window(s)
  BY DEF Hands, Hand
<1>2. buffer[s] \in Seq(Messages) /\ (InHand(s) => current[s] \in Messages)
  BY DEF TypeOK, InHand
<1>3. \A m : m \in buffered <=> Buffered(s, m)
  BY DEF Buffered
<1>4. buffered \subseteq Messages
  BY <1>2
<1>5. Cardinality(buffered) = Len(buffer[s])
  BY <1>1, <1>2, CountOnce DEF Window
<1> HIDE DEF buffered
<1>6. \A m \in inHand : m \in Messages /\ queue[s][m] = "unacked" /\ ~Buffered(s, m)
  BY <1>1, <1>2 DEF Window, InHand
<1>7. \A m \in buffered : queue[s][m] = "unacked"
  BY <1>1, <1>3, <1>4 DEF Window
<1>8. \A m \in Unacked(s) \cap Unreadable : m \in inHand \cup buffered
  BY <1>1, <1>3 DEF Window, Unacked
<1>9. /\ inHand \cap buffered = {}
      /\ inHand \cup buffered \subseteq Unacked(s)
      /\ Unacked(s) \cap Unreadable \subseteq inHand \cup buffered
  BY <1>3, <1>4, <1>6, <1>7, <1>8 DEF Unacked
<1> QED
  BY <1>5, <1>9 DEF InHand, buffered

(* What a consumer has is unacked at the broker, each message once, and no *)
(* message that cannot be decoded is unacked otherwise: for any number of  *)
(* subscriptions and messages and any prefetch count.                      *)
THEOREM UnackedIsWithConsumerHolds == Spec => []UnackedIsWithConsumer
<1> QED
  BY HandsSuffice, TypeCorrect, HandsHold, PTL

-----------------------------------------------------------------------------
(* With AutoAck nothing is ever unacked: what was sent is settled, and a   *)
(* delivery moves from the buffer to the handler's hands and on.           *)

Once(s) ==
  /\ \A i, j \in 1..Len(buffer[s]) : buffer[s][i] = buffer[s][j] => i = j
  /\ \A m \in Messages : queue[s][m] # "unacked"
  /\ \A m \in Messages : times[s][m] = 0 \/ (times[s][m] = 1 /\ queue[s][m] = "settled")
  /\ \A m \in Messages : Buffered(s, m) => times[s][m] = 1 /\ m \notin consent[s]
  /\ \A m \in consent[s] : times[s][m] = 1
  /\ \A m \in Messages : m = current[s] /\ consumer[s] \in Busy =>
       times[s][m] = 1 /\ ~Buffered(s, m) /\ m \notin consent[s]

AllOnce == AutoAck => \A s \in Subs : Once(s)

(* The program that runs is chosen at the start.                           *)
LEMMA ProgramStays == [Next]_vars => UNCHANGED program
  BY DEF Next, Consumer, HandlerReturns, Broker, vars, linkVars, brokerVars, workVars,
     PublishLock, PublishSend, SubscribeCalled, Subscribe, Take, ChannelEnds, CheckLock,
     CheckShutdown, Decode, HandlerAcks, HandlerNacks, HandlerFails, HandlerSucceeds,
     ShutdownCalled, ShutdownRuns, Deliver, Expire, OthersPublish, ConnectionLost, Restart

(* Nothing that was settled is taken back, and the consumer has no other   *)
(* delivery in hand than before.                                           *)
LEMMA SettledOnce ==
  ASSUME NEW s \in Subs, Once(s), buffer'[s] = buffer[s], times'[s] = times[s],
         consent'[s] = consent[s],
         consumer'[s] \in Busy => consumer[s] \in Busy /\ current'[s] = current[s],
         \A m \in Messages : /\ queue'[s][m] # "unacked"
                             /\ queue[s][m] = "settled" => queue'[s][m] = "settled"
  PROVE  Once(s)'
<1>1. \A m : Buffered(s, m)' <=> Buffered(s, m)
  BY DEF Buffered
<1> QED
  BY <1>1 DEF Once

LEMMA DeliverOnce ==
  ASSUME TypeOK, AutoAck, NEW s \in Subs, Once(s), NEW m \in Messages, Deliver(s, m)
  PROVE  Once(s)'
<1>1. /\ queue[s][m] = "ready"
      /\ queue' = [queue EXCEPT ![s][m] = "settled"]
      /\ times' = [times EXCEPT ![s][m] = @ + 1]
      /\ buffer'[s] = Append(buffer[s], m) /\ buffer[s] \in Seq(Messages)
      /\ UNCHANGED <<consumer, current, consent>>
  BY DEF Deliver, TypeOK
<1>2. times[s][m] = 0
  BY <1>1 DEF Once
<1>3. \A n \in Messages : /\ queue'[s][n] = IF n = m THEN "settled" ELSE queue[s][n]
                          /\ times'[s][n] = IF n = m THEN 1 ELSE times[s][n]
  BY <1>1, <1>2 DEF TypeOK
<1>4. ~Buffered(s, m) /\ m \notin consent[s] /\ ~(m = current[s] /\ consumer[s] \in Busy)
  BY <1>2 DEF Once
<1>5. /\ Len(buffer'[s]) = Len(buffer[s]) + 1 /\ Len(buffer[s]) \in Nat
      /\ \A k \in 1..Len(buffer[s]) : buffer'[s][k] = buffer[s][k]
      /\ buffer'[s][Len(buffer[s]) + 1] = m
  BY <1>1
<1>6. \A n : Buffered(s, n)' <=> Buffered(s, n) \/ n = m
  BY <1>1 DEF Buffered
<1>7. \A i, j \in 1..Len(buffer'[s]) : buffer'[s][i] = buffer'[s][j] => i = j
  <2> SUFFICES ASSUME NEW i \in 1..Len(buffer'[s]), NEW j \in 1..Len(buffer'[s]),
                      buffer'[s][i] = buffer'[s][j]
               PROVE  i = j
    OBVIOUS
  <2>1. \A k, l \in 1..Len(buffer[s]) : buffer[s][k] = buffer[s][l] => k = l
    BY DEF Once
  <2>2. \A k \in 1..Len(buffer[s]) : buffer[s][k] # m
    BY <1>4 DEF Buffered
  <2>3. i \in 1..(Len(buffer[s]) + 1) /\ j \in 1..(Len(buffer[s]) + 1)
    BY <1>5
  <2>4. CASE i \in 1..Len(buffer[s]) /\ j \in 1..Len(buffer[s])
    <3>1. buffer[s][i] = buffer[s][j]
      BY <1>5, <2>4
    <3> QED
      BY <2>1, <2>4, <3>1
  <2>5. CASE i \in 1..Len(buffer[s]) /\ j = Len(buffer[s]) + 1
    BY <1>5, <2>2, <2>5
  <2>6. CASE i = Len(buffer[s]) + 1 /\ j \in 1..Len(buffer[s])
    BY <1>5, <2>2, <2>6
  <2>7. CASE i = Len(buffer[s]) + 1 /\ j = Len(buffer[s]) + 1
    BY <2>7
  <2>8. Len(buffer[s]) \in Nat
    BY <1>5
  <2> QED
    BY <2>3, <2>4, <2>5, <2>6, <2>7, <2>8
<1>8. consent[s] \subseteq Messages
  BY DEF TypeOK
<1>9. /\ \A n \in Messages : Buffered(s, n)' => times'[s][n] = 1 /\ n \notin consent'[s]
      /\ \A n \in consent'[s] : times'[s][n] = 1
  BY <1>1, <1>3, <1>4, <1>6, <1>8 DEF Once
<1>10. \A n \in Messages : n = current'[s] /\ consumer'[s] \in Busy =>
         times'[s][n] = 1 /\ ~Buffered(s, n)' /\ n \notin consent'[s]
  BY <1>1, <1>3, <1>4, <1>6 DEF Once
<1>11. \A n \in Messages : /\ queue'[s][n] # "unacked"
                           /\ times'[s][n] = 0 \/ (times'[s][n] = 1 /\ queue'[s][n] = "settled")
  BY <1>3 DEF Once
<1> QED
  BY <1>7, <1>9, <1>10, <1>11 DEF Once

LEMMA TakeOnce ==
  ASSUME TypeOK, NEW s \in Subs, Once(s), Take(s) PROVE Once(s)'
<1>1. /\ current'[s] = Head(buffer[s]) /\ buffer'[s] = Tail(buffer[s])
      /\ buffer[s] # <<>> /\ buffer[s] \in Seq(Messages)
      /\ UNCHANGED <<queue, times, consent>>
  BY DEF Take, TypeOK, brokerVars
<1>2. /\ Len(buffer'[s]) = Len(buffer[s]) - 1
      /\ \A i \in 1..Len(buffer'[s]) : buffer'[s][i] = buffer[s][i + 1]
      /\ buffer[s][1] = current'[s] /\ Len(buffer[s]) \in Nat \ {0}
  BY <1>1
<1>3. \A i \in 1..Len(buffer'[s]) : i + 1 \in 1..Len(buffer[s])
  BY <1>2
<1>4. \A n : n = current'[s] \/ Buffered(s, n)' => Buffered(s, n)
  <2>1. ASSUME NEW n, Buffered(s, n)' PROVE Buffered(s, n)
    BY <1>2, <1>3, <2>1 DEF Buffered
  <2>2. ASSUME NEW n, n = current'[s] PROVE Buffered(s, n)
    <3>1. 1 \in 1..Len(buffer[s]) /\ buffer[s][1] = n
      BY <1>2, <2>2
    <3> QED
      BY <3>1 DEF Buffered
  <2> QED
    BY <2>1, <2>2
<1>5. \A n : n = current'[s] => ~Buffered(s, n)'
  <2> SUFFICES ASSUME NEW i \in 1..Len(buffer'[s]), buffer'[s][i] = current'[s] PROVE FALSE
    BY DEF Buffered
  <2>1. buffer[s][i + 1] = buffer[s][1] /\ 1 \in 1..Len(buffer[s])
    BY <1>2
  <2>2. i + 1 = 1
    BY <1>3, <2>1 DEF Once
  <2> QED
    BY <2>2
<1>6. \A i, j \in 1..Len(buffer'[s]) : buffer'[s][i] = buffer'[s][j] => i = j
  <2> SUFFICES ASSUME NEW i \in 1..Len(buffer'[s]), NEW j \in 1..Len(buffer'[s]),
                      buffer'[s][i] = buffer'[s][j]
               PROVE  i = j
    OBVIOUS
  <2>1. buffer[s][i + 1] = buffer[s][j + 1]
    BY <1>2
  <2>2. i + 1 = j + 1
    BY <1>3, <2>1 DEF Once
  <2> QED
    BY <2>2
<1>7. \A n \in Messages : n = current'[s] =>
        times'[s][n] = 1 /\ ~Buffered(s, n)' /\ n \notin consent'[s]
  <2>1. \A n \in Messages : n = current'[s] => times[s][n] = 1 /\ n \notin consent[s]
    BY <1>4 DEF Once
  <2> QED
    BY <1>1, <1>5, <2>1
<1> QED
  BY <1>1, <1>4, <1>6, <1>7 DEF Once

(* A handler that succeeds is done with the message in hand, which is in   *)
(* no buffer.                                                              *)
LEMMA SucceedOnce ==
  ASSUME TypeOK, AutoAck, NEW s \in Subs, Once(s), HandlerSucceeds(s) PROVE Once(s)'
<1>1. /\ consumer[s] = "handling" /\ consumer'[s] = "idle"
      /\ consent'[s] = consent[s] \cup {current[s]}
      /\ UNCHANGED <<queue, times, buffer>>
  BY DEF HandlerSucceeds, TypeOK, brokerVars
<1>2. current[s] \in Messages /\ times[s][current[s]] = 1 /\ ~Buffered(s, current[s])
  BY <1>1 DEF TypeOK, Busy, Once
<1>3. \A m : Buffered(s, m)' <=> Buffered(s, m)
  BY <1>1 DEF Buffered
<1> QED
  BY <1>1, <1>2, <1>3 DEF Once, Busy

LEMMA OnceStep ==
  ASSUME TypeOK, Hands, AutoAck, [Next]_vars, NEW s \in Subs, Once(s) PROVE Once(s)'
<1> USE DEF linkVars, brokerVars, workVars
<1>a. \A m \in Messages : queue[s][m] # "unacked"
  BY DEF Once
<1>b. ASSUME UNCHANGED <<queue, times, consent>>, buffer'[s] = buffer[s],
             consumer'[s] \in Busy => consumer[s] \in Busy /\ current'[s] = current[s]
      PROVE  Once(s)'
  BY <1>a, <1>b, SettledOnce
<1>c. ASSUME NEW ss, queue' = Requeued(ss) PROVE queue'[s] = queue[s]
  <2>1. \A m \in Messages : queue'[s][m] = queue[s][m]
    BY <1>a, <1>c DEF Requeued
  <2> QED
    BY <1>c, <2>1 DEF Requeued, TypeOK
<1>1. ASSUME NEW r \in Subs, NEW m \in Messages, Deliver(r, m) PROVE Once(s)'
  <2>1. CASE r = s
    BY <1>1, <2>1, DeliverOnce
  <2>2. CASE r # s
    <3>1. /\ queue'[s] = queue[s] /\ times'[s] = times[s] /\ buffer'[s] = buffer[s]
          /\ UNCHANGED <<consumer, current, consent>>
      BY <1>1, <2>2 DEF Deliver, TypeOK
    <3> QED
      BY <1>a, <3>1, SettledOnce
  <2> QED
    BY <2>1, <2>2
<1>2. ASSUME NEW r \in Subs, NEW m \in Messages, Expire(r, m) PROVE Once(s)'
  <2>1. \A n \in Messages : queue'[s][n] # queue[s][n] =>
          queue[s][n] = "ready" /\ queue'[s][n] = "expired"
    BY <1>2 DEF Expire, TypeOK
  <2>2. UNCHANGED <<times, buffer, consumer, current, consent>>
    BY <1>2 DEF Expire
  <2>3. \A n \in Messages : /\ queue'[s][n] # "unacked"
                            /\ queue[s][n] = "settled" => queue'[s][n] = "settled"
    BY <1>a, <2>1
  <2> QED
    BY <2>2, <2>3, SettledOnce
<1>3. ASSUME NEW m \in Messages, OthersPublish(m) \/ PublishSend(m) PROVE Once(s)'
  <2>1. /\ pub[m] \in {"idle", "sending"} /\ UNCHANGED <<times, buffer, consumer, current, consent>>
        /\ UNCHANGED queue \/ Routed(m)
    BY <1>3 DEF OthersPublish, PublishSend
  <2>2. queue[s][m] = "absent"
    BY <2>1 DEF Hands, Hand
  <2>3. \A n \in Messages : queue'[s][n] = queue[s][n] \/ (n = m /\ queue'[s][n] = "ready")
    <3>1. CASE UNCHANGED queue
      BY <3>1
    <3>2. CASE Routed(m)
      BY <3>2 DEF Routed
    <3> QED
      BY <2>1, <3>1, <3>2
  <2>4. \A n \in Messages : /\ queue'[s][n] # "unacked"
                            /\ queue[s][n] = "settled" => queue'[s][n] = "settled"
    BY <1>a, <2>2, <2>3
  <2> QED
    BY <2>1, <2>4, SettledOnce
<1>4. ASSUME NEW r \in Subs, Take(r) PROVE Once(s)'
  <2>1. CASE r = s
    BY <1>4, <2>1, TakeOnce
  <2>2. CASE r # s
    BY <1>4, <1>b, <2>2 DEF Take, TypeOK
  <2> QED
    BY <2>1, <2>2
<1>5. ASSUME UNCHANGED <<queue, times, consent>>, buffer'[s] = <<>>, consumer'[s] \notin Busy
      PROVE  Once(s)'
  <2>1. \A m : ~Buffered(s, m)'
    BY <1>5 DEF Buffered
  <2> QED
    BY <1>5, <2>1 DEF Once
<1>6. ASSUME NEW r \in Subs, ChannelEnds(r) PROVE Once(s)'
  <2>1. CASE r = s
    BY <1>5, <1>6, <2>1 DEF ChannelEnds, TypeOK, Busy
  <2>2. CASE r # s
    BY <1>6, <1>b, <2>2 DEF ChannelEnds, TypeOK
  <2> QED
    BY <2>1, <2>2
<1>7. ASSUME NEW r \in Subs, Decode(r) \/ HandlerFails(r) PROVE Once(s)'
  <2>1. /\ UNCHANGED <<queue, times, consent, buffer, current>>
        /\ consumer'[s] \in Busy => consumer[s] \in Busy
    BY <1>7 DEF Decode, HandlerFails, Settle, TypeOK, Busy
  <2> QED
    BY <1>b, <2>1
<1>8. ASSUME NEW r \in Subs, HandlerSucceeds(r) PROVE Once(s)'
  <2>1. CASE r = s
    BY <1>8, <2>1, SucceedOnce
  <2>2. CASE r # s
    <3>1. /\ UNCHANGED <<queue, times, buffer, current>>
          /\ consent'[s] = consent[s] /\ consumer'[s] = consumer[s]
      BY <1>8, <2>2 DEF HandlerSucceeds, TypeOK
    <3> QED
      BY <1>a, <3>1, SettledOnce
  <2> QED
    BY <2>1, <2>2
<1>9. ASSUME NEW r \in Subs,
             SubscribeCalled(r) \/ Subscribe(r) \/ CheckLock(r) \/ CheckShutdown(r)
      PROVE  Once(s)'
  <2>1. /\ UNCHANGED <<queue, times, consent, buffer, current>>
        /\ consumer'[s] \in Busy => consumer[s] \in Busy
    BY <1>9 DEF SubscribeCalled, Subscribe, CheckLock, CheckShutdown, TypeOK, Busy
  <2> QED
    BY <1>b, <2>1
<1>10. CASE ConnectionLost \/ (\E t \in Stoppers : ShutdownRuns(t))
  <2>1. /\ UNCHANGED <<times, buffer, consumer, current, consent>>
        /\ queue' = Requeued(Subs)
    BY <1>10 DEF ConnectionLost, ShutdownRuns
  <2> QED
    BY <1>a, <1>c, <2>1, SettledOnce
<1>11. CASE Restart
  <2>1. /\ UNCHANGED <<times, consent>> /\ queue' = Requeued(Subs)
        /\ buffer'[s] = <<>> /\ consumer'[s] \notin Busy
    BY <1>11 DEF Restart, Busy
  <2>2. \A m : ~Buffered(s, m)'
    BY <2>1 DEF Buffered
  <2> QED
    BY <1>c, <2>1, <2>2 DEF Once
<1>12. \/ UNCHANGED <<queue, times, buffer, consumer, current, consent>>
       \/ \E r \in Subs, m \in Messages : Deliver(r, m) \/ Expire(r, m)
       \/ \E m \in Messages : OthersPublish(m) \/ PublishSend(m)
       \/ \E r \in Subs : \/ Take(r) \/ ChannelEnds(r) \/ Decode(r) \/ HandlerFails(r)
                          \/ HandlerSucceeds(r) \/ SubscribeCalled(r) \/ Subscribe(r)
                          \/ CheckLock(r) \/ CheckShutdown(r)
       \/ ConnectionLost \/ (\E t \in Stoppers : ShutdownRuns(t))
       \/ Restart
  BY DEF Next, Consumer, HandlerReturns, Broker, vars, HandlerAcks, HandlerNacks,
     PublishLock, ShutdownCalled
<1> QED
  BY <1>b, <1>1, <1>2, <1>3, <1>4, <1>6, <1>7, <1>8, <1>9, <1>10, <1>11, <1>12

(* With AutoAck a handler is never called a second time for a message of   *)
(* its queue, whatever fails, breaks or starts again, for any number of    *)
(* subscriptions and messages.                                             *)
THEOREM AutoAckedOnceHolds == Spec => []AutoAckedOnce
<1>1. Init => AllOnce
  BY DEF Init, AllOnce, Once, Buffered, Busy
<1>2. TypeOK /\ Hands /\ AllOnce /\ [Next]_vars => AllOnce'
  <2> SUFFICES ASSUME TypeOK, Hands, AllOnce, [Next]_vars, AutoAck', NEW s \in Subs
               PROVE  Once(s)'
    BY DEF AllOnce
  <2>1. AutoAck /\ Once(s)
    BY ProgramStays DEF AutoAck, AllOnce
  <2> QED
    BY <2>1, OnceStep
<1>3. TypeOK /\ AllOnce => AutoAckedOnce
  BY DEF TypeOK, AllOnce, Once, AutoAckedOnce, Busy
<1> QED
  BY <1>1, <1>2, <1>3, TypeCorrect, HandsHold, PTL DEF Spec

-----------------------------------------------------------------------------
(* The abstract promise, for every copy <<s, m>> of a message in a queue.  *)

Copies == Subs \X Messages
Gone == {"settled", "discarded", "expired"}

(* A step that leaves every fate and every consent alone is a stutter.     *)
LEMMA FateStutters ==
  ASSUME UNCHANGED <<program, consent>>, TypeOK,
         \A s \in Subs, m \in Messages :
           \/ queue'[s][m] = queue[s][m]
           \/ queue[s][m] \notin Gone /\ queue'[s][m] \notin Gone
  PROVE  UNCHANGED Promise!vars
<1>1. AutoAck' = AutoAck
  BY DEF AutoAck
<1>2. \A d \in Subs \X Messages : FateOf(d)' = FateOf(d)
  BY <1>1 DEF FateOf, Gone
<1>3. [d \in Subs \X Messages |-> FateOf(d)]' = [d \in Subs \X Messages |-> FateOf(d)]
  BY <1>2
<1>4. {d \in Subs \X Messages : d[2] \in consent[d[1]]}'
        = {d \in Subs \X Messages : d[2] \in consent[d[1]]}
  OBVIOUS
<1> QED
  BY <1>3, <1>4 DEF Promise!vars

LEMMA RequeuedStutters ==
  ASSUME UNCHANGED <<program, consent>>, TypeOK, NEW ss, queue' = Requeued(ss)
  PROVE  UNCHANGED Promise!vars
<1>1. \A s \in Subs, m \in Messages :
        \/ queue'[s][m] = queue[s][m]
        \/ queue[s][m] \notin Gone /\ queue'[s][m] \notin Gone
  BY DEF Requeued, Gone
<1> QED
  BY <1>1, FateStutters

(* One copy changes.                                                       *)
LEMMA FateOfOne ==
  ASSUME TypeOK, UNCHANGED program, ~AutoAck, NEW s \in Subs, NEW m \in Messages,
         NEW to \in Gone, queue' = [queue EXCEPT ![s][m] = to], queue[s][m] \notin Gone
  PROVE  /\ FateOf(<<s, m>>) = "open"
         /\ [d \in Subs \X Messages |-> FateOf(d)]'
              = [[d \in Subs \X Messages |-> FateOf(d)] EXCEPT ![<<s, m>>] = to]
<1>1. ~AutoAck'
  BY DEF AutoAck
<1>2. FateOf(<<s, m>>) = "open" /\ FateOf(<<s, m>>)' = to
  BY <1>1 DEF FateOf, Gone, TypeOK
<1>3. \A d \in Subs \X Messages : d # <<s, m>> => FateOf(d)' = FateOf(d)
  <2> SUFFICES ASSUME NEW r \in Subs, NEW n \in Messages, r # s \/ n # m
               PROVE  FateOf(<<r, n>>)' = FateOf(<<r, n>>)
    OBVIOUS
  <2>1. queue'[r][n] = queue[r][n]
    BY DEF TypeOK
  <2> QED
    BY <1>1, <2>1 DEF FateOf
<1> QED
  BY <1>2, <1>3

LEMMA FateStep == TypeOK /\ Hands /\ [Next]_vars => [Promise!Next]_(Promise!vars)
<1> SUFFICES ASSUME TypeOK, Hands, [Next]_vars PROVE [Promise!Next]_(Promise!vars)
  OBVIOUS
<1> DEFINE fate == [d \in Subs \X Messages |-> FateOf(d)]
           handled == {d \in Subs \X Messages : d[2] \in consent[d[1]]}
<1> USE DEF linkVars, brokerVars, workVars
<1>1. CASE UNCHANGED <<program, queue, consent>>
  BY <1>1, FateStutters
<1>2. ASSUME NEW s \in Subs, NEW m \in Messages, Deliver(s, m)
      PROVE  [Promise!Next]_(Promise!vars)
  <2>1. UNCHANGED <<program, consent>> /\ queue[s][m] = "ready"
        /\ queue' = [queue EXCEPT ![s][m] = IF AutoAck THEN "settled" ELSE "unacked"]
    BY <1>2 DEF Deliver
  <2>2. CASE AutoAck
    <3>1. AutoAck'
      BY <2>1, <2>2 DEF AutoAck
    <3>2. \A d \in Subs \X Messages : FateOf(d)' = FateOf(d)
      BY <2>2, <3>1 DEF FateOf
    <3>3. UNCHANGED <<fate, handled>>
      BY <2>1, <3>2
    <3> QED
      BY <3>3 DEF Promise!vars
  <2>3. CASE ~AutoAck
    <3>1. \A r \in Subs, n \in Messages :
            \/ queue'[r][n] = queue[r][n]
            \/ queue[r][n] \notin Gone /\ queue'[r][n] \notin Gone
      BY <2>1, <2>3 DEF TypeOK, Gone
    <3> QED
      BY <2>1, <3>1, FateStutters
  <2> QED
    BY <2>2, <2>3
<1>3. ASSUME NEW s \in Subs, NEW m \in Messages, Expire(s, m)
      PROVE  [Promise!Next]_(Promise!vars)
  <2>1. UNCHANGED <<program, consent>> /\ queue[s][m] = "ready"
        /\ queue' = [queue EXCEPT ![s][m] = "expired"]
    BY <1>3 DEF Expire
  <2>2. CASE AutoAck
    <3>1. AutoAck'
      BY <2>1, <2>2 DEF AutoAck
    <3>2. \A d \in Subs \X Messages : FateOf(d)' = FateOf(d)
      BY <2>2, <3>1 DEF FateOf
    <3>3. UNCHANGED <<fate, handled>>
      BY <2>1, <3>2
    <3> QED
      BY <3>3 DEF Promise!vars
  <2>3. CASE ~AutoAck
    <3>1. FateOf(<<s, m>>) = "open" /\ fate' = [fate EXCEPT ![<<s, m>>] = "expired"]
      BY <2>1, <2>3, FateOfOne DEF Gone
    <3>2. Promise!Expire({<<s, m>>})
      BY <2>1, <3>1 DEF Promise!Expire
    <3> QED
      BY <3>2 DEF Promise!Next
  <2> QED
    BY <2>2, <2>3
<1>4. ASSUME NEW m \in Messages, Routed(m), pub[m] \in {"idle", "sending"},
             UNCHANGED <<program, consent>>
      PROVE  [Promise!Next]_(Promise!vars)
  <2>1. \A r \in Subs, n \in Messages :
          \/ queue'[r][n] = queue[r][n]
          \/ queue[r][n] \notin Gone /\ queue'[r][n] \notin Gone
    BY <1>4 DEF Routed, Gone, TypeOK, Hands, Hand
  <2> QED
    BY <1>4, <2>1, FateStutters
<1>5. ASSUME NEW m \in Messages, OthersPublish(m) \/ PublishSend(m)
      PROVE  [Promise!Next]_(Promise!vars)
  <2>1. UNCHANGED <<program, consent>> /\ pub[m] \in {"idle", "sending"}
        /\ (UNCHANGED queue \/ Routed(m))
    BY <1>5 DEF OthersPublish, PublishSend
  <2> QED
    BY <1>1, <1>4, <2>1
<1>6. ASSUME NEW ss, queue' = Requeued(ss), UNCHANGED <<program, consent>>
      PROVE  [Promise!Next]_(Promise!vars)
  BY <1>6, RequeuedStutters
<1>7. ASSUME NEW s \in Subs, consumer[s] \in Busy, ~AutoAck, chan[s] = "open", ~answered[s]
      PROVE  current[s] \in Messages /\ queue[s][current[s]] = "unacked"
  BY <1>7 DEF Hands, Hand, Window, TypeOK
<1>8. ASSUME NEW s \in Subs, consumer[s] = "handling", UNCHANGED program, UNCHANGED queue,
             consent' = [consent EXCEPT ![s] = @ \cup {current[s]}]
      PROVE  [Promise!Next]_(Promise!vars)
  <2>1. PICK d \in Subs \X Messages : d = <<s, current[s]>>
    BY <1>8 DEF TypeOK, Busy
  <2>2. AutoAck' = AutoAck
    BY <1>8 DEF AutoAck
  <2>3. fate' = fate
    BY <1>8, <2>2 DEF FateOf
  <2>4. handled' = handled \cup {d}
    BY <1>8, <2>1 DEF TypeOK
  <2>5. d \notin Subs \X Unreadable
    BY <1>8, <2>1 DEF Hands, Hand
  <2>6. Promise!Handle(d)
    BY <2>3, <2>4, <2>5 DEF Promise!Handle
  <2> QED
    BY <2>6 DEF Promise!Next
<1>9. ASSUME NEW s \in Subs, NEW to \in {"ready", "discarded"}, Settle(s, to),
             consumer[s] \in Busy, UNCHANGED <<program, consent>>,
             to = "discarded" => current[s] \in Unreadable
      PROVE  [Promise!Next]_(Promise!vars)
  <2>1. CASE UNCHANGED queue \/ queue' = Requeued({s})
    BY <1>1, <1>6, <1>9, <2>1
  <2>2. CASE ~AutoAck /\ chan[s] = "open" /\ ~answered[s]
             /\ queue' = [queue EXCEPT ![s][current[s]] = to]
    <3>1. current[s] \in Messages /\ queue[s][current[s]] = "unacked"
      BY <1>7, <1>9, <2>2
    <3>2. CASE to = "ready"
      <4>1. \A r \in Subs, n \in Messages :
              \/ queue'[r][n] = queue[r][n]
              \/ queue[r][n] \notin Gone /\ queue'[r][n] \notin Gone
        BY <2>2, <3>1, <3>2 DEF TypeOK, Gone
      <4> QED
        BY <1>9, <4>1, FateStutters
    <3>3. CASE to = "discarded"
      <4>1. /\ FateOf(<<s, current[s]>>) = "open"
            /\ fate' = [fate EXCEPT ![<<s, current[s]>>] = "discarded"]
        BY <1>9, <2>2, <3>1, <3>3, FateOfOne DEF Gone
      <4>2. Promise!Discard(<<s, current[s]>>)
        BY <1>9, <3>1, <3>3, <4>1 DEF Promise!Discard
      <4> QED
        BY <3>1, <4>2 DEF Promise!Next
    <3> QED
      BY <3>2, <3>3
  <2> QED
    BY <1>9, <2>1, <2>2 DEF Settle
<1>10. ASSUME NEW s \in Subs, Decode(s) PROVE [Promise!Next]_(Promise!vars)
  BY <1>1, <1>9, <1>10 DEF Decode, Busy
<1>11. ASSUME NEW s \in Subs, HandlerNacks(s) \/ HandlerFails(s)
       PROVE  [Promise!Next]_(Promise!vars)
  BY <1>9, <1>11 DEF HandlerNacks, HandlerFails, Busy
<1>12. ASSUME NEW s \in Subs, HandlerAcks(s) PROVE [Promise!Next]_(Promise!vars)
  <2>1. /\ ~AutoAck /\ consumer[s] = "handling" /\ Settle(s, "settled")
        /\ consent' = [consent EXCEPT ![s] = @ \cup {current[s]}] /\ UNCHANGED program
    BY <1>12 DEF HandlerAcks
  <2>2. CASE UNCHANGED queue
    BY <1>8, <2>1, <2>2
  <2>3. PICK d \in Subs \X Messages : d = <<s, current[s]>>
    BY <2>1 DEF TypeOK, Busy
  <2>4. handled' = handled \cup {d} /\ d \notin Subs \X Unreadable
    BY <2>1, <2>3 DEF TypeOK, Hands, Hand
  <2>5. CASE chan[s] = "open" /\ ~answered[s]
             /\ queue' = [queue EXCEPT ![s][current[s]] = "settled"]
    <3>1. current[s] \in Messages /\ queue[s][current[s]] = "unacked"
      BY <1>7, <2>1, <2>5 DEF Busy
    <3>2. FateOf(d) = "open" /\ fate' = [fate EXCEPT ![d] = "settled"]
      BY <2>1, <2>3, <2>5, <3>1, FateOfOne DEF Gone
    <3>3. Promise!Settle(d)
      BY <2>4, <3>2 DEF Promise!Settle
    <3> QED
      BY <3>3 DEF Promise!Next
  <2>6. CASE queue' = Requeued({s})
    <3>1. AutoAck' = AutoAck
      BY <2>1 DEF AutoAck
    <3>2. \A c \in Subs \X Messages : FateOf(c)' = FateOf(c)
      BY <2>6, <3>1 DEF FateOf, Requeued
    <3>3. fate' = fate
      BY <3>2
    <3>4. Promise!Handle(d)
      BY <2>4, <3>3 DEF Promise!Handle
    <3> QED
      BY <3>4 DEF Promise!Next
  <2> QED
    BY <2>1, <2>2, <2>5, <2>6 DEF Settle
<1>13. ASSUME NEW s \in Subs, HandlerSucceeds(s) PROVE [Promise!Next]_(Promise!vars)
  BY <1>1, <1>8, <1>13 DEF HandlerSucceeds
<1>14. \/ UNCHANGED <<program, queue, consent>>
       \/ \E s \in Subs, m \in Messages : Deliver(s, m) \/ Expire(s, m)
       \/ \E m \in Messages : OthersPublish(m) \/ PublishSend(m)
       \/ \E s \in Subs : \/ Decode(s) \/ HandlerNacks(s) \/ HandlerFails(s)
                          \/ HandlerAcks(s) \/ HandlerSucceeds(s)
       \/ queue' = Requeued(Subs) /\ UNCHANGED <<program, consent>>
  BY DEF Next, Consumer, HandlerReturns, Broker, vars, ConnectionLost, PublishLock,
     SubscribeCalled, Subscribe, Take, ChannelEnds, CheckLock, CheckShutdown,
     ShutdownCalled, ShutdownRuns, Restart
<1> QED
  BY <1>1, <1>2, <1>3, <1>5, <1>6, <1>10, <1>11, <1>12, <1>13, <1>14

(* RabbitMQ implements AtLeastOnce for every copy of a message in every    *)
(* queue: without AutoAck a copy is taken from its queue for good only     *)
(* when the handler of that queue was done with it, when nobody can read   *)
(* it, or when its deadline has passed.                                    *)
THEOREM DeliversAtLeastOnceHolds == Spec => DeliversAtLeastOnce
<1>1. Init => Promise!Init
  BY DEF Init, Promise!Init, FateOf
<1>2. TypeOK /\ Hands /\ [Next]_vars => [Promise!Next]_(Promise!vars)
  BY FateStep
<1> QED
  BY <1>1, <1>2, TypeCorrect, HandsHold, PTL DEF Spec, DeliversAtLeastOnce, Promise!Spec

-----------------------------------------------------------------------------
(* What a subscription keeps in memory. *)

LEMMA InitUnackedFinite == Init => \A s \in Subs : IsFiniteSet(Unacked(s))
<1> SUFFICES ASSUME Init, NEW s \in Subs PROVE IsFiniteSet(Unacked(s))
  OBVIOUS
<1>1. Unacked(s) = {}
  BY DEF Init, Unacked
<1> QED
  BY <1>1, FS_EmptySet

(* A step makes at most one message unacked.                               *)
LEMMA UnackedStep ==
  ASSUME TypeOK, [Next]_vars, NEW s \in Subs
  PROVE  \/ Unacked(s)' \subseteq Unacked(s)
         \/ \E m \in Messages : Unacked(s)' \subseteq Unacked(s) \cup {m}
<1> USE DEF linkVars, brokerVars, workVars
<1> DEFINE Fewer == \A m \in Messages : queue'[s][m] = "unacked" => queue[s][m] = "unacked"
<1>a. Fewer => Unacked(s)' \subseteq Unacked(s)
  BY DEF Unacked
<1>1. UNCHANGED queue => Fewer
  OBVIOUS
<1>2. ASSUME NEW ss, queue' = Requeued(ss) PROVE Fewer
  BY <1>2 DEF Requeued
<1>3. ASSUME NEW r \in Subs, NEW m \in Messages, Deliver(r, m)
      PROVE  Unacked(s)' \subseteq Unacked(s) \cup {m}
  BY <1>3 DEF Deliver, Unacked, TypeOK
<1>4. ASSUME NEW r \in Subs, NEW m \in Messages, NEW to \in QueueStates \ {"unacked"},
             queue' = [queue EXCEPT ![r][m] = to]
      PROVE  Fewer
  BY <1>4 DEF TypeOK
<1>5. ASSUME NEW m \in Messages, Routed(m) PROVE Fewer
  BY <1>5 DEF Routed, TypeOK
<1>6. ASSUME NEW r \in Subs, NEW to \in QueueStates \ {"unacked"}, Settle(r, to),
             consumer[r] \in Busy
      PROVE  Fewer
  <2>1. current[r] \in Messages
    BY <1>6 DEF TypeOK
  <2> QED
    BY <1>1, <1>2, <1>4, <1>6, <2>1 DEF Settle
<1>7. ASSUME NEW r \in Subs,
             Decode(r) \/ HandlerAcks(r) \/ HandlerNacks(r) \/ HandlerFails(r)
      PROVE  Fewer
  <2>1. consumer[r] \in Busy
    BY <1>7 DEF Decode, HandlerAcks, HandlerNacks, HandlerFails, Busy
  <2>2. \/ UNCHANGED queue
        \/ Settle(r, "discarded") \/ Settle(r, "settled") \/ Settle(r, "ready")
    BY <1>7 DEF Decode, HandlerAcks, HandlerNacks, HandlerFails
  <2> QED
    BY <1>1, <1>6, <2>1, <2>2 DEF QueueStates
<1>8. ASSUME NEW m \in Messages, OthersPublish(m) \/ PublishSend(m) PROVE Fewer
  BY <1>1, <1>5, <1>8 DEF OthersPublish, PublishSend
<1>9. ASSUME NEW r \in Subs, NEW m \in Messages, Expire(r, m) PROVE Fewer
  BY <1>4, <1>9 DEF Expire, QueueStates
<1>10. ConnectionLost \/ Restart \/ (\E t \in Stoppers : ShutdownRuns(t)) => Fewer
  BY <1>2 DEF ConnectionLost, Restart, ShutdownRuns
<1>11. \/ UNCHANGED queue
       \/ \E r \in Subs, m \in Messages : Deliver(r, m) \/ Expire(r, m)
       \/ \E m \in Messages : OthersPublish(m) \/ PublishSend(m)
       \/ \E r \in Subs : Decode(r) \/ HandlerAcks(r) \/ HandlerNacks(r) \/ HandlerFails(r)
       \/ ConnectionLost \/ Restart \/ (\E t \in Stoppers : ShutdownRuns(t))
  BY DEF Next, Consumer, HandlerReturns, Broker, vars, PublishLock, SubscribeCalled,
     Subscribe, Take, ChannelEnds, CheckLock, CheckShutdown, HandlerSucceeds, ShutdownCalled
<1> HIDE DEF Fewer
<1> QED
  BY <1>a, <1>1, <1>3, <1>7, <1>8, <1>9, <1>10, <1>11

(* The deliveries a consumer has not settled yet: those in its buffer and  *)
(* the one in hand. *)
Holds(s) == consumer[s] \in Busy /\ ~answered[s]

Load(s) == Len(buffer[s]) + (IF Holds(s) THEN 1 ELSE 0)

LEMMA LoadCases ==
  ASSUME TypeOK, NEW s \in Subs
  PROVE  /\ Len(buffer[s]) \in Nat /\ Load(s) \in Nat
         /\ Holds(s) => Load(s) = Len(buffer[s]) + 1
         /\ ~Holds(s) => Load(s) = Len(buffer[s])
<1>1. Len(buffer[s]) \in Nat
  BY DEF TypeOK
<1>2. /\ Holds(s) => Load(s) = Len(buffer[s]) + 1
      /\ ~Holds(s) => Load(s) = Len(buffer[s]) + 0
  BY DEF Load
<1>3. Len(buffer[s]) + 0 = Len(buffer[s]) /\ Len(buffer[s]) + 1 \in Nat
  BY <1>1
<1> QED
  BY <1>1, <1>2, <1>3

LEMMA LoadCasesNext ==
  ASSUME TypeOK', NEW s \in Subs
  PROVE  /\ Len(buffer'[s]) \in Nat /\ Load(s)' \in Nat
         /\ Holds(s)' => Load(s)' = Len(buffer'[s]) + 1
         /\ ~Holds(s)' => Load(s)' = Len(buffer'[s])
<1>1. Len(buffer'[s]) \in Nat
  BY DEF TypeOK
<1>2. /\ Holds(s)' => Load(s)' = Len(buffer'[s]) + 1
      /\ ~Holds(s)' => Load(s)' = Len(buffer'[s]) + 0
  BY DEF Load
<1>3. Len(buffer'[s]) + 0 = Len(buffer'[s]) /\ Len(buffer'[s]) + 1 \in Nat
  BY <1>1
<1> QED
  BY <1>1, <1>2, <1>3

Light(s) ==
  /\ IsFiniteSet(Unacked(s))
  /\ ~AutoAck => Load(s) <= Concurrency

(* While the channel is open all of them are unacked at the broker.        *)
LEMMA LoadIsUnacked ==
  ASSUME TypeOK, NEW s \in Subs, Hand(s), chan[s] = "open", ~AutoAck, IsFiniteSet(Unacked(s))
  PROVE  Cardinality(Unacked(s)) \in Nat /\ Load(s) <= Cardinality(Unacked(s))
<1> DEFINE buffered == {buffer[s][i] : i \in 1..Len(buffer[s])}
<1>1. Window(s)
  BY DEF Hand
<1>2. buffer[s] \in Seq(Messages)
  BY DEF TypeOK
<1>3. Cardinality(buffered) = Len(buffer[s])
  BY <1>1, <1>2, CountOnce DEF Window
<1>4. \A m : m \in buffered <=> Buffered(s, m)
  BY DEF Buffered
<1>5. buffered \subseteq Messages
  BY <1>2
<1> HIDE DEF buffered
<1>6. buffered \subseteq Unacked(s)
  BY <1>1, <1>4, <1>5 DEF Window, Unacked
<1>7. IsFiniteSet(buffered) /\ Cardinality(buffered) <= Cardinality(Unacked(s))
  BY <1>6, FS_Subset
<1>8. Cardinality(Unacked(s)) \in Nat /\ Len(buffer[s]) \in Nat
  BY <1>2, FS_CardinalityType
<1>9. CASE Holds(s)
  <2>1. current[s] \in Messages
    BY <1>9 DEF TypeOK, Holds
  <2>2. current[s] \in Unacked(s) /\ current[s] \notin buffered
    BY <1>1, <1>4, <1>9, <2>1 DEF Window, Unacked, Holds
  <2>3. buffered \cup {current[s]} \subseteq Unacked(s)
    BY <1>6, <2>2
  <2>4. Cardinality(buffered \cup {current[s]}) = Cardinality(buffered) + 1
    BY <1>7, <2>2, FS_AddElement
  <2>5. Cardinality(buffered \cup {current[s]}) <= Cardinality(Unacked(s))
    BY <2>3, FS_Subset
  <2> QED
    BY <1>3, <1>8, <1>9, <2>4, <2>5, LoadCases
<1>10. CASE ~Holds(s)
  BY <1>3, <1>7, <1>8, <1>10, LoadCases
<1> QED
  BY <1>9, <1>10

LEMMA LightStep ==
  ASSUME TypeOK, Hands, NEW s \in Subs, Light(s), [Next]_vars PROVE Light(s)'
<1> USE DEF linkVars, brokerVars, workVars
<1>a. AutoAck' = AutoAck /\ Concurrency' = Concurrency /\ Concurrency \in Nat
  BY ProgramStays, ProgramsAssumption DEF AutoAck, Concurrency, TypeOK
<1>b. IsFiniteSet(Unacked(s)')
  <2>1. PICK m : Unacked(s)' \subseteq Unacked(s) \cup {m}
    BY UnackedStep
  <2>2. IsFiniteSet(Unacked(s) \cup {m})
    BY FS_AddElement DEF Light
  <2> QED
    BY <2>1, <2>2, FS_Subset
<1>c. Len(buffer[s]) \in Nat /\ buffer[s] \in Seq(Messages) /\ answered[s] \in BOOLEAN
  BY DEF TypeOK
<1> SUFFICES ASSUME ~AutoAck PROVE Load(s)' <= Concurrency
  BY <1>a, <1>b DEF Light
<1>d. Load(s) <= Concurrency
  BY DEF Light
<1>e. TypeOK'
  BY TypeStep
<1>1. ASSUME buffer'[s] = buffer[s],
             consumer'[s] \in Busy /\ ~answered'[s] => Holds(s)
      PROVE  Load(s)' <= Concurrency
  <2>1. Holds(s)' => Holds(s)
    BY <1>1 DEF Holds
  <2>2. Load(s)' <= Load(s)
    BY <1>1, <1>e, <2>1, LoadCases, LoadCasesNext
  <2> QED
    BY <1>a, <1>d, <1>e, <2>2, LoadCases, LoadCasesNext
<1>2. ASSUME NEW r \in Subs, NEW m \in Messages, Deliver(r, m)
      PROVE  Load(s)' <= Concurrency
  <2>1. CASE r = s
    <3>1. /\ chan[s] = "open" /\ Cardinality(Unacked(s)) < Concurrency
          /\ UNCHANGED <<consumer, answered>>
          /\ buffer' = [buffer EXCEPT ![s] = Append(@, m)]
      BY <1>2, <2>1 DEF Deliver
    <3>2. Len(buffer'[s]) = Len(buffer[s]) + 1
      BY <1>c, <3>1 DEF TypeOK
    <3>3. Load(s)' = Load(s) + 1 /\ Load(s) \in Nat
      <4>1. Holds(s)' <=> Holds(s)
        BY <3>1 DEF Holds
      <4> QED
        BY <1>e, <3>2, <4>1, LoadCases, LoadCasesNext
    <3>4. Cardinality(Unacked(s)) \in Nat /\ Load(s) <= Cardinality(Unacked(s))
      BY <3>1, LoadIsUnacked DEF Hands, Light
    <3> QED
      BY <1>a, <3>1, <3>3, <3>4
  <2>2. CASE r # s
    BY <1>1, <1>2, <2>2 DEF Deliver, TypeOK, Holds
  <2> QED
    BY <2>1, <2>2
<1>3. ASSUME NEW r \in Subs, Take(r) PROVE Load(s)' <= Concurrency
  <2>1. CASE r = s
    <3>1. /\ consumer[s] = "idle" /\ buffer[s] # <<>>
          /\ buffer'[s] = Tail(buffer[s])
      BY <1>3, <2>1 DEF Take, TypeOK
    <3>2. Len(buffer'[s]) + 1 = Len(buffer[s]) /\ Len(buffer'[s]) \in Nat
      BY <1>c, <3>1
    <3>3. Load(s)' <= Len(buffer'[s]) + 1
      BY <1>e, <3>2, LoadCasesNext
    <3>4. Load(s) = Len(buffer[s])
      BY <3>1, LoadCases DEF Holds, Busy
    <3> QED
      BY <1>a, <1>d, <1>e, <3>2, <3>3, <3>4, LoadCases, LoadCasesNext
  <2>2. CASE r # s
    BY <1>1, <1>3, <2>2 DEF Take, TypeOK, Holds
  <2> QED
    BY <2>1, <2>2
<1>4. ASSUME buffer'[s] = <<>>, consumer'[s] \notin Busy PROVE Load(s)' <= Concurrency
  <2>1. ~Holds(s)' /\ Len(buffer'[s]) = 0
    BY <1>4 DEF Holds
  <2> QED
    BY <1>a, <1>e, <2>1, LoadCasesNext
<1>5. ASSUME NEW r \in Subs, ChannelEnds(r) PROVE Load(s)' <= Concurrency
  <2>1. CASE r = s
    BY <1>4, <1>5, <2>1 DEF ChannelEnds, TypeOK, Busy
  <2>2. CASE r # s
    BY <1>1, <1>5, <2>2 DEF ChannelEnds, TypeOK, Holds
  <2> QED
    BY <2>1, <2>2
<1>6. ASSUME NEW r \in Subs, NEW to, Settle(r, to)
      PROVE  answered[s] => answered'[s]
  BY <1>6 DEF Settle, TypeOK
<1>7. ASSUME NEW r \in Subs,
             Decode(r) \/ HandlerAcks(r) \/ HandlerNacks(r) \/ HandlerFails(r)
      PROVE  Load(s)' <= Concurrency
  <2>1. answered[s] => answered'[s]
    BY <1>6, <1>7 DEF Decode, HandlerAcks, HandlerNacks, HandlerFails
  <2>2. UNCHANGED buffer /\ (consumer'[s] \in Busy => consumer[s] \in Busy)
    BY <1>7 DEF Decode, HandlerAcks, HandlerNacks, HandlerFails, TypeOK, Busy
  <2> QED
    BY <1>1, <2>1, <2>2 DEF Holds
<1>8. ASSUME NEW r \in Subs,
             \/ SubscribeCalled(r) \/ Subscribe(r) \/ CheckLock(r) \/ CheckShutdown(r)
             \/ HandlerSucceeds(r)
      PROVE  Load(s)' <= Concurrency
  <2>1. UNCHANGED <<buffer, answered>> /\ (consumer'[s] \in Busy => consumer[s] \in Busy)
    BY <1>8 DEF SubscribeCalled, Subscribe, CheckLock, CheckShutdown, HandlerSucceeds,
       TypeOK, Busy
  <2> QED
    BY <1>1, <2>1 DEF Holds
<1>9. CASE Restart
  BY <1>4, <1>9 DEF Restart, Busy
<1>10. ASSUME UNCHANGED <<buffer, consumer, answered>> PROVE Load(s)' <= Concurrency
  BY <1>1, <1>10 DEF Holds
<1>11. \/ UNCHANGED <<buffer, consumer, answered>>
       \/ \E r \in Subs, m \in Messages : Deliver(r, m)
       \/ \E r \in Subs : \/ Take(r) \/ ChannelEnds(r)
                           \/ Decode(r) \/ HandlerAcks(r) \/ HandlerNacks(r) \/ HandlerFails(r)
                           \/ SubscribeCalled(r) \/ Subscribe(r) \/ CheckLock(r)
                           \/ CheckShutdown(r) \/ HandlerSucceeds(r)
       \/ Restart
  BY DEF Next, Consumer, HandlerReturns, Broker, vars, PublishLock, PublishSend,
     ShutdownCalled, ShutdownRuns, Expire, OthersPublish, ConnectionLost
<1> QED
  BY <1>2, <1>3, <1>5, <1>7, <1>8, <1>9, <1>10, <1>11

(* Without AutoAck a subscription never holds more deliveries that are not *)
(* settled than its prefetch count, in its buffer and in the handler       *)
(* together: however slow the handler is, and also when the channel has    *)
(* gone and no answer reaches the broker any more.                         *)
THEOREM PrefetchBounds ==
  Spec => [](~AutoAck => \A s \in Subs : Load(s) <= Concurrency)
<1> DEFINE Lights == \A s \in Subs : Light(s)
<1>1. Init => Lights
  <2> SUFFICES ASSUME Init, NEW s \in Subs PROVE Light(s)
    OBVIOUS
  <2>1. Load(s) = 0 /\ Concurrency \in Nat
    BY ProgramsAssumption DEF Init, Load, Holds, Busy, Concurrency
  <2> QED
    BY <2>1, InitUnackedFinite DEF Light
<1>2. TypeOK /\ Hands /\ Lights /\ [Next]_vars => Lights'
  BY LightStep
<1>3. Lights => (~AutoAck => \A s \in Subs : Load(s) <= Concurrency)
  BY DEF Light
<1> HIDE DEF Lights
<1> QED
  BY <1>1, <1>2, <1>3, TypeCorrect, HandsHold, PTL DEF Spec

-----------------------------------------------------------------------------
(* What is left of a consumer when Shutdown has run. *)

(* The steps a consumer and its handler can still take. *)
StepsLeft(s) ==
  CASE consumer[s] = "decoding" -> 5
    [] consumer[s] = "handling" -> 4
    [] consumer[s] = "idle"     -> 3
    [] consumer[s] = "checking" -> 2
    [] consumer[s] = "reading"  -> 1
    [] OTHER                    -> 0

CountsDown(s) ==
  /\ StepsLeft(s)' <= StepsLeft(s)
  /\ Consumer(s) \/ HandlerReturns(s) => StepsLeft(s)' < StepsLeft(s)

LEMMA CountsDownStep ==
  ASSUME TypeOK, Closing, [Next]_vars, shutdown, shutdown', NEW s \in Subs
  PROVE  CountsDown(s)
<1> USE DEF linkVars, brokerVars, workVars
<1> DEFINE Own == Consumer(s) \/ HandlerReturns(s)
<1>1. ASSUME consumer'[s] = consumer[s] PROVE StepsLeft(s)' <= StepsLeft(s)
  BY <1>1 DEF StepsLeft
<1>2. ASSUME Own PROVE StepsLeft(s)' < StepsLeft(s)
  <2>1. CASE Take(s)
    BY <2>1 DEF Take, StepsLeft, TypeOK
  <2>2. CASE ChannelEnds(s)
    BY <2>2 DEF ChannelEnds, StepsLeft, TypeOK
  <2>3. CASE CheckLock(s)
    BY <2>3 DEF CheckLock, StepsLeft, TypeOK
  <2>4. CASE CheckShutdown(s)
    BY <2>4 DEF CheckShutdown, StepsLeft, TypeOK
  <2>5. CASE Decode(s)
    <3>1. consumer[s] = "decoding" /\ consumer'[s] \in {"idle", "handling"}
      BY <2>5 DEF Decode, TypeOK
    <3> QED
      BY <3>1 DEF StepsLeft
  <2>6. CASE HandlerReturns(s)
    <3>1. consumer[s] = "handling" /\ consumer'[s] = "idle"
      BY <2>6 DEF HandlerReturns, HandlerFails, HandlerSucceeds, TypeOK
    <3> QED
      BY <3>1 DEF StepsLeft
  <2> QED
    BY <1>2, <2>1, <2>2, <2>3, <2>4, <2>5, <2>6 DEF Consumer
<1>3. StepsLeft(s) \in 0..5 /\ StepsLeft(s)' \in 0..5
  BY DEF StepsLeft
<1>4. ASSUME NEW r \in Subs, r # s, Consumer(r) \/ HandlerReturns(r)
      PROVE  consumer'[s] = consumer[s]
  BY <1>4 DEF Consumer, HandlerReturns, Take, ChannelEnds, CheckLock, CheckShutdown, Decode,
     HandlerFails, HandlerSucceeds, TypeOK
<1>5. ASSUME NEW r \in Subs, SubscribeCalled(r) \/ Subscribe(r)
      PROVE  StepsLeft(s)' <= StepsLeft(s)
  <2>1. CASE r = s
    <3>1. consumer'[s] \in {"locking", "failed"}
      BY <1>5, <2>1 DEF SubscribeCalled, Subscribe, TypeOK
    <3>2. StepsLeft(s)' = 0
      BY <3>1 DEF StepsLeft
    <3> QED
      BY <1>3, <3>2
  <2>2. CASE r # s
    <3>1. consumer'[s] = consumer[s]
      BY <1>5, <2>2 DEF SubscribeCalled, Subscribe, TypeOK
    <3> QED
      BY <1>1, <3>1
  <2> QED
    BY <2>1, <2>2
<1>6. ~Restart
  BY DEF Restart
<1>7. \/ consumer'[s] = consumer[s]
      \/ \E r \in Subs : \/ Consumer(r) \/ HandlerReturns(r)
                          \/ SubscribeCalled(r) \/ Subscribe(r)
  BY <1>6 DEF Next, Broker, vars, Deliver, Expire, OthersPublish, ConnectionLost,
     PublishLock, PublishSend, HandlerAcks, HandlerNacks, ShutdownCalled, ShutdownRuns
<1>8. StepsLeft(s)' <= StepsLeft(s)
  <2>1. CASE Own
    BY <1>2, <1>3, <2>1
  <2>2. CASE ~Own
    BY <1>1, <1>4, <1>5, <1>7, <2>2
  <2> QED
    BY <2>1, <2>2
<1> QED
  BY <1>2, <1>8 DEF CountsDown

(* Once Shutdown has set r.shutdown, a consumer and its handler take at    *)
(* most five steps more in this life of the process, whatever it has in    *)
(* its buffer: it is past its look at the flag with one delivery at most,  *)
(* and no delivery that it takes later reaches the handler.                *)
THEOREM ConsumersCountDown ==
  Spec => [][shutdown /\ shutdown' => \A s \in Subs : CountsDown(s)]_vars
<1>1. TypeOK /\ Closing /\ [Next]_vars =>
        [shutdown /\ shutdown' => \A s \in Subs : CountsDown(s)]_vars
  BY CountsDownStep
<1> QED
  BY <1>1, TypeCorrect, ClosingHolds, PTL DEF Spec

(* A consumer that runs has a channel. *)
Attached ==
  \A s \in Subs :
    consumer[s] \in {"idle", "checking", "reading", "decoding", "handling"} => chan[s] # "none"

LEMMA AttachedStep == TypeOK /\ Attached /\ [Next]_vars => Attached'
<1> SUFFICES ASSUME TypeOK, Attached, [Next]_vars PROVE Attached'
  OBVIOUS
<1> USE DEF linkVars, brokerVars, workVars
<1> DEFINE Running == {"idle", "checking", "reading", "decoding", "handling"}
<1>1. ASSUME \A s \in Subs : /\ consumer'[s] \in Running => consumer[s] \in Running
                             /\ chan'[s] = "none" => chan[s] = "none"
      PROVE  Attached'
  <2> SUFFICES ASSUME NEW s \in Subs, consumer'[s] \in Running PROVE chan'[s] # "none"
    BY DEF Attached
  <2>1. consumer[s] \in Running
    BY <1>1
  <2> QED
    BY <1>1, <2>1 DEF Attached
<1>2. ASSUME NEW s \in Subs, Subscribe(s) PROVE Attached'
  BY <1>2 DEF Subscribe, Attached, TypeOK
<1>3. CASE Restart
  BY <1>3 DEF Restart, Attached
<1>4. ASSUME ConnectionLost \/ (\E t \in Stoppers : ShutdownRuns(t)) PROVE Attached'
  <2>1. UNCHANGED consumer /\ \A s \in Subs : chan'[s] = "none" => chan[s] = "none"
    BY <1>4 DEF ConnectionLost, ShutdownRuns, Cut, TypeOK
  <2> QED
    BY <1>1, <2>1
<1>5. ASSUME NEW s \in Subs,
             Decode(s) \/ HandlerAcks(s) \/ HandlerNacks(s) \/ HandlerFails(s)
      PROVE  Attached'
  <2>1. UNCHANGED chan \/ chan' = [chan EXCEPT ![s] = "broken"]
    BY <1>5 DEF Decode, HandlerAcks, HandlerNacks, HandlerFails, Settle
  <2>2. \A r \in Subs : chan'[r] = "none" => chan[r] = "none"
    BY <2>1 DEF TypeOK
  <2>3. \A r \in Subs : consumer'[r] \in Running => consumer[r] \in Running
    BY <1>5 DEF Decode, HandlerAcks, HandlerNacks, HandlerFails, TypeOK
  <2> QED
    BY <1>1, <2>2, <2>3
<1>6. ASSUME NEW s \in Subs,
             \/ SubscribeCalled(s) \/ Take(s) \/ ChannelEnds(s) \/ CheckLock(s)
             \/ CheckShutdown(s) \/ HandlerSucceeds(s)
      PROVE  Attached'
  BY <1>1, <1>6 DEF SubscribeCalled, Take, ChannelEnds, CheckLock, CheckShutdown,
     HandlerSucceeds, TypeOK
<1>7. UNCHANGED <<consumer, chan>> => Attached'
  BY <1>1
<1>8. \/ UNCHANGED <<consumer, chan>>
      \/ \E s \in Subs :
           \/ Subscribe(s) \/ SubscribeCalled(s) \/ Take(s) \/ ChannelEnds(s) \/ CheckLock(s)
           \/ CheckShutdown(s) \/ HandlerSucceeds(s)
           \/ Decode(s) \/ HandlerAcks(s) \/ HandlerNacks(s) \/ HandlerFails(s)
      \/ ConnectionLost \/ (\E t \in Stoppers : ShutdownRuns(t)) \/ Restart
  BY DEF Next, Consumer, HandlerReturns, Broker, vars, Deliver, Expire, OthersPublish,
     PublishLock, PublishSend, ShutdownCalled
<1> QED
  BY <1>2, <1>3, <1>4, <1>5, <1>6, <1>7, <1>8

(* After Shutdown no consumer sleeps on deliveries that cannot come: it    *)
(* has one to take, or its channel has ended and takes it out of the loop, *)
(* also when its channel was no longer in r.subscriptions.                 *)
THEOREM NoConsumerSleeps ==
  Spec => [](shutdown => \A s \in Subs :
               consumer[s] = "idle" => buffer[s] # <<>> \/ chan[s] \in {"broken", "closed"})
<1>1. Init => Attached
  BY DEF Init, Attached
<1>2. TypeOK /\ Attached /\ [Next]_vars => Attached'
  BY AttachedStep
<1>3. TypeOK /\ Closing /\ Attached =>
        (shutdown => \A s \in Subs :
           consumer[s] = "idle" => buffer[s] # <<>> \/ chan[s] \in {"broken", "closed"})
  BY DEF TypeOK, Closing, Attached
<1> QED
  BY <1>1, <1>2, <1>3, TypeCorrect, ClosingHolds, PTL DEF Spec
=============================================================================
