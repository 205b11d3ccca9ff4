---------------------------- MODULE Google2Proofs ----------------------------
(***************************************************************************)
(* Proofs about Google2 for any calls of Subscribe and Publish, any        *)
(* options, any concurrency and any finite set of messages.                *)
(*                                                                         *)
(* The argument: a call that has begun is one of the program's             *)
(* (BegunIsCalled); callbacks run only inside a Receive, and the Receives  *)
(* of one name do not overlap (OneReceive); a semaphore's tokens are with  *)
(* the handlers that run (TokensOut); and what goes with a deleted         *)
(* subscription goes when the one call that owns its name is done          *)
(* (DeletedIsOver, GoneIsOver), so that no callback can still answer it.   *)
(* After Shutdown, what a call of Subscribe can still do counts down       *)
(* (StepsLeft, RunsOut), and it waits for nothing but its handlers         *)
(* (GoesOn).                                                               *)
(***************************************************************************)
EXTENDS Google2, FiniteSetTheorems, TLAPS

Ended(n) ==
  \E s \in Subs : s \in program.calls /\ Name(s) = n /\ opts[s].unique /\ at[s] = "done"

BegunIsCalled == \A c \in Callers : at[c] # "none" => c \in program.calls

InReceive(s) == at[s] \in {"receiving", "draining"}

OneReceive ==
  \A s \in Subs : /\ Active(s) # {} => InReceive(s)
                  /\ InReceive(s) => ~InProgress(s)

TokensOut == \A s \in Subs : sem[s] + Cardinality(Running(s)) = Concurrency

DeletedIsOver == \A n \in Names : subscription[n] = "deleted" => Ended(n)

GoneIsOver == \A k \in Keys : server[k] = "gone" => Ended(k[1])

(* Nothing goes for good, and nobody is done with anything. *)
Quiet ==
  /\ \A k \in Keys :
       \/ server'[k] = server[k]
       \/ server[k] \in {"none", "queued", "leased"} /\ server'[k] \in {"none", "queued", "leased"}
  /\ \A n \in Names : subscription'[n] = "deleted" => subscription[n] = "deleted"
  /\ consent' = consent

(* The handler of a callback is done with its message, and may ack it. *)
Settles(d) ==
  /\ phase[d] = "running"
  /\ server' \in {server, [server EXCEPT ![Key(d)] = "acked"]}
  /\ subscription' = subscription
  /\ consent' = consent \cup {Key(d)}

Deletes(s) ==
  /\ opts[s].unique /\ stopper # "idle"
  /\ Finish(s)
  /\ Delete(Name(s))

LEMMA OptsType ==
  ASSUME TypeOK, NEW s \in Subs
  PROVE  Name(s) \in Names /\ opts[s].unique \in BOOLEAN /\ opts[s].autoAck \in BOOLEAN
  BY ProgramsAssumption DEF TypeOK, Name, opts, Options

LEMMA DeliveryType ==
  ASSUME TypeOK, NEW d \in Deliveries PROVE Call(d) \in Subs /\ d[2] \in Messages /\ Key(d) \in Keys
<1>1. Call(d) \in Subs /\ d[2] \in Messages
  BY DEF Deliveries, Call
<1> QED
  BY <1>1, OptsType DEF Key, Keys, Call

LEMMA RunningFinite == \A s \in Subs : IsFiniteSet(Running(s))
<1> SUFFICES ASSUME NEW s \in Subs PROVE IsFiniteSet(Running(s))
  OBVIOUS
<1>1. IsFiniteSet(Messages \X (1..MaxDeliveries[s]))
  <2>1. MaxDeliveries[s] \in Nat
    BY DeliveriesAssumption
  <2>2. IsFiniteSet(1..MaxDeliveries[s])
    BY <2>1, FS_Interval
  <2> QED
    BY <2>2, DeliveriesAssumption, FS_Product
<1> DEFINE f == [d \in Running(s) |-> <<d[2], d[3]>>]
<1>2. \A d \in Running(s) : d \in {s} \X Messages \X (1..MaxDeliveries[s])
  BY DEF Running, Call, Deliveries
<1>3. f \in Injection(Running(s), Messages \X (1..MaxDeliveries[s]))
  BY <1>2 DEF Injection, IsInjective
<1> QED
  BY <1>1, <1>3, FS_Injection

(* What moving one delivery does to the callbacks that run. *)
LEMMA Moved ==
  ASSUME TypeOK, NEW d \in Deliveries, NEW p, phase' = [phase EXCEPT ![d] = p]
  PROVE  \A s \in Subs :
           /\ Running(s)' = IF s = Call(d) /\ p = "running" THEN Running(s) \cup {d}
                            ELSE Running(s) \ {d}
           /\ Active(s)' = IF s = Call(d) /\ p \in {"called", "running"} THEN Active(s) \cup {d}
                           ELSE Active(s) \ {d}
<1>1. \A e \in Deliveries : phase'[e] = IF e = d THEN p ELSE phase[e]
  BY DEF TypeOK
<1> QED
  BY <1>1 DEF Running, Active

(* A handler that returns gives back a token that is out. *)
LEMMA GivenBack ==
  ASSUME TypeOK, TokensOut, NEW d \in Deliveries, Leave(d)
  PROVE  sem' \in [Subs -> 0..Concurrency]
<1>1. Call(d) \in Subs /\ d \in Running(Call(d))
  BY DeliveryType DEF Leave, Running
<1>2. Cardinality(Running(Call(d))) \in Nat \ {0}
  BY <1>1, RunningFinite, FS_EmptySet, FS_CardinalityType
<1>3. sem[Call(d)] + 1 \in 0..Concurrency
  BY <1>1, <1>2, ConcurrencyAssumption DEF TokensOut, TypeOK
<1> QED
  BY <1>1, <1>3 DEF Leave, TypeOK

LEMMA InitType == Init => TypeOK
<1> SUFFICES ASSUME Init PROVE TypeOK
  OBVIOUS
<1>1. \A c \in Callers : at[c] = "none"
  BY DEF Init
<1>2. Concurrency \in 0..Concurrency
  BY ConcurrencyAssumption
<1>3. sem \in [Subs -> 0..Concurrency] /\ phase \in [Deliveries -> Phases]
  BY <1>2 DEF Init, Phases
<1> QED
  BY <1>1, <1>3 DEF Init, TypeOK, Callers

LEMMA ProcessEndsType ==
  ASSUME TypeOK, NEW how \in {"killed", "panicked"}, ProcessEnds(how) PROVE TypeOK'
<1>1. phase' \in [Deliveries -> Phases]
  BY DEF ProcessEnds, Phases
<1>2. \A c \in Callers : at'[c] \in {"none", "done"} /\ (c \in Pubs => at'[c] = "none")
  BY CallersAssumption DEF ProcessEnds
<1>3. /\ at' \in [Callers -> {"none", "done"}]
  BY <1>2 DEF ProcessEnds
<1>4. sem' \in [Subs -> 0..Concurrency]
  BY ConcurrencyAssumption DEF ProcessEnds
<1> QED
  BY <1>1, <1>2, <1>3, <1>4 DEF ProcessEnds, TypeOK, service, Callers

(* Answers and arrivals change only the service's messages. *)
LEMMA ServerType ==
  ASSUME TypeOK
  PROVE  /\ \A m : Arrive(m) => server' \in [Keys -> {"none", "queued", "leased", "acked", "gone"}]
         /\ \A d \in Deliveries : Ack(d) \/ Nack(d) =>
              server' \in [Keys -> {"none", "queued", "leased", "acked", "gone"}]
<1>1. ASSUME NEW m, Arrive(m)
      PROVE  server' \in [Keys -> {"none", "queued", "leased", "acked", "gone"}]
  BY <1>1 DEF Arrive, TypeOK
<1>2. ASSUME NEW d \in Deliveries, Ack(d) \/ Nack(d)
      PROVE  server' \in [Keys -> {"none", "queued", "leased", "acked", "gone"}]
  BY <1>2 DEF Ack, Nack, TypeOK
<1> QED
  BY <1>1, <1>2

LEMMA TypeStep == TypeOK /\ TokensOut /\ [Next]_vars => TypeOK'
<1> SUFFICES ASSUME TypeOK, TokensOut, [Next]_vars PROVE TypeOK'
  OBVIOUS
<1> USE CallersAssumption DEF service, callbacks, stopping, Go, Callers
<1>1. CASE UNCHANGED vars
  BY <1>1 DEF vars, TypeOK
<1>2. ASSUME NEW c \in Callers, Begin(c) \/ GetTopic(c) \/ CreateTopic(c) PROVE TypeOK'
  BY <1>2 DEF Begin, GetTopic, CreateTopic, EnsuredTopic, TypeOK
<1>3. ASSUME NEW p \in Pubs, GetPublisher(p) \/ PublisherPublish(p) \/ PublishFails(p) PROVE TypeOK'
  BY <1>3 DEF GetPublisher, PublisherPublish, PublishFails, TypeOK
<1>4. ASSUME NEW p \in Pubs, Sent(p) PROVE TypeOK'
  BY <1>4, ServerType DEF Sent, TypeOK
<1>5. ASSUME NEW s \in Subs, GetSubscription(s) \/ CreateSubscription(s) PROVE TypeOK'
  BY <1>5, OptsType DEF GetSubscription, CreateSubscription, TypeOK
<1>6. ASSUME NEW s \in Subs, SetupPanics(s) PROVE TypeOK'
  BY <1>6, ProcessEndsType DEF SetupPanics
<1>7. ASSUME NEW s \in Subs, Register(s) PROVE TypeOK'
  BY <1>7, OptsType DEF Register, TypeOK
<1>8. ASSUME NEW s \in Subs, Receive(s) \/ ReceiveStops(s) \/ ReceiveFails(s) \/ Drained(s)
      PROVE  TypeOK'
  BY <1>8 DEF Receive, ReceiveStops, ReceiveFails, Drained, TypeOK
<1>9. ASSUME NEW s \in Subs, Finish(s) PROVE TypeOK'
  <2>1. /\ subscription' \in [Names -> {"none", "exists", "deleted"}]
        /\ server' \in [Keys -> {"none", "queued", "leased", "acked", "gone"}]
    BY <1>9, OptsType DEF Finish, Delete, TypeOK
  <2> QED
    BY <1>9, <2>1 DEF Finish, TypeOK
<1>10. ASSUME NEW d \in Deliveries, Deliver(d) PROVE TypeOK'
  BY <1>10, DeliveryType DEF Deliver, TypeOK, Phases
<1>11. ASSUME NEW d \in Deliveries, Acquire(d) PROVE TypeOK'
  <2>1. sem' \in [Subs -> 0..Concurrency]
    BY <1>11, DeliveryType, ConcurrencyAssumption DEF Acquire, TypeOK
  <2> QED
    BY <1>11, <2>1 DEF Acquire, TypeOK, Phases
<1>12. ASSUME NEW d \in Deliveries, AcquireFails(d) PROVE TypeOK'
  BY <1>12, ServerType DEF AcquireFails, TypeOK, Phases
<1>13. ASSUME NEW d \in Deliveries, HandlerAcks(d) \/ HandlerNacks(d) PROVE TypeOK'
  BY <1>13, ServerType, DeliveryType DEF HandlerAcks, HandlerNacks, TypeOK
<1>14. ASSUME NEW d \in Deliveries, HandlerSucceeds(d) \/ HandlerFails(d) PROVE TypeOK'
  <2>1. Leave(d) /\ (Ack(d) \/ Nack(d) \/ UNCHANGED server)
        /\ (UNCHANGED consent \/ consent' = consent \cup {Key(d)})
    BY <1>14 DEF HandlerSucceeds, HandlerFails
  <2>2. /\ server' \in [Keys -> {"none", "queued", "leased", "acked", "gone"}]
        /\ consent' \in SUBSET Keys
        /\ sem' \in [Subs -> 0..Concurrency]
        /\ phase' \in [Deliveries -> Phases]
    BY <2>1, ServerType, DeliveryType, GivenBack DEF TypeOK, Leave, Phases
  <2> QED
    BY <2>1, <2>2 DEF Leave, TypeOK
<1>15. ASSUME (\E s \in Subs : Cancel(s)) \/ Shutdown \/ StopPublishers \/ PublishersStopped
              \/ CloseClient
       PROVE  TypeOK'
  <2>1. CASE Shutdown
    <3>1. copied' \subseteq Subs
      BY <2>1 DEF Shutdown, TypeOK
    <3> QED
      BY <2>1, <3>1 DEF Shutdown, TypeOK
  <2>2. ASSUME NEW s \in Subs, Cancel(s) PROVE TypeOK'
    BY <2>2 DEF Cancel, TypeOK
  <2>3. CASE StopPublishers \/ PublishersStopped \/ CloseClient
    BY <2>3 DEF StopPublishers, PublishersStopped, CloseClient, TypeOK
  <2> QED
    BY <1>15, <2>1, <2>2, <2>3
<1>16. ASSUME NEW m \in Messages, OthersPublish(m) PROVE TypeOK'
  BY <1>16, ServerType DEF OthersPublish, TypeOK
<1>17. ASSUME NEW k \in Keys, LeaseExpires(k) PROVE TypeOK'
  BY <1>17 DEF LeaseExpires, TypeOK
<1>18. CASE Kill
  BY <1>18, ProcessEndsType DEF Kill
<1>19. CASE Restart
  BY <1>19 DEF Restart, TypeOK
<1> QED
  BY <1>1, <1>2, <1>3, <1>4, <1>5, <1>6, <1>7, <1>8, <1>9, <1>10, <1>11, <1>12, <1>13, <1>14,
     <1>15, <1>16, <1>17, <1>18, <1>19
  DEF Next, Process, Publish, Subscribe, EnsureTopic, Callback, Handler, Stopping

LEMMA EndsNothingRuns ==
  ASSUME TypeOK, NEW how, ProcessEnds(how)
  PROVE  \A s \in Subs : Active(s)' = {} /\ Running(s)' = {}
  BY DEF ProcessEnds, Active, Running

LEMMA TokensStep == TypeOK /\ TokensOut /\ [Next]_vars => TokensOut'
<1> SUFFICES ASSUME TypeOK, TokensOut, [Next]_vars PROVE TokensOut'
  OBVIOUS
<1> USE DEF callbacks
<1>1. CASE UNCHANGED <<phase, sem>>
  BY <1>1 DEF TokensOut, Running
<1>2. ASSUME NEW d \in Deliveries, NEW p, phase' = [phase EXCEPT ![d] = p], UNCHANGED sem,
             p # "running", phase[d] # "running"
      PROVE  TokensOut'
  <2>1. \A s \in Subs : Running(s)' = Running(s)
    BY <1>2, Moved DEF Running
  <2> QED
    BY <1>2, <2>1 DEF TokensOut
<1>3. ASSUME NEW d \in Deliveries, Deliver(d) \/ AcquireFails(d) PROVE TokensOut'
  BY <1>2, <1>3 DEF Deliver, AcquireFails
<1>4. ASSUME NEW d \in Deliveries, Acquire(d) PROVE TokensOut'
  <2> SUFFICES ASSUME NEW s \in Subs PROVE sem'[s] + Cardinality(Running(s)') = Concurrency
    BY DEF TokensOut
  <2>1. CASE s = Call(d)
    <3>1. Running(s)' = Running(s) \cup {d} /\ d \notin Running(s) /\ sem'[s] = sem[s] - 1
      BY <1>4, <2>1, Moved DEF Acquire, Running, TypeOK
    <3>2. Cardinality(Running(s) \cup {d}) = Cardinality(Running(s)) + 1
          /\ Cardinality(Running(s)) \in Nat
      BY <3>1, RunningFinite, FS_AddElement, FS_CardinalityType
    <3> QED
      BY <3>1, <3>2, ConcurrencyAssumption DEF TokensOut, TypeOK
  <2>2. CASE s # Call(d)
    <3>1. Running(s)' = Running(s) /\ sem'[s] = sem[s]
      BY <1>4, <2>2, Moved DEF Acquire, Running, TypeOK
    <3> QED
      BY <3>1 DEF TokensOut
  <2> QED
    BY <2>1, <2>2
<1>5. ASSUME NEW d \in Deliveries, Leave(d) PROVE TokensOut'
  <2> SUFFICES ASSUME NEW s \in Subs PROVE sem'[s] + Cardinality(Running(s)') = Concurrency
    BY DEF TokensOut
  <2>1. CASE s = Call(d)
    <3>1. Running(s)' = Running(s) \ {d} /\ d \in Running(s) /\ sem'[s] = sem[s] + 1
      BY <1>5, <2>1, Moved DEF Leave, Running, TypeOK
    <3>2. Cardinality(Running(s) \ {d}) = Cardinality(Running(s)) - 1
          /\ Cardinality(Running(s)) \in Nat
      BY <3>1, RunningFinite, FS_RemoveElement, FS_CardinalityType
    <3> QED
      BY <3>1, <3>2, ConcurrencyAssumption DEF TokensOut, TypeOK
  <2>2. CASE s # Call(d)
    <3>1. Running(s)' = Running(s) /\ sem'[s] = sem[s]
      BY <1>5, <2>2, Moved DEF Leave, Running, TypeOK
    <3> QED
      BY <3>1 DEF TokensOut
  <2> QED
    BY <2>1, <2>2
<1>6. ASSUME NEW how, ProcessEnds(how) PROVE TokensOut'
  <2>1. \A s \in Subs : Cardinality(Running(s)') = 0 /\ sem'[s] = Concurrency
    BY <1>6, EndsNothingRuns, FS_EmptySet DEF ProcessEnds
  <2> QED
    BY <2>1, ConcurrencyAssumption DEF TokensOut
<1>7. \/ UNCHANGED <<phase, sem>>
      \/ \E d \in Deliveries : Deliver(d) \/ AcquireFails(d) \/ Acquire(d) \/ Leave(d)
      \/ \E how : ProcessEnds(how)
  BY DEF Next, Process, Publish, Subscribe, EnsureTopic, Callback, Handler, Stopping, vars,
     Begin, GetTopic, CreateTopic, GetPublisher, PublisherPublish, PublishFails, Sent,
     GetSubscription, CreateSubscription, SetupPanics, Register, Receive, ReceiveStops,
     ReceiveFails, Drained, Finish, HandlerAcks, HandlerNacks, HandlerSucceeds, HandlerFails,
     Cancel, Shutdown, StopPublishers, PublishersStopped, CloseClient, OthersPublish,
     LeaseExpires, Kill, Restart
<1> QED
  BY <1>1, <1>3, <1>4, <1>5, <1>6, <1>7

LEMMA BegunStep == TypeOK /\ BegunIsCalled /\ [Next]_vars => BegunIsCalled' /\ program' = program
<1> SUFFICES ASSUME TypeOK, BegunIsCalled, [Next]_vars PROVE BegunIsCalled' /\ program' = program
  OBVIOUS
<1> USE DEF Callers
<1>1. CASE UNCHANGED <<program, at>>
  BY <1>1 DEF BegunIsCalled
<1>2. ASSUME NEW c \in Callers, NEW place, Go(c, place), c \in program.calls, UNCHANGED program
      PROVE  BegunIsCalled' /\ program' = program
  BY <1>2 DEF BegunIsCalled, Go, TypeOK
<1>3. ASSUME NEW how, ProcessEnds(how) PROVE BegunIsCalled' /\ program' = program
  BY <1>3 DEF ProcessEnds, BegunIsCalled
<1>4. ASSUME NEW c \in Callers, Begin(c) \/ GetTopic(c) \/ CreateTopic(c)
      PROVE  BegunIsCalled' /\ program' = program
  BY <1>2, <1>4 DEF Begin, GetTopic, CreateTopic, BegunIsCalled
<1>5. ASSUME NEW p \in Pubs,
             GetPublisher(p) \/ PublisherPublish(p) \/ Sent(p) \/ PublishFails(p)
      PROVE  BegunIsCalled' /\ program' = program
  BY <1>2, <1>5 DEF GetPublisher, PublisherPublish, Sent, PublishFails, BegunIsCalled
<1>6. ASSUME NEW s \in Subs, \/ GetSubscription(s) \/ CreateSubscription(s) \/ Register(s)
                             \/ Receive(s) \/ ReceiveStops(s) \/ ReceiveFails(s)
                             \/ Drained(s) \/ Finish(s)
      PROVE  BegunIsCalled' /\ program' = program
  BY <1>2, <1>6 DEF GetSubscription, CreateSubscription, Register, Receive, ReceiveStops,
     ReceiveFails, Drained, Finish, BegunIsCalled
<1>7. \/ UNCHANGED <<program, at>>
      \/ \E c \in Callers : Begin(c) \/ GetTopic(c) \/ CreateTopic(c)
      \/ \E p \in Pubs : GetPublisher(p) \/ PublisherPublish(p) \/ Sent(p) \/ PublishFails(p)
      \/ \E s \in Subs : \/ GetSubscription(s) \/ CreateSubscription(s) \/ Register(s)
                         \/ Receive(s) \/ ReceiveStops(s) \/ ReceiveFails(s)
                         \/ Drained(s) \/ Finish(s)
      \/ \E how : ProcessEnds(how)
  BY DEF Next, Process, Publish, Subscribe, EnsureTopic, Callback, Handler, Stopping, vars,
     SetupPanics, Deliver, Acquire, AcquireFails, HandlerAcks, HandlerNacks, HandlerSucceeds,
     HandlerFails, Leave, Cancel, Shutdown, StopPublishers, PublishersStopped, CloseClient,
     OthersPublish, LeaseExpires, Kill, Restart
<1> QED
  BY <1>1, <1>3, <1>4, <1>5, <1>6, <1>7

(* Only Receive takes a call into a Receive, and only Drained out of one.  *)
LEMMA ReceiveStep == TypeOK /\ OneReceive /\ [Next]_vars => OneReceive'
<1> SUFFICES ASSUME TypeOK, OneReceive, [Next]_vars PROVE OneReceive'
  OBVIOUS
<1> USE DEF Callers, callbacks
<1>1. CASE UNCHANGED <<program, at, phase>>
  BY <1>1 DEF OneReceive, InReceive, InProgress, Active, Name, opts
<1>2. ASSUME NEW c \in Callers, NEW place, Go(c, place), UNCHANGED <<program, phase>>,
             at[c] \notin {"receiving", "draining"}, place \notin {"receiving", "draining"}
      PROVE  OneReceive'
  <2>1. \A s \in Subs : /\ InReceive(s)' <=> InReceive(s)
                        /\ Active(s)' = Active(s) /\ Name(s)' = Name(s)
    BY <1>2 DEF InReceive, Active, Name, opts, Go, TypeOK
  <2>2. \A s \in Subs : InProgress(s)' <=> InProgress(s)
    BY <2>1 DEF InProgress, InReceive
  <2> QED
    BY <2>1, <2>2 DEF OneReceive
<1>3. ASSUME NEW c \in Callers, Begin(c) \/ GetTopic(c) \/ CreateTopic(c) PROVE OneReceive'
  BY <1>2, <1>3 DEF Begin, GetTopic, CreateTopic, EnsuredTopic
<1>4. ASSUME NEW p \in Pubs,
             GetPublisher(p) \/ PublisherPublish(p) \/ Sent(p) \/ PublishFails(p)
      PROVE  OneReceive'
  BY <1>2, <1>4 DEF GetPublisher, PublisherPublish, Sent, PublishFails
<1>5. ASSUME NEW s \in Subs,
             GetSubscription(s) \/ CreateSubscription(s) \/ Register(s) \/ Finish(s)
      PROVE  OneReceive'
  BY <1>2, <1>5 DEF GetSubscription, CreateSubscription, Register, Finish
<1>6. ASSUME NEW s \in Subs, Receive(s) PROVE OneReceive'
  <2>1. CASE InProgress(s)
    BY <1>2, <1>6, <2>1 DEF Receive
  <2>2. CASE ~InProgress(s)
    <3>1. at' = [at EXCEPT ![s] = "receiving"] /\ UNCHANGED <<program, phase>>
      BY <1>6, <2>2 DEF Receive, Go
    <3>2. \A t \in Subs : /\ InReceive(t)' <=> InReceive(t) \/ t = s
                          /\ Active(t)' = Active(t) /\ Name(t)' = Name(t)
      BY <3>1 DEF InReceive, Active, Name, opts, TypeOK
    <3> QED
      BY <2>2, <3>2 DEF OneReceive, InProgress, InReceive
  <2> QED
    BY <2>1, <2>2
<1>7. ASSUME NEW s \in Subs, ReceiveStops(s) \/ ReceiveFails(s) PROVE OneReceive'
  <2>1. \A t \in Subs : /\ InReceive(t)' <=> InReceive(t)
                        /\ Active(t)' = Active(t) /\ Name(t)' = Name(t)
    BY <1>7 DEF ReceiveStops, ReceiveFails, InReceive, Active, Name, opts, Go, TypeOK
  <2> QED
    BY <2>1 DEF OneReceive, InProgress, InReceive
<1>8. ASSUME NEW s \in Subs, Drained(s) PROVE OneReceive'
  <2>1. \A t \in Subs : /\ InReceive(t)' <=> InReceive(t) /\ t # s
                        /\ Active(t)' = Active(t) /\ Name(t)' = Name(t)
    BY <1>8 DEF Drained, InReceive, Active, Name, opts, Go, TypeOK
  <2>2. Active(s) = {}
    BY <1>8 DEF Drained
  <2> QED
    BY <2>1, <2>2 DEF OneReceive, InProgress, InReceive
<1>9. ASSUME NEW d \in Deliveries, NEW p, phase' = [phase EXCEPT ![d] = p],
             UNCHANGED <<program, at>>, p \in {"called", "running"} => InReceive(Call(d))
      PROVE  OneReceive'
  <2>1. ASSUME NEW s \in Subs, Active(s)' # {} PROVE InReceive(s)
    <3>1. Active(s)' = IF s = Call(d) /\ p \in {"called", "running"} THEN Active(s) \cup {d}
                       ELSE Active(s) \ {d}
      BY <1>9, Moved
    <3> QED
      BY <1>9, <2>1, <3>1 DEF OneReceive
  <2>2. \A s \in Subs : InReceive(s)' = InReceive(s) /\ InProgress(s)' = InProgress(s)
    BY <1>9 DEF InReceive, InProgress, Name, opts
  <2> QED
    BY <2>1, <2>2 DEF OneReceive
<1>10. ASSUME NEW d \in Deliveries, Deliver(d) \/ AcquireFails(d) \/ Leave(d) PROVE OneReceive'
  BY <1>9, <1>10 DEF Deliver, AcquireFails, Leave, InReceive
<1>11. ASSUME NEW d \in Deliveries, Acquire(d) PROVE OneReceive'
  <2>1. InReceive(Call(d))
    BY <1>11, DeliveryType DEF Acquire, OneReceive, Active
  <2> QED
    BY <1>9, <1>11, <2>1 DEF Acquire
<1>12. ASSUME NEW how, ProcessEnds(how) PROVE OneReceive'
  <2>1. \A s \in Subs : ~InReceive(s)'
    BY <1>12 DEF ProcessEnds, InReceive
  <2> QED
    BY <1>12, <2>1, EndsNothingRuns DEF OneReceive
<1>13. \/ UNCHANGED <<program, at, phase>>
       \/ \E c \in Callers : Begin(c) \/ GetTopic(c) \/ CreateTopic(c)
       \/ \E p \in Pubs : GetPublisher(p) \/ PublisherPublish(p) \/ Sent(p) \/ PublishFails(p)
       \/ \E s \in Subs : \/ GetSubscription(s) \/ CreateSubscription(s) \/ Register(s)
                          \/ Finish(s) \/ Receive(s) \/ ReceiveStops(s) \/ ReceiveFails(s)
                          \/ Drained(s)
       \/ \E d \in Deliveries : Deliver(d) \/ AcquireFails(d) \/ Leave(d) \/ Acquire(d)
       \/ \E how : ProcessEnds(how)
  BY DEF Next, Process, Publish, Subscribe, EnsureTopic, Callback, Handler, Stopping, vars,
     SetupPanics, HandlerAcks, HandlerNacks, HandlerSucceeds, HandlerFails, Cancel, Shutdown,
     StopPublishers, PublishersStopped, CloseClient, OthersPublish, LeaseExpires, Kill, Restart
<1> QED
  BY <1>1, <1>3, <1>4, <1>5, <1>6, <1>7, <1>8, <1>10, <1>11, <1>12, <1>13

(* A call that is done stays done, also when the process ends, if its      *)
(* subscription is unique. *)
LEMMA EndedStays == TypeOK /\ [Next]_vars => \A n : Ended(n) => Ended(n)'
<1> SUFFICES ASSUME TypeOK, [Next]_vars, NEW s \in Subs, s \in program.calls, opts[s].unique,
                    at[s] = "done"
             PROVE  at'[s] = "done" /\ program' = program
  BY DEF Ended, Name, opts
<1> USE DEF Callers
<1>1. CASE UNCHANGED <<program, at>>
  BY <1>1
<1>2. ASSUME NEW c \in Callers, NEW place, Go(c, place), at[c] # "done", UNCHANGED program
      PROVE  at'[s] = "done" /\ program' = program
  BY <1>2 DEF Go, TypeOK
<1>3. ASSUME NEW how, ProcessEnds(how) PROVE at'[s] = "done" /\ program' = program
  BY <1>3 DEF ProcessEnds
<1>4. ASSUME NEW c \in Callers, Begin(c) \/ GetTopic(c) \/ CreateTopic(c)
      PROVE  at'[s] = "done" /\ program' = program
  BY <1>2, <1>4 DEF Begin, GetTopic, CreateTopic
<1>5. ASSUME NEW p \in Pubs,
             GetPublisher(p) \/ PublisherPublish(p) \/ Sent(p) \/ PublishFails(p)
      PROVE  at'[s] = "done" /\ program' = program
  BY <1>2, <1>5 DEF GetPublisher, PublisherPublish, Sent, PublishFails
<1>6. ASSUME NEW t \in Subs, \/ GetSubscription(t) \/ CreateSubscription(t) \/ Register(t)
                             \/ Receive(t) \/ ReceiveStops(t) \/ ReceiveFails(t)
                             \/ Drained(t) \/ Finish(t)
      PROVE  at'[s] = "done" /\ program' = program
  BY <1>2, <1>6 DEF GetSubscription, CreateSubscription, Register, Receive, ReceiveStops,
     ReceiveFails, Drained, Finish
<1>7. \/ UNCHANGED <<program, at>>
      \/ \E c \in Callers : Begin(c) \/ GetTopic(c) \/ CreateTopic(c)
      \/ \E p \in Pubs : GetPublisher(p) \/ PublisherPublish(p) \/ Sent(p) \/ PublishFails(p)
      \/ \E t \in Subs : \/ GetSubscription(t) \/ CreateSubscription(t) \/ Register(t)
                         \/ Receive(t) \/ ReceiveStops(t) \/ ReceiveFails(t)
                         \/ Drained(t) \/ Finish(t)
      \/ \E how : ProcessEnds(how)
  BY DEF Next, Process, Publish, Subscribe, EnsureTopic, Callback, Handler, Stopping, vars,
     SetupPanics, Deliver, Acquire, AcquireFails, HandlerAcks, HandlerNacks, HandlerSucceeds,
     HandlerFails, Leave, Cancel, Shutdown, StopPublishers, PublishersStopped, CloseClient,
     OthersPublish, LeaseExpires, Kill, Restart
<1> QED
  BY <1>1, <1>3, <1>4, <1>5, <1>6, <1>7

(* A subscription goes, with what is in it, when the call that owns it is  *)
(* done. *)
LEMMA FinishDeletes ==
  ASSUME TypeOK, BegunIsCalled, NEW s \in Subs, Finish(s), Delete(Name(s)), opts[s].unique
  PROVE  \A n : n = Name(s) => Ended(n)'
<1>1. s \in program.calls
  BY DEF BegunIsCalled, Finish, Callers
<1>2. at'[s] = "done" /\ program' = program
  BY DEF Finish, Go, TypeOK, Callers
<1> QED
  BY <1>1, <1>2 DEF Ended, Name, opts

(* What an answer or an arrival does to a message of the service.          *)
LEMMA Answers ==
  ASSUME TypeOK
  PROVE  /\ \A m : Arrive(m) => \A k \in Keys :
              server'[k] = server[k] \/ (server[k] = "none" /\ server'[k] = "queued")
         /\ \A d \in Deliveries : Nack(d) => \A k \in Keys :
              server'[k] = server[k] \/ (server[k] = "leased" /\ server'[k] = "queued")
         /\ \A d \in Deliveries : Ack(d) =>
              server' \in {server, [server EXCEPT ![Key(d)] = "acked"]}
<1>1. ASSUME NEW m, Arrive(m), NEW k \in Keys
      PROVE  server'[k] = server[k] \/ (server[k] = "none" /\ server'[k] = "queued")
  BY <1>1 DEF Arrive
<1>2. ASSUME NEW d \in Deliveries, Nack(d), NEW k \in Keys
      PROVE  server'[k] = server[k] \/ (server[k] = "leased" /\ server'[k] = "queued")
  BY <1>2 DEF Nack, TypeOK
<1>3. ASSUME NEW d \in Deliveries, Ack(d)
      PROVE  server' \in {server, [server EXCEPT ![Key(d)] = "acked"]}
  BY <1>3 DEF Ack
<1> QED
  BY <1>1, <1>2, <1>3

LEMMA ServiceStep ==
  ASSUME TypeOK, [Next]_vars
  PROVE  Quiet \/ (\E d \in Deliveries : Settles(d)) \/ (\E s \in Subs : Deletes(s))
<1> USE DEF service
<1>1. ASSUME UNCHANGED <<subscription, server, consent>> PROVE Quiet
  BY <1>1 DEF Quiet
<1>2. ASSUME NEW n \in Names, subscription' = [subscription EXCEPT ![n] = "exists"],
             UNCHANGED <<server, consent>>
      PROVE  Quiet
  BY <1>2 DEF Quiet, TypeOK
<1>3. ASSUME NEW s \in Subs, CreateSubscription(s) PROVE Quiet
  BY <1>2, <1>3, OptsType DEF CreateSubscription
<1>4. ASSUME NEW m, Arrive(m), UNCHANGED <<subscription, consent>> PROVE Quiet
  BY <1>4, Answers DEF Quiet
<1>5. ASSUME (\E p \in Pubs : Sent(p)) \/ (\E m \in Messages : OthersPublish(m)) PROVE Quiet
  BY <1>4, <1>5 DEF Sent, OthersPublish
<1>6. ASSUME NEW k \in Keys, LeaseExpires(k) PROVE Quiet
  BY <1>6 DEF LeaseExpires, Quiet, TypeOK
<1>7. ASSUME NEW d \in Deliveries, Deliver(d) PROVE Quiet
  BY <1>7, DeliveryType DEF Deliver, Quiet, TypeOK
<1>8. ASSUME NEW d \in Deliveries, AcquireFails(d) \/ HandlerNacks(d) \/ HandlerFails(d)
      PROVE  Quiet
  <2>1. Nack(d) /\ UNCHANGED <<subscription, consent>>
    BY <1>8 DEF AcquireFails, HandlerNacks, HandlerFails, Leave
  <2> QED
    BY <2>1, Answers DEF Quiet
<1>9. ASSUME NEW d \in Deliveries, HandlerAcks(d) \/ HandlerSucceeds(d) PROVE Settles(d)
  BY <1>9, Answers DEF HandlerAcks, HandlerSucceeds, Leave, Settles
<1>10. ASSUME NEW s \in Subs, Finish(s) PROVE Quiet \/ Deletes(s)
  <2>1. CASE UNCHANGED <<subscription, server>>
    BY <1>1, <1>10, <2>1 DEF Finish
  <2>2. CASE opts[s].unique /\ stopper # "idle" /\ Delete(Name(s))
    BY <1>10, <2>2 DEF Deletes
  <2> QED
    BY <1>10, <2>1, <2>2 DEF Finish
<1>11. \/ UNCHANGED <<subscription, server, consent>>
       \/ \E s \in Subs : CreateSubscription(s) \/ Finish(s)
       \/ (\E p \in Pubs : Sent(p)) \/ (\E m \in Messages : OthersPublish(m))
       \/ \E k \in Keys : LeaseExpires(k)
       \/ \E d \in Deliveries : \/ Deliver(d) \/ AcquireFails(d) \/ HandlerNacks(d)
                                \/ HandlerFails(d) \/ HandlerAcks(d) \/ HandlerSucceeds(d)
  BY DEF Next, Process, Publish, Subscribe, EnsureTopic, Callback, Handler, Stopping, vars,
     Begin, GetTopic, CreateTopic, GetPublisher, PublisherPublish, PublishFails, GetSubscription,
     SetupPanics, Register, Receive, ReceiveStops, ReceiveFails, Drained, Acquire,
     Cancel, Shutdown, StopPublishers, PublishersStopped, CloseClient, Kill, Restart, ProcessEnds
<1> QED
  BY <1>1, <1>3, <1>5, <1>6, <1>7, <1>8, <1>9, <1>10, <1>11

LEMMA OverStep ==
  TypeOK /\ BegunIsCalled /\ DeletedIsOver /\ GoneIsOver /\ [Next]_vars
    => DeletedIsOver' /\ GoneIsOver'
<1> SUFFICES ASSUME TypeOK, BegunIsCalled, DeletedIsOver, GoneIsOver, [Next]_vars
             PROVE  DeletedIsOver' /\ GoneIsOver'
  OBVIOUS
<1>1. \A n : Ended(n) => Ended(n)'
  BY EndedStays
<1>2. CASE Quiet
  BY <1>1, <1>2 DEF Quiet, DeletedIsOver, GoneIsOver
<1>3. ASSUME NEW d \in Deliveries, Settles(d) PROVE DeletedIsOver' /\ GoneIsOver'
  <2>1. \A k \in Keys : server'[k] = "gone" => server[k] = "gone"
    BY <1>3 DEF Settles, TypeOK
  <2> QED
    BY <1>1, <1>3, <2>1 DEF Settles, DeletedIsOver, GoneIsOver
<1>4. ASSUME NEW s \in Subs, Deletes(s) PROVE DeletedIsOver' /\ GoneIsOver'
  <2>1. \A n : n = Name(s) => Ended(n)'
    BY <1>4, FinishDeletes DEF Deletes
  <2>2. \A n \in Names : n # Name(s) => subscription'[n] = subscription[n]
    BY <1>4 DEF Deletes, Delete, TypeOK
  <2>3. \A k \in Keys : k[1] # Name(s) => server'[k] = server[k]
    BY <1>4 DEF Deletes, Delete
  <2>4. DeletedIsOver'
    BY <1>1, <2>1, <2>2 DEF DeletedIsOver
  <2>5. GoneIsOver'
    BY <1>1, <2>1, <2>3 DEF GoneIsOver
  <2> QED
    BY <2>4, <2>5
<1> QED
  BY <1>2, <1>3, <1>4, ServiceStep

-----------------------------------------------------------------------------
Inv ==
  TypeOK /\ TokensOut /\ BegunIsCalled /\ OneReceive /\ DeletedIsOver /\ GoneIsOver

LEMMA InitInv == Init => Inv
<1> SUFFICES ASSUME Init PROVE Inv
  OBVIOUS
<1>1. \A s \in Subs : Active(s) = {} /\ Running(s) = {}
  BY DEF Init, Active, Running
<1>2. \A s \in Subs : Cardinality(Running(s)) = 0 /\ sem[s] = Concurrency
  BY <1>1, FS_EmptySet DEF Init
<1>3. TokensOut
  BY <1>2, ConcurrencyAssumption DEF TokensOut
<1>4. \A c \in Callers : at[c] = "none"
  BY DEF Init
<1>5. BegunIsCalled /\ OneReceive
  BY <1>1, <1>4 DEF BegunIsCalled, OneReceive, InReceive, Callers
<1>6. DeletedIsOver /\ GoneIsOver
  BY DEF Init, DeletedIsOver, GoneIsOver
<1> QED
  BY <1>3, <1>5, <1>6, InitType DEF Inv

(* The parts of Inv hold whatever the calls, their options and the order   *)
(* in which they, Shutdown and the service proceed (google2.go:99-240).    *)
THEOREM InvHolds == Spec => []Inv
<1>1. Inv /\ [Next]_vars => Inv'
  BY TypeStep, TokensStep, BegunStep, ReceiveStep, OverStep DEF Inv
<1> QED
  BY <1>1, InitInv, PTL DEF Spec

(* Type correctness; it needs TokensOut, for a handler that returns gives  *)
(* back a token (google2.go:157), and the semaphore takes no more.         *)
THEOREM TypeCorrect == Spec => []TypeOK
<1>1. Inv => TypeOK
  BY DEF Inv
<1> QED
  BY <1>1, InvHolds, PTL

(* A call's handlers hold exactly the tokens that are out of its semaphore *)
(* (google2.go:138-157), and run only inside the one Receive of their      *)
(* name.                                                                   *)
THEOREM CallbacksBoundedHolds == Spec => []CallbacksBounded
<1>1. Inv => CallbacksBounded
  BY DEF Inv, CallbacksBounded, TokensOut, OneReceive, InReceive
<1> QED
  BY <1>1, InvHolds, PTL

(* Only a unique subscription is deleted, by the call that owns it, after  *)
(* Receive has returned with all of its callbacks (google2.go:193-200).    *)
THEOREM DeletedWhenDrainedHolds == Spec => []DeletedWhenDrained
<1>1. Inv => DeletedWhenDrained
  BY DEF Inv, DeletedWhenDrained, DeletedIsOver, Ended, OneReceive, InReceive
<1> QED
  BY <1>1, InvHolds, PTL

(* No callback that still runs is about a message that went with its       *)
(* subscription: the name is its call's own.                               *)
LEMMA RunningIsThere ==
  ASSUME Inv, NEW d \in Deliveries, phase[d] = "running" PROVE server[Key(d)] # "gone"
<1>1. Call(d) \in Subs /\ InReceive(Call(d)) /\ Key(d) \in Keys
  BY DeliveryType DEF Inv, OneReceive, Active
<1>2. Call(d) \in program.calls
  BY <1>1 DEF Inv, BegunIsCalled, InReceive, Callers
<1>3. ASSUME NEW s \in Subs, s \in program.calls, Name(s) = Name(Call(d)), opts[s].unique
      PROVE  s = Call(d)
  BY <1>1, <1>2, <1>3, ProgramsAssumption DEF Inv, TypeOK, Name, opts
<1>4. ~Ended(Key(d)[1])
  BY <1>1, <1>3 DEF Ended, InReceive, Key, Call
<1> QED
  BY <1>1, <1>4 DEF Inv, GoneIsOver

LEMMA PromiseStep == Inv /\ [Next]_vars => [Promise!Next]_(Promise!vars)
<1> SUFFICES ASSUME Inv, [Next]_vars PROVE [Promise!Next]_(Promise!vars)
  OBVIOUS
<1> DEFINE fate == [k \in Keys |-> FateOf(k)]
<1>1. MayGo' \in SUBSET Keys
  BY DEF MayGo
<1>2. CASE Quiet
  <2>1. PICK none \in SUBSET Keys : none = {}
    OBVIOUS
  <2>2. fate' = [k \in Keys |-> IF k \in none THEN "expired" ELSE fate[k]]
    BY <1>2, <2>1 DEF Quiet, FateOf
  <2>3. Promise!Expire(none)
    BY <1>2, <2>1, <2>2 DEF Promise!Expire, Quiet
  <2> QED
    BY <1>1, <2>3 DEF Promise!Next
<1>3. ASSUME NEW d \in Deliveries, Settles(d) PROVE [Promise!Next]_(Promise!vars)
  <2>1. PICK k \in Keys : k = Key(d)
    BY DeliveryType DEF Inv
  <2>2. consent' = consent \cup {k} /\ server[k] # "gone"
    BY <1>3, <2>1, RunningIsThere DEF Settles
  <2>3. CASE server' = server
    <3>1. Promise!Handle(k)
      BY <2>2, <2>3 DEF Promise!Handle, FateOf
    <3> QED
      BY <1>1, <3>1 DEF Promise!Next
  <2>4. CASE server' = [server EXCEPT ![k] = "acked"] /\ server[k] = "acked"
    <3>1. server' = server
      BY <2>1, <2>4 DEF Inv, TypeOK
    <3> QED
      BY <2>3, <3>1
  <2>5. CASE server' = [server EXCEPT ![k] = "acked"] /\ server[k] # "acked"
    <3>1. FateOf(k) = "open"
      BY <2>2, <2>5 DEF FateOf
    <3>2. fate' = [fate EXCEPT ![k] = "settled"]
      BY <2>1, <2>5 DEF FateOf, Inv, TypeOK
    <3>3. Promise!Settle(k)
      BY <2>2, <3>1, <3>2 DEF Promise!Settle
    <3> QED
      BY <1>1, <3>3 DEF Promise!Next
  <2> QED
    BY <1>3, <2>1, <2>3, <2>4, <2>5 DEF Settles
<1>4. ASSUME NEW s \in Subs, Deletes(s) PROVE [Promise!Next]_(Promise!vars)
  <2> DEFINE ms == {k \in Keys : k[1] = Name(s) /\ server[k] \in {"queued", "leased"}}
  <2>1. ms \subseteq MayGo /\ consent' = consent
    <3>1. Active(s) = {}
      BY <1>4 DEF Deletes, Finish, Inv, OneReceive, InReceive
    <3> QED
      BY <1>4, <3>1 DEF Deletes, Finish, MayGo
  <2>2. \A k \in ms : FateOf(k) = "open"
    BY DEF FateOf
  <2>3. fate' = [k \in Keys |-> IF k \in ms THEN "expired" ELSE fate[k]]
    BY <1>4 DEF Deletes, Delete, FateOf
  <2>4. PICK gone \in SUBSET Keys : gone = ms
    OBVIOUS
  <2>5. Promise!Expire(gone)
    BY <2>1, <2>2, <2>3, <2>4 DEF Promise!Expire
  <2> QED
    BY <1>1, <2>5 DEF Promise!Next
<1> QED
  BY <1>2, <1>3, <1>4, ServiceStep DEF Inv

(* A message goes for good only with a handler's consent, or with the      *)
(* unique subscription that a call deletes on its way out                  *)
(* (google2.go:175-200), whatever fails, expires or is killed in between.  *)
THEOREM DeliversAtLeastOnceHolds == Spec => DeliversAtLeastOnce
<1>1. Init => Promise!Init
  BY DEF Init, Promise!Init, FateOf, MayGo
<1> QED
  BY <1>1, PromiseStep, InvHolds, PTL DEF Spec, DeliversAtLeastOnce, Promise!Spec

-----------------------------------------------------------------------------
(* What is left of a call of Subscribe when Shutdown has closed the client. *)

(* The steps it can still take.                                            *)
StepsLeft(s) ==
  CASE at[s] = "none"               -> 10
    [] at[s] = "getTopic"           -> 9
    [] at[s] = "createTopic"        -> 8
    [] at[s] = "getSubscription"    -> 7
    [] at[s] = "createSubscription" -> 6
    [] at[s] = "register"           -> 5
    [] at[s] = "receive"            -> 4
    [] at[s] = "receiving"          -> 3
    [] at[s] = "draining"           -> 2
    [] at[s] = "returned"           -> 1
    [] OTHER                        -> 0

(* Its callbacks do not grow in number, and it goes only forward.          *)
RunsOut(s) ==
  /\ StepsLeft(s)' <= StepsLeft(s)
  /\ Subscribe(s) => StepsLeft(s)' < StepsLeft(s)
  /\ Active(s)' \subseteq Active(s)

LEMMA SubscribeForward ==
  ASSUME TypeOK, NEW s \in Subs, Subscribe(s) \/ ReceiveFails(s) \/ Begin(s),
         \A how : ~ProcessEnds(how)
  PROVE  StepsLeft(s)' < StepsLeft(s) /\ UNCHANGED phase
<1> USE DEF callbacks
<1>a. at \in [Callers -> {"none", "getTopic", "createTopic", "getSubscription",
         "createSubscription", "register", "receive", "receiving", "draining", "returned", "done",
         "getPublisher", "publish", "sending"}] /\ s \in Callers
  BY DEF TypeOK, Callers
<1>1. CASE GetTopic(s)
  <2>1. at[s] = "getTopic" /\ at'[s] \in {"createTopic", "getSubscription"} /\ UNCHANGED phase
    BY <1>a, <1>1 DEF GetTopic, Go, EnsuredTopic
  <2> QED
    BY <2>1 DEF StepsLeft
<1>2. CASE CreateTopic(s)
  <2>1. at[s] = "createTopic" /\ at'[s] = "getSubscription" /\ UNCHANGED phase
    BY <1>a, <1>2 DEF CreateTopic, Go, EnsuredTopic
  <2> QED
    BY <2>1 DEF StepsLeft
<1>3. CASE GetSubscription(s)
  <2>1. /\ at[s] = "getSubscription" /\ at'[s] \in {"createSubscription", "register"}
        /\ UNCHANGED phase
    BY <1>a, <1>3 DEF GetSubscription, Go
  <2> QED
    BY <2>1 DEF StepsLeft
<1>4. CASE CreateSubscription(s)
  <2>1. at[s] = "createSubscription" /\ at'[s] = "register" /\ UNCHANGED phase
    BY <1>a, <1>4 DEF CreateSubscription, Go
  <2> QED
    BY <2>1 DEF StepsLeft
<1>5. CASE Register(s)
  <2>1. at[s] = "register" /\ at'[s] = "receive" /\ UNCHANGED phase
    BY <1>a, <1>5 DEF Register, Go
  <2> QED
    BY <2>1 DEF StepsLeft
<1>6. CASE Receive(s)
  <2>1. at[s] = "receive" /\ at'[s] \in {"receiving", "returned"} /\ UNCHANGED phase
    BY <1>a, <1>6 DEF Receive, Go
  <2> QED
    BY <2>1 DEF StepsLeft
<1>7. CASE ReceiveStops(s) \/ ReceiveFails(s)
  <2>1. at[s] = "receiving" /\ at'[s] = "draining" /\ UNCHANGED phase
    BY <1>a, <1>7 DEF ReceiveStops, ReceiveFails, Go
  <2> QED
    BY <2>1 DEF StepsLeft
<1>8. CASE Drained(s)
  <2>1. at[s] = "draining" /\ at'[s] = "returned" /\ UNCHANGED phase
    BY <1>a, <1>8 DEF Drained, Go
  <2> QED
    BY <2>1 DEF StepsLeft
<1>9. CASE Finish(s)
  <2>1. at[s] = "returned" /\ at'[s] = "done" /\ UNCHANGED phase
    BY <1>a, <1>9 DEF Finish, Go
  <2> QED
    BY <2>1 DEF StepsLeft
<1>10. CASE Begin(s)
  <2>1. at[s] = "none" /\ at'[s] = "getTopic" /\ UNCHANGED phase
    BY <1>a, <1>10 DEF Begin, Go
  <2> QED
    BY <2>1 DEF StepsLeft
<1>11. ~SetupPanics(s)
  BY DEF SetupPanics
<1> QED
  BY <1>1, <1>2, <1>3, <1>4, <1>5, <1>6, <1>7, <1>8, <1>9, <1>10, <1>11
     DEF Subscribe, EnsureTopic

(* Shutdown is over when the client is closed, and no publisher is open    *)
(* while it waits for them.                                                *)
Closing ==
  /\ stopper = "returned" <=> closed
  /\ stopper = "stopping" => publisher # "open"

LEMMA ClosingStep == Closing /\ [Next]_vars => Closing'
<1> SUFFICES ASSUME Closing, [Next]_vars PROVE Closing'
  OBVIOUS
<1> USE DEF Closing, stopping
<1>1. CASE UNCHANGED <<publisher, stopper, closed>>
  BY <1>1
<1>2. ASSUME NEW p \in Pubs, GetPublisher(p) PROVE Closing'
  BY <1>2 DEF GetPublisher, MuFree
<1>3. CASE Shutdown \/ StopPublishers \/ PublishersStopped \/ CloseClient
  BY <1>3 DEF Shutdown, StopPublishers, PublishersStopped, CloseClient
<1>4. ASSUME NEW how, ProcessEnds(how) PROVE Closing'
  BY <1>4 DEF ProcessEnds
<1>5. \/ UNCHANGED <<publisher, stopper, closed>>
      \/ \E p \in Pubs : GetPublisher(p)
      \/ Shutdown \/ StopPublishers \/ PublishersStopped \/ CloseClient
      \/ \E how : ProcessEnds(how)
  BY DEF Next, Process, Publish, Subscribe, EnsureTopic, Callback, Handler, Stopping, vars,
     Begin, GetTopic, CreateTopic, PublisherPublish, PublishFails, Sent, GetSubscription,
     CreateSubscription, SetupPanics, Register, Receive, ReceiveStops, ReceiveFails, Drained,
     Finish, Deliver, Acquire, AcquireFails, HandlerAcks, HandlerNacks, HandlerSucceeds,
     HandlerFails, Leave, Cancel, OthersPublish, LeaseExpires, Kill, Restart
<1> QED
  BY <1>1, <1>2, <1>3, <1>4, <1>5

THEOREM ClosingHolds == Spec => []Closing
<1>1. Init => Closing
  BY DEF Init, Closing
<1> QED
  BY <1>1, ClosingStep, PTL DEF Spec

LEMMA RunsOutStep ==
  ASSUME TypeOK, [Next]_vars, closed, closed', NEW s \in Subs
  PROVE  RunsOut(s)
<1> USE DEF callbacks
<1> DEFINE Own == Subscribe(s) \/ ReceiveFails(s) \/ Begin(s)
<1>a. StepsLeft(s) \in 0..10 /\ StepsLeft(s)' \in 0..10
  BY DEF StepsLeft
<1>b. \A how : ~ProcessEnds(how)
  BY DEF ProcessEnds
<1>1. CASE Own
  <2>1. StepsLeft(s)' < StepsLeft(s) /\ UNCHANGED phase
    BY <1>1, <1>b, SubscribeForward
  <2>2. Active(s)' = Active(s)
    BY <2>1 DEF Active
  <2> QED
    BY <1>a, <2>1, <2>2 DEF RunsOut
<1>2. ASSUME ~Subscribe(s), at'[s] = at[s], Active(s)' \subseteq Active(s) PROVE RunsOut(s)
  <2>1. StepsLeft(s)' = StepsLeft(s)
    BY <1>2 DEF StepsLeft
  <2> QED
    BY <1>2, <1>a, <2>1 DEF RunsOut
<1>3. ASSUME ~Own, NEW c \in Callers \ {s}, NEW place, Go(c, place), UNCHANGED phase
      PROVE  RunsOut(s)
  <2>1. at'[s] = at[s] /\ Active(s)' = Active(s)
    BY <1>3 DEF Go, TypeOK, Callers, Active
  <2> QED
    BY <1>2, <1>3, <2>1
<1>4. ASSUME ~Own, NEW d \in Deliveries, NEW p \in {"running", "over"},
             phase' = [phase EXCEPT ![d] = p], UNCHANGED at,
             p = "running" => phase[d] = "called"
      PROVE  RunsOut(s)
  <2>1. Active(s)' \subseteq Active(s)
    BY <1>4 DEF Active, TypeOK
  <2> QED
    BY <1>2, <1>4, <2>1
<1>5. ASSUME ~Own, UNCHANGED <<at, phase>> PROVE RunsOut(s)
  <2>1. Active(s)' = Active(s)
    BY <1>5 DEF Active
  <2> QED
    BY <1>2, <1>5, <2>1
<1>6. ASSUME ~Own, NEW c \in Callers, Begin(c) PROVE RunsOut(s)
  BY <1>3, <1>6 DEF Begin
<1>7. ASSUME ~Own, NEW p \in Pubs, Publish(p) PROVE RunsOut(s)
  <2>1. p \in Callers \ {s}
    BY CallersAssumption DEF Callers
  <2> QED
    BY <1>3, <1>7, <2>1 DEF Publish, EnsureTopic, GetTopic, CreateTopic, GetPublisher,
       PublisherPublish, Sent, PublishFails
<1>8. ASSUME ~Own, NEW r \in Subs, Subscribe(r) \/ ReceiveFails(r) PROVE RunsOut(s)
  <2>1. r \in Callers \ {s}
    BY <1>8 DEF Callers
  <2> QED
    BY <1>3, <1>8, <1>b, <2>1 DEF Subscribe, EnsureTopic, GetTopic, CreateTopic,
       GetSubscription, CreateSubscription, SetupPanics, Register, Receive, ReceiveStops,
       ReceiveFails, Drained, Finish
<1>9. ASSUME ~Own, NEW d \in Deliveries, Callback(d) \/ Handler(d) PROVE RunsOut(s)
  BY <1>4, <1>5, <1>9 DEF Callback, Handler, Acquire, AcquireFails, HandlerAcks, HandlerNacks,
     HandlerSucceeds, HandlerFails, Leave
<1>10. \A d \in Deliveries : ~Deliver(d)
  BY DEF Deliver
<1>11. \/ \E c \in Callers : Begin(c)
       \/ \E p \in Pubs : Publish(p)
       \/ \E r \in Subs : Subscribe(r) \/ ReceiveFails(r)
       \/ \E d \in Deliveries : Callback(d) \/ Handler(d)
       \/ UNCHANGED <<at, phase>>
  BY <1>b, <1>10 DEF Next, Process, vars, Stopping, Cancel, Shutdown, StopPublishers,
     PublishersStopped, CloseClient, OthersPublish, LeaseExpires, Kill, Restart
<1> HIDE DEF Own
<1> QED
  BY <1>1, <1>5, <1>6, <1>7, <1>8, <1>9, <1>11

(* Once Shutdown has closed the client, every call of Subscribe goes only  *)
(* forward, so that it takes ten steps at most in this life of the         *)
(* process, and its Receive starts no callback any more: also one that     *)
(* begins, or registers its cancel function, after Shutdown has looked at  *)
(* g.cancels.                                                              *)
THEOREM SubscriptionsRunOut ==
  Spec => [][closed /\ closed' => \A s \in Subs : RunsOut(s)]_vars
<1>1. TypeOK /\ [Next]_vars => [closed /\ closed' => \A s \in Subs : RunsOut(s)]_vars
  BY RunsOutStep
<1> QED
  BY <1>1, TypeCorrect, PTL DEF Spec

(* A call of Subscribe that can take its next step, or whose callbacks can *)
(* take theirs, or has a handler that runs. *)
GoesOn(s) ==
  \/ at[s] \in {"getTopic", "createTopic", "getSubscription", "createSubscription", "receive",
               "returned"}
  \/ at[s] = "register" /\ MuFree
  \/ at[s] = "receiving" /\ (s \in cancelled \/ closed)
  \/ at[s] = "draining" /\
       (Active(s) = {} \/ \E d \in Active(s) : phase[d] = "called" => CtxDone(s))

(* After Shutdown no call of Subscribe hangs but for a handler that does,  *)
(* though its context may never be cancelled: that of a subscription       *)
(* replaced in g.cancels, or registered too late.                          *)
THEOREM NoSubscribeHangs ==
  Spec => [](stopper = "returned" =>
               \A s \in Subs : at[s] \notin {"none", "done"} => GoesOn(s))
<1>1. TypeOK /\ Closing =>
        (stopper = "returned" => \A s \in Subs : at[s] \notin {"none", "done"} => GoesOn(s))
  <2> SUFFICES ASSUME TypeOK, closed, stopper = "returned", NEW s \in Subs,
                      at[s] \notin {"none", "done"}
               PROVE  GoesOn(s)
    BY DEF Closing
  <2>1. at[s] \in {"getTopic", "createTopic", "getSubscription", "createSubscription",
          "register", "receive", "receiving", "draining", "returned"}
    BY DEF TypeOK, Callers
  <2>2. MuFree
    BY DEF MuFree
  <2>3. at[s] = "draining" => CtxDone(s)
    BY DEF CtxDone
  <2> QED
    BY <2>1, <2>2, <2>3 DEF GoesOn
<1> QED
  BY <1>1, TypeCorrect, ClosingHolds, PTL

(* While Shutdown holds g.mu and waits for the publishers, the calls of    *)
(* Publish that it waits for become fewer only: none gets a message into a *)
(* publisher, for the one there was is stopped, and another needs g.mu.    *)
THEOREM NoNewSenders ==
  Spec => [][stopper = "stopping" =>
               \A p \in Pubs : at'[p] = "sending" => at[p] = "sending"]_vars
<1>1. ASSUME TypeOK, Closing, [Next]_vars, stopper = "stopping", NEW p \in Pubs,
             at'[p] = "sending"
      PROVE  at[p] = "sending"
  <2>a. p \in Callers /\ p \notin Subs
    BY CallersAssumption DEF Callers
  <2>1. ASSUME NEW c \in Callers, NEW place, Go(c, place), place # "sending" \/ c # p
        PROVE  at[p] = "sending"
    BY <1>1, <2>1, <2>a DEF Go, TypeOK
  <2>2. CASE UNCHANGED at
    BY <1>1, <2>2
  <2>3. ASSUME NEW c \in Callers, Begin(c) PROVE at[p] = "sending"
    BY <2>1, <2>3 DEF Begin
  <2>4. ASSUME NEW q \in Pubs, Publish(q) PROVE at[p] = "sending"
    <3>1. q \in Callers /\ ~PublisherPublish(q)
      BY <1>1 DEF PublisherPublish, Closing, Callers
    <3> QED
      BY <2>1, <2>4, <3>1 DEF Publish, EnsureTopic, GetTopic, CreateTopic, EnsuredTopic,
         GetPublisher, Sent, PublishFails
  <2>5. ASSUME NEW how, ProcessEnds(how) PROVE at[p] = "sending"
    BY <1>1, <2>5, <2>a DEF ProcessEnds
  <2>6. ASSUME NEW s \in Subs, Subscribe(s) \/ ReceiveFails(s) PROVE at[p] = "sending"
    <3>1. s \in Callers \ {p}
      BY <2>a DEF Callers
    <3> QED
      BY <2>1, <2>5, <2>6, <3>1 DEF Subscribe, EnsureTopic, GetTopic, CreateTopic,
         GetSubscription, CreateSubscription, SetupPanics, Register, Receive, ReceiveStops,
         ReceiveFails, Drained, Finish
  <2>7. \/ UNCHANGED at
        \/ \E c \in Callers : Begin(c)
        \/ \E q \in Pubs : Publish(q)
        \/ \E s \in Subs : Subscribe(s) \/ ReceiveFails(s)
        \/ \E how : ProcessEnds(how)
    BY <1>1 DEF Next, Process, vars, Deliver, Callback, Handler, Acquire, AcquireFails,
       HandlerAcks, HandlerNacks, HandlerSucceeds, HandlerFails, Leave, Stopping, Cancel,
       Shutdown, StopPublishers, PublishersStopped, CloseClient, OthersPublish, LeaseExpires,
       Kill, Restart
  <2> QED
    BY <2>2, <2>3, <2>4, <2>5, <2>6, <2>7
<1>2. TypeOK /\ Closing /\ [Next]_vars =>
        [stopper = "stopping" =>
           \A p \in Pubs : at'[p] = "sending" => at[p] = "sending"]_vars
  BY <1>1
<1> QED
  BY <1>2, TypeCorrect, ClosingHolds, PTL DEF Spec
=============================================================================
