---------------------------- MODULE KafkaProofs ----------------------------
(***************************************************************************)
(* Proofs about Kafka for any processes, groups and number of messages.    *)
(*                                                                         *)
(* The argument: with one subscription for each Provider, a loop reads     *)
(* from the reader that it has made (Own), and a reader that may hand      *)
(* something out stands right behind what its group is done with, or       *)
(* behind the message that its own loop has in its hands (Behind).  So     *)
(* whatever is acknowledged, and then committed, has only handled messages *)
(* before it, and messages are done with one by one.                       *)
(***************************************************************************)
EXTENDS Kafka, TLAPS

LoopStates == {"none", "top", "fetching", "handling", "done"}

LEMMA InitType == Init => TypeOK
  BY LogAssumption, SubsAssumption DEF Init, TypeOK, Offsets

LEMMA MaxType ==
  ASSUME NEW a \in Offsets, NEW b \in Offsets PROVE Max2(a, b) \in {a, b}
  BY DEF Max2

LEMMA AckType ==
  ASSUME TypeOK, NEW s \in Subs, Ack(s), loop[s] # "none"
  PROVE  stash' \in [Subs -> Offsets]
<1>1. Reader(s) \in Subs
  BY SubsAssumption DEF TypeOK, Reader
<1>2. Max2(stash[Reader(s)], msg[s]) \in Offsets
  BY <1>1, MaxType DEF TypeOK, Max2
<1> QED
  BY <1>1, <1>2 DEF Ack, TypeOK

LEMMA DoneType ==
  ASSUME TypeOK, NEW s \in Subs, Done(s)
  PROVE  handled' \in SUBSET (Groups \X (1..MaxLog)) /\ handled \subseteq handled'
<1>1. msg[s] # 0 => msg[s] \in 1..MaxLog
  BY LogAssumption DEF TypeOK, Offsets
<1>2. GroupOf[s] \in Groups
  BY SubsAssumption
<1> QED
  BY <1>1, <1>2 DEF Done, TypeOK

LEMMA TypeStep == TypeOK /\ [Next]_vars => TypeOK'
<1> SUFFICES ASSUME TypeOK, [Next]_vars PROVE TypeOK'
  OBVIOUS
<1> USE SubsAssumption, LogAssumption, NoneAssumption DEF TypeOK, brokerVars, readerVars
<1>1. CASE UNCHANGED vars
  BY <1>1 DEF vars, Reader
<1>2. ASSUME NEW p \in Procs, Publish(p) PROVE TypeOK'
  BY <1>2 DEF Publish, Offsets, Reader
<1>3. ASSUME NEW g \in Groups, NEW s \in Subs, Assign(g, s) PROVE TypeOK'
  <2>1. /\ next' \in [Subs -> 1..(MaxLog + 1)]
        /\ fetched' \in [Subs -> Offsets]
    BY <1>3 DEF Assign, Offsets
  <2>2. owner' \in [Groups -> Subs \cup {None}]
    BY <1>3 DEF Assign
  <2> QED
    BY <1>3, <2>1, <2>2 DEF Assign, Reader
<1>4. ASSUME NEW s \in Subs, Fetch(s) PROVE TypeOK'
  BY <1>4 DEF Fetch, Offsets, Reader
<1>5. ASSUME NEW s \in Subs, DropBuffer(s) PROVE TypeOK'
  BY <1>5 DEF DropBuffer, Offsets, Reader
<1>6. ASSUME NEW s \in Subs, Commit(s) PROVE TypeOK'
  BY <1>6 DEF Commit, Offsets, Reader
<1>7. ASSUME NEW s \in Subs, CommitLost(s) PROVE TypeOK'
  BY <1>7 DEF CommitLost, Offsets, Reader
<1>8. ASSUME NEW s \in Subs, Subscribe(s) PROVE TypeOK'
  BY <1>8 DEF Subscribe, Reader
<1>9. ASSUME NEW s \in Subs, CallFetch(s) PROVE TypeOK'
  BY <1>9 DEF CallFetch, Reader
<1>10. ASSUME NEW s \in Subs, FetchMessage(s) PROVE TypeOK'
  <2>1. on[s] \in Subs
    BY <1>10 DEF FetchMessage
  <2>2. next[on[s]] \in Offsets /\ next[on[s]] + 1 \in 1..(MaxLog + 1)
    BY <1>10, <2>1 DEF FetchMessage, Offsets
  <2> QED
    BY <1>10, <2>1, <2>2 DEF FetchMessage, Reader
<1>11. ASSUME NEW s \in Subs, FetchFails(s) PROVE TypeOK'
  BY <1>11 DEF FetchFails, Offsets, Reader
<1>12. ASSUME NEW s \in Subs, HandlerAcks(s) PROVE TypeOK'
  <2>1. stash' \in [Subs -> Offsets] /\ handled' \in SUBSET (Groups \X (1..MaxLog))
    BY <1>12, AckType, DoneType DEF HandlerAcks
  <2> QED
    BY <1>12, <2>1 DEF HandlerAcks, Reader
<1>13. ASSUME NEW s \in Subs, HandlerSucceeds(s) PROVE TypeOK'
  <2>1. stash' \in [Subs -> Offsets] /\ handled' \in SUBSET (Groups \X (1..MaxLog))
    BY <1>13, AckType, DoneType DEF HandlerSucceeds
  <2>2. /\ UNCHANGED <<log, committed, owner, writer, reader, state, next, fetched, on>>
        /\ loop' = [loop EXCEPT ![s] = "top"] /\ msg' = [msg EXCEPT ![s] = 0]
        /\ loop[s] = "handling"
    BY <1>13 DEF HandlerSucceeds
  <2>3. 0 \in Offsets
    BY DEF Offsets
  <2> QED
    BY <2>1, <2>2, <2>3 DEF Reader
<1>14. ASSUME NEW s \in Subs, HandlerFails(s) PROVE TypeOK'
  BY <1>14 DEF HandlerFails, Reader, Offsets
<1>15. ASSUME NEW p \in Procs, Shutdown(p) PROVE TypeOK'
  <2>1. committed' \in [Groups -> Offsets] /\ stash' \in [Subs -> Offsets]
    BY <1>15 DEF Shutdown, Offsets
  <2>2. /\ owner' \in [Groups -> Subs \cup {None}]
        /\ \A g \in Groups : owner'[g] # None =>
             state'[owner'[g]] = "open" /\ GroupOf[owner'[g]] = g
    BY <1>15 DEF Shutdown
  <2> QED
    BY <1>15, <2>1, <2>2 DEF Shutdown, Reader
<1>16. ASSUME NEW p \in Procs, ProcessEnds(p) PROVE TypeOK'
  <2>1. /\ state' \in [Subs -> {"none", "open", "closed"}]
        /\ next' \in [Subs -> 1..(MaxLog + 1)]
        /\ fetched' \in [Subs -> Offsets] /\ stash' \in [Subs -> Offsets]
        /\ loop' \in [Subs -> LoopStates] /\ on' \in [Subs -> Subs \cup {None}]
        /\ msg' \in [Subs -> Offsets]
    BY <1>16 DEF ProcessEnds, Offsets, LoopStates
  <2>2. /\ owner' \in [Groups -> Subs \cup {None}]
        /\ \A g \in Groups : owner'[g] # None =>
             state'[owner'[g]] = "open" /\ GroupOf[owner'[g]] = g
    BY <1>16 DEF ProcessEnds
  <2>3. \A s \in Subs : /\ loop'[s] # "none" => reader'[ProcOf[s]] # None
                        /\ loop'[s] = "fetching" <=> on'[s] # None
    BY <1>16 DEF ProcessEnds, Reader
  <2> QED
    BY <1>16, <2>1, <2>2, <2>3 DEF ProcessEnds, Reader, LoopStates
<1> QED
  BY <1>1, <1>2, <1>3, <1>4, <1>5, <1>6, <1>7, <1>8, <1>9, <1>10, <1>11, <1>12, <1>13,
     <1>14, <1>15, <1>16
     DEF Next, Loop, Handler, Broker, ShutdownPanics, Kill

(* Every variable of Kafka keeps its type, with any number of              *)
(* subscriptions in a process.                                             *)
THEOREM TypeCorrect == Spec => []TypeOK
<1> QED
  BY InitType, TypeStep, PTL DEF Spec

-----------------------------------------------------------------------------
(* A program calls Subscribe once on each Provider: kafka.go has one field *)
(* Reader, and a second call would replace it.                             *)
OneSubscription == \A s, r \in Subs : ProcOf[s] = ProcOf[r] => s = r

(* The group is done with all messages up to n.                            *)
DoneUpTo(g, n) == \A o \in 1..n : <<g, o>> \in handled

(* A loop reads from its own reader.                                       *)
Own(s) ==
  /\ reader[ProcOf[s]] \in {None, s}
  /\ on[s] \in {None, s}
  /\ loop[s] = "none" =>
       state[s] = "none" /\ next[s] = 1 /\ fetched[s] = 0

(* The reader may hand something out, now or when it has fetched more.     *)
MayHandOut(s) == owner[GroupOf[s]] = s \/ next[s] <= fetched[s]

Behind(s) ==
  /\ DoneUpTo(GroupOf[s], stash[s])
  /\ loop[s] = "handling" => DoneUpTo(GroupOf[s], msg[s] - 1)
  /\ (loop[s] # "done" /\ MayHandOut(s)) =>
       \/ DoneUpTo(GroupOf[s], next[s] - 1)
       \/ loop[s] = "handling" /\ msg[s] = next[s] - 1

InOrder ==
  /\ \A g \in Groups : DoneUpTo(g, committed[g])
  /\ \A s \in Subs : Own(s) /\ Behind(s)

LEMMA InOrderInit == Init => InOrder
<1> SUFFICES ASSUME Init PROVE InOrder
  OBVIOUS
<1>1. \A g : DoneUpTo(g, 0)
  BY DEF DoneUpTo
<1> QED
  BY <1>1, SubsAssumption DEF Init, InOrder, Own, Behind

(* What is done stays done.                                                *)
LEMMA DoneGrows ==
  ASSUME NEW g, NEW n, handled \subseteq handled', DoneUpTo(g, n)
  PROVE  \A o \in 1..n : <<g, o>> \in handled'
  BY DEF DoneUpTo

LEMMA OwnStep ==
  ASSUME TypeOK, OneSubscription, \A s \in Subs : Own(s), [Next]_vars, NEW s \in Subs
  PROVE  Own(s)'
<1> USE SubsAssumption, NoneAssumption DEF TypeOK, Own, brokerVars, readerVars
<1>1. CASE UNCHANGED vars
  BY <1>1 DEF vars
<1>2. ASSUME NEW p \in Procs, Publish(p) PROVE Own(s)'
  BY <1>2 DEF Publish
<1>3. ASSUME NEW g \in Groups, NEW r \in Subs, Assign(g, r) PROVE Own(s)'
  BY <1>3 DEF Assign
<1>4. ASSUME NEW r \in Subs, Fetch(r) PROVE Own(s)'
  BY <1>4 DEF Fetch
<1>5. ASSUME NEW r \in Subs, DropBuffer(r) PROVE Own(s)'
  BY <1>5 DEF DropBuffer
<1>6. ASSUME NEW r \in Subs, Commit(r) \/ CommitLost(r) PROVE Own(s)'
  BY <1>6 DEF Commit, CommitLost
<1>7. ASSUME NEW r \in Subs, Subscribe(r) PROVE Own(s)'
  BY <1>7 DEF Subscribe, OneSubscription
<1>8. ASSUME NEW r \in Subs, CallFetch(r) PROVE Own(s)'
  BY <1>8 DEF CallFetch, Reader
<1>9. ASSUME NEW r \in Subs, FetchMessage(r) PROVE Own(s)'
  BY <1>9 DEF FetchMessage
<1>10. ASSUME NEW r \in Subs, FetchFails(r) PROVE Own(s)'
  BY <1>10 DEF FetchFails
<1>11. ASSUME NEW r \in Subs, Handler(r) PROVE Own(s)'
  BY <1>11 DEF Handler, HandlerAcks, HandlerSucceeds, HandlerFails
<1>12. ASSUME NEW p \in Procs, Shutdown(p) PROVE Own(s)'
  <2>1. reader[p] \in Subs /\ state[reader[p]] = "open"
    BY <1>12 DEF Shutdown
  <2> QED
    BY <1>12, <2>1 DEF Shutdown
<1>13. ASSUME NEW p \in Procs, ProcessEnds(p) PROVE Own(s)'
  BY <1>13 DEF ProcessEnds
<1> QED
  BY <1>1, <1>2, <1>3, <1>4, <1>5, <1>6, <1>7, <1>8, <1>9, <1>10, <1>11, <1>12, <1>13
     DEF Next, Loop, Broker, ShutdownPanics, Kill

(* A step that moves nothing that a subscription's part is about, except   *)
(* that more may be done.                                                  *)
LEMMA BehindStays ==
  ASSUME NEW s \in Subs, Behind(s), handled \subseteq handled',
         stash'[s] = stash[s], loop'[s] = loop[s], msg'[s] = msg[s],
         next'[s] = next[s], fetched'[s] = fetched[s],
         owner'[GroupOf[s]] = s => owner[GroupOf[s]] = s
  PROVE  Behind(s)'
  BY DEF Behind, MayHandOut, DoneUpTo

(* The handler is done with what its loop has in its hands.                *)
LEMMA DoneWith ==
  ASSUME TypeOK, NEW s \in Subs, Behind(s), loop[s] = "handling", Done(s)
  PROVE  /\ handled \subseteq handled'
         /\ \A o \in 1..msg[s] : <<GroupOf[s], o>> \in handled'
<1>1. handled \subseteq handled'
  BY DoneType
<1>2. msg[s] \in Nat /\ (msg[s] # 0 => <<GroupOf[s], msg[s]>> \in handled')
  BY LogAssumption DEF Done, TypeOK, Offsets
<1>3. \A o \in 1..(msg[s] - 1) : <<GroupOf[s], o>> \in handled
  BY DEF Behind, DoneUpTo
<1> QED
  BY <1>1, <1>2, <1>3

LEMMA BehindStep ==
  ASSUME TypeOK, OneSubscription, InOrder, [Next]_vars, NEW s \in Subs
  PROVE  Behind(s)'
<1>a. Behind(s) /\ \A r \in Subs : Own(r)
  BY DEF InOrder
<1>b. /\ \A g, n : (handled \subseteq handled' /\ DoneUpTo(g, n)) =>
           \A o \in 1..n : <<g, o>> \in handled'
      /\ \A g \in Groups : DoneUpTo(g, committed[g])
  BY DEF DoneUpTo, InOrder
<1> USE SubsAssumption, LogAssumption, NoneAssumption DEF TypeOK, brokerVars, readerVars
<1>1. CASE UNCHANGED vars
  BY <1>1, <1>a, BehindStays DEF vars
<1>2. ASSUME NEW p \in Procs, Publish(p) PROVE Behind(s)'
  BY <1>2, <1>a, BehindStays DEF Publish
<1>3. ASSUME NEW g \in Groups, NEW r \in Subs, Assign(g, r) PROVE Behind(s)'
  <2>1. CASE r = s
    <3>1. /\ next'[s] = committed[g] + 1 /\ g = GroupOf[s]
          /\ UNCHANGED <<stash, loop, msg, handled>>
      BY <1>3, <2>1 DEF Assign
    <3>2. next'[s] - 1 = committed[g]
      BY <3>1 DEF Offsets
    <3>3. \A o \in 1..(next'[s] - 1) : <<GroupOf[s], o>> \in handled'
      BY <1>b, <3>1, <3>2 DEF DoneUpTo
    <3> QED
      BY <1>a, <3>1, <3>3 DEF Behind, DoneUpTo
  <2>2. CASE r # s
    BY <1>3, <1>a, <2>2, BehindStays DEF Assign
  <2> QED
    BY <2>1, <2>2
<1>4. ASSUME NEW r \in Subs, Fetch(r) PROVE Behind(s)'
  <2>1. CASE r = s
    <3>1. /\ owner[GroupOf[s]] = s
          /\ UNCHANGED <<stash, loop, msg, handled, next>>
      BY <1>4, <2>1 DEF Fetch
    <3> QED
      BY <1>a, <3>1 DEF Behind, DoneUpTo, MayHandOut
  <2>2. CASE r # s
    BY <1>4, <1>a, <2>2, BehindStays DEF Fetch
  <2> QED
    BY <2>1, <2>2
<1>5. ASSUME NEW r \in Subs, DropBuffer(r) PROVE Behind(s)'
  <2>1. CASE r = s
    <3>1. /\ owner'[GroupOf[s]] # s /\ next'[s] = fetched'[s] + 1
          /\ UNCHANGED <<stash, loop, msg, handled>> /\ fetched'[s] \in Nat
      BY <1>5, <2>1 DEF DropBuffer, Offsets
    <3>2. ~MayHandOut(s)'
      BY <3>1 DEF MayHandOut
    <3> QED
      BY <1>a, <3>1, <3>2 DEF Behind, DoneUpTo
  <2>2. CASE r # s
    BY <1>5, <1>a, <2>2, BehindStays DEF DropBuffer
  <2> QED
    BY <2>1, <2>2
<1>6. ASSUME NEW r \in Subs, Commit(r) \/ CommitLost(r) PROVE Behind(s)'
  <2>1. /\ stash'[s] = stash[s] \/ stash'[s] = 0
        /\ UNCHANGED <<owner, loop, msg, handled, next, fetched>>
    BY <1>6 DEF Commit, CommitLost
  <2> QED
    BY <1>a, <2>1 DEF Behind, DoneUpTo, MayHandOut
<1>7. ASSUME NEW r \in Subs, Subscribe(r) PROVE Behind(s)'
  <2>1. CASE r = s
    <3>1. /\ loop'[s] = "top" /\ next'[s] = 1
          /\ UNCHANGED <<stash, msg, handled>>
      BY <1>7, <1>a, <2>1 DEF Subscribe, Own
    <3> QED
      BY <1>a, <3>1 DEF Behind, DoneUpTo
  <2>2. CASE r # s
    BY <1>7, <1>a, <2>2, BehindStays DEF Subscribe
  <2> QED
    BY <2>1, <2>2
<1>8. ASSUME NEW r \in Subs, CallFetch(r) PROVE Behind(s)'
  <2>1. CASE r = s
    <3>1. /\ loop[s] = "top" /\ loop'[s] = "fetching"
          /\ UNCHANGED <<stash, msg, handled, next, fetched, owner>>
      BY <1>8, <2>1 DEF CallFetch
    <3> QED
      BY <1>a, <3>1 DEF Behind, DoneUpTo, MayHandOut
  <2>2. CASE r # s
    BY <1>8, <1>a, <2>2, BehindStays DEF CallFetch
  <2> QED
    BY <2>1, <2>2
<1>9. ASSUME NEW r \in Subs, FetchMessage(r) PROVE Behind(s)'
  <2>0. on[r] = r
    BY <1>9, <1>a DEF FetchMessage, Own
  <2>1. CASE r = s
    <3>1. /\ loop[s] = "fetching" /\ loop'[s] = "handling" /\ next[s] <= fetched[s]
          /\ msg'[s] = next[s] /\ next'[s] = next[s] + 1
          /\ UNCHANGED <<stash, handled, fetched, owner>>
      BY <1>9, <2>0, <2>1 DEF FetchMessage
    <3>2. DoneUpTo(GroupOf[s], next[s] - 1)
      BY <1>a, <3>1 DEF Behind, MayHandOut
    <3>3. next[s] \in Int /\ msg'[s] = next'[s] - 1
      <4>1. next[s] \in 1..(MaxLog + 1)
        OBVIOUS
      <4> QED
        BY ONLY <3>1, <4>1, LogAssumption
    <3> QED
      BY <1>a, <3>1, <3>2, <3>3 DEF Behind, DoneUpTo
  <2>2. CASE r # s
    BY <1>9, <1>a, <2>0, <2>2, BehindStays DEF FetchMessage
  <2> QED
    BY <2>1, <2>2
<1>10. ASSUME NEW r \in Subs, FetchFails(r) PROVE Behind(s)'
  <2>1. CASE r = s
    <3>1. /\ loop[s] = "fetching" /\ loop'[s] = "handling" /\ msg'[s] = 0
          /\ UNCHANGED <<stash, handled, next, fetched, owner>>
      BY <1>10, <2>1 DEF FetchFails, Offsets
    <3> QED
      BY <1>a, <3>1 DEF Behind, DoneUpTo, MayHandOut
  <2>2. CASE r # s
    BY <1>10, <1>a, <2>2, BehindStays DEF FetchFails
  <2> QED
    BY <2>1, <2>2
<1>11. ASSUME NEW r \in Subs, loop[r] = "handling", Done(r),
              Ack(r) \/ UNCHANGED stash,
              UNCHANGED <<owner, next, fetched, on>>,
              \/ UNCHANGED <<loop, msg>>
              \/ loop' = [loop EXCEPT ![r] = "top"] /\ msg' = [msg EXCEPT ![r] = 0]
       PROVE  Behind(s)'
  <2>1. handled \subseteq handled' /\ \A o \in 1..msg[r] : <<GroupOf[r], o>> \in handled'
    BY <1>11, DoneWith DEF InOrder
  <2>2. Reader(r) = r
    BY <1>11, <1>a DEF Own, Reader
  <2>3. CASE r = s
    <3>1. stash'[s] \in {stash[s], msg[s]}
      BY <1>11, <2>2, <2>3, MaxType DEF Ack
    <3>2. \A o \in 1..stash'[s] : <<GroupOf[s], o>> \in handled'
      BY <1>a, <1>b, <2>1, <2>3, <3>1 DEF Behind
    <3>3. CASE UNCHANGED <<loop, msg>>
      BY <1>11, <1>a, <2>1, <2>3, <3>2, <3>3 DEF Behind, DoneUpTo, MayHandOut
    <3>4. CASE loop'[s] = "top" /\ msg'[s] = 0
      <4>1. ASSUME MayHandOut(s)
            PROVE  \A o \in 1..(next[s] - 1) : <<GroupOf[s], o>> \in handled'
        BY <1>11, <1>a, <1>b, <2>1, <2>3, <4>1 DEF Behind
      <4>2. MayHandOut(s)' => MayHandOut(s)
        BY <1>11 DEF MayHandOut
      <4> QED
        BY <1>11, <3>2, <3>4, <4>1, <4>2 DEF Behind, DoneUpTo
    <3> QED
      BY <1>11, <2>3, <3>3, <3>4 DEF Offsets
  <2>4. CASE r # s
    <3>1. /\ stash'[s] = stash[s] /\ loop'[s] = loop[s] /\ msg'[s] = msg[s]
          /\ UNCHANGED <<owner, next, fetched>>
      BY <1>11, <2>2, <2>4 DEF Ack
    <3> QED
      BY <1>a, <2>1, <3>1, BehindStays
  <2> QED
    BY <2>3, <2>4
<1>12. ASSUME NEW r \in Subs, HandlerAcks(r) \/ HandlerSucceeds(r) PROVE Behind(s)'
  BY <1>11, <1>12 DEF HandlerAcks, HandlerSucceeds
<1>13. ASSUME NEW r \in Subs, HandlerFails(r) PROVE Behind(s)'
  <2>1. CASE r = s
    <3>1. loop'[s] = "done" /\ UNCHANGED <<stash, handled>>
      BY <1>13, <2>1 DEF HandlerFails
    <3> QED
      BY <1>a, <3>1 DEF Behind, DoneUpTo
  <2>2. CASE r # s
    BY <1>13, <1>a, <2>2, BehindStays DEF HandlerFails
  <2> QED
    BY <2>1, <2>2
<1>14. ASSUME NEW p \in Procs, Shutdown(p) PROVE Behind(s)'
  <2>1. /\ stash'[s] = stash[s] \/ stash'[s] = 0
        /\ owner'[GroupOf[s]] = s => owner[GroupOf[s]] = s
        /\ UNCHANGED <<loop, msg, handled, next, fetched>>
    BY <1>14 DEF Shutdown
  <2> QED
    BY <1>a, <2>1 DEF Behind, DoneUpTo, MayHandOut
<1>15. ASSUME NEW p \in Procs, ProcessEnds(p) PROVE Behind(s)'
  <2>1. CASE ProcOf[s] = p
    <3>1. /\ loop'[s] = "none" /\ next'[s] = 1 /\ stash'[s] = 0
      BY <1>15, <2>1 DEF ProcessEnds
    <3> QED
      BY <3>1 DEF Behind, DoneUpTo
  <2>2. CASE ProcOf[s] # p
    BY <1>15, <1>a, <2>2, BehindStays DEF ProcessEnds
  <2> QED
    BY <2>1, <2>2
<1> QED
  BY <1>1, <1>2, <1>3, <1>4, <1>5, <1>6, <1>7, <1>8, <1>9, <1>10, <1>12, <1>13, <1>14, <1>15
     DEF Next, Loop, Handler, Broker, ShutdownPanics, Kill

LEMMA InOrderStep == OneSubscription /\ TypeOK /\ InOrder /\ [Next]_vars => InOrder'
<1> SUFFICES ASSUME OneSubscription, TypeOK, InOrder, [Next]_vars PROVE InOrder'
  OBVIOUS
<1>1. \A s \in Subs : Own(s)' /\ Behind(s)'
  BY OwnStep, BehindStep DEF InOrder
<1>2. ASSUME NEW g \in Groups PROVE DoneUpTo(g, committed[g])'
  <2>1. handled \subseteq handled'
    BY DoneType, SubsAssumption DEF Next, vars, brokerVars, readerVars, Publish, Shutdown,
       ShutdownPanics, Kill, ProcessEnds, Subscribe, Loop, CallFetch, FetchMessage, FetchFails,
       Handler, HandlerAcks, HandlerSucceeds, HandlerFails, Broker, Assign, Fetch, DropBuffer,
       Commit, CommitLost
  <2>2. \/ committed'[g] = committed[g]
        \/ \E s \in Subs : GroupOf[s] = g /\ committed'[g] = stash[s]
    BY SubsAssumption, NoneAssumption DEF TypeOK, Next, vars, brokerVars, readerVars, Publish,
       Shutdown, ShutdownPanics, Kill, ProcessEnds, Subscribe, Loop, CallFetch, FetchMessage,
       FetchFails, Handler, HandlerAcks, HandlerSucceeds, HandlerFails, Broker, Assign, Fetch,
       DropBuffer, Commit, CommitLost
  <2> QED
    BY <2>1, <2>2 DEF InOrder, Behind, DoneUpTo
<1> QED
  BY <1>1, <1>2 DEF InOrder

(* The buffer of a reader begins behind an offset whose predecessors its   *)
(* group is done with, and so does every commit that is on its way         *)
(* (kafka.go:77-114).                                                      *)
THEOREM InOrderHolds == ASSUME OneSubscription PROVE Spec => []InOrder
<1>1. Init => InOrder
  BY InOrderInit
<1>2. TypeOK /\ InOrder /\ [Next]_vars => InOrder'
  BY InOrderStep
<1> QED
  BY <1>1, <1>2, TypeCorrect, PTL DEF Spec

(* With one subscription for each Provider no commit passes a message that *)
(* its group was not done with, for any number of processes and groups and *)
(* any lateness and loss of commits.                                       *)
THEOREM NothingSkippedHolds == ASSUME OneSubscription PROVE Spec => []NothingSkipped
<1>1. InOrder => NothingSkipped
  BY DEF InOrder, NothingSkipped, DoneUpTo
<1> QED
  BY <1>1, InOrderHolds, PTL

(* Nor does a handler get a message before its group is done with those    *)
(* that come before it.                                                    *)
THEOREM NoOvertakingHolds == ASSUME OneSubscription PROVE Spec => []NoOvertaking
<1>1. InOrder => NoOvertaking
  BY DEF InOrder, Behind, NoOvertaking, DoneUpTo
<1> QED
  BY <1>1, InOrderHolds, PTL

(* A group's handlers are done with its messages one by one, in the order  *)
(* of the log: none is done before all that come before it, whichever      *)
(* processes they run in and however often a message comes again.          *)
THEOREM OneByOne ==
  ASSUME OneSubscription
  PROVE  Spec => [][\A g \in Groups : \A o \in 1..MaxLog :
                      <<g, o>> \in handled' \ handled => DoneUpTo(g, o - 1)]_vars
<1>1. ASSUME TypeOK, InOrder, [Next]_vars, NEW g \in Groups, NEW o \in 1..MaxLog,
             <<g, o>> \in handled' \ handled
      PROVE  DoneUpTo(g, o - 1)
  <2>1. PICK s \in Subs : loop[s] = "handling" /\ handled' = handled \cup {<<GroupOf[s], msg[s]>>}
    BY <1>1 DEF Next, vars, brokerVars, readerVars, Publish, Shutdown, ShutdownPanics, Kill,
       ProcessEnds, Subscribe, Loop, CallFetch, FetchMessage, FetchFails, Handler,
       HandlerAcks, HandlerSucceeds, HandlerFails, Done, Broker, Assign, Fetch, DropBuffer,
       Commit, CommitLost
  <2>2. g = GroupOf[s] /\ o = msg[s]
    BY <1>1, <2>1
  <2> QED
    BY <1>1, <2>1, <2>2 DEF InOrder, Behind
<1>2. TypeOK /\ InOrder /\ [Next]_vars =>
        [\A g \in Groups : \A o \in 1..MaxLog :
           <<g, o>> \in handled' \ handled => DoneUpTo(g, o - 1)]_vars
  BY <1>1
<1> QED
  BY <1>2, InOrderHolds, TypeCorrect, PTL DEF Spec
=============================================================================
