---------------------------- MODULE MemoryProofs ----------------------------
(***************************************************************************)
(* Proofs about Lifecycle and Memory for any clients, finitely many calls  *)
(* of Subscribe and Shutdown, any messages and any chains of middleware.   *)
(*                                                                         *)
(* The argument: until SetClient is called again the first client stays    *)
(* the first one, every Subscribe uses it, and whoever is through the      *)
(* range over clients has shut it down (Graceful); a meeting on wait moves *)
(* one Shutdown and one Subscribe at once (OneForOne); and an append needs *)
(* the lock that no loop holds then (LoopSeesAll).                         *)
(*                                                                         *)
(* What a chain makes of an outcome is a recursive function of the chain.  *)
(* Facts about it for chains of any length are proved by induction from    *)
(* the far end (Backwards), which rests on the least element that every    *)
(* set of natural numbers has (LeastOne): sets stand where an induction    *)
(* theorem would have a predicate.                                         *)
(***************************************************************************)
EXTENDS Memory, FiniteSetTheorems, TLAPS

LEMMA InitType == Init => TypeOK
<1> SUFFICES ASSUME Init PROVE TypeOK
  OBVIOUS
<1> USE DEF Init, LifeInit
<1>1. /\ clients \in Seq(Clients) /\ clients # <<>>
      /\ todo \in [Stoppers -> Seq(Clients)]
  BY FirstAssumption
<1>2. /\ swapped \in BOOLEAN
      /\ subscriber \in [Subs -> {"idle", "setup", "refused", "waiting", "returned"}]
      /\ on \in [Subs -> Clients \cup {None}]
      /\ stopper \in [Stoppers -> {"idle", "sending", "released", "shutting", "returned"}]
      /\ down \in SUBSET Clients
      /\ main \in Mains
      /\ life \in {"up", "panicked", "exited"}
  OBVIOUS
<1>3. LifeTypeOK
  BY <1>1, <1>2 DEF LifeTypeOK
<1>4. /\ msgs \in Seq(Messages)
      /\ pub \in [Messages -> {"idle", "locking", "sent", "failed"}]
      /\ sub \in [Subs -> {"idle", "looping", "handling", "returned"}]
      /\ slice \in [Subs -> Nat]
      /\ next \in [Subs -> Nat]
      /\ awaits \in [Subs -> Messages \cup {None}]
      /\ counted \in [{"nil", "error"} -> Nat]
      /\ verdicts \in [Outcomes -> Nat]
  OBVIOUS
<1> QED
  BY <1>3, <1>4 DEF TypeOK

-----------------------------------------------------------------------------
(* The steps of subscribe.go and pubsub.go. *)

LifeStep ==
  \/ Application
  \/ \E s \in Subs : OnRefuses(s) \/ SetupReturns(s)
  \/ \E t \in Stoppers : Stopping(t)
  \/ Panic
  \/ MainReturns

(* They keep the types of Lifecycle. *)
LEMMA LifeTypeStep == LifeTypeOK /\ LifeStep => LifeTypeOK'
<1> SUFFICES ASSUME LifeTypeOK, LifeStep PROVE LifeTypeOK'
  OBVIOUS
<1> USE DEF LifeTypeOK, registered
<1>1. ASSUME NEW c \in Clients, SetClient(c) PROVE LifeTypeOK'
  BY <1>1 DEF SetClient
<1>2. ASSUME NEW c \in Clients, AddPublisherClient(c) PROVE LifeTypeOK'
  BY <1>2 DEF AddPublisherClient
<1>3. ASSUME NEW s \in Subs, Subscribe(s) PROVE LifeTypeOK'
  BY <1>3 DEF Subscribe
<1>4. ASSUME NEW t \in Stoppers, Shutdown(t) PROVE LifeTypeOK'
  BY <1>4 DEF Shutdown
<1>5. ASSUME NEW s \in Subs, OnRefuses(s) PROVE LifeTypeOK'
  BY <1>5 DEF OnRefuses, Panic
<1>6. ASSUME NEW s \in Subs, SetupReturns(s) PROVE LifeTypeOK'
  BY <1>6 DEF SetupReturns
<1>7. ASSUME NEW s \in Subs, NEW t \in Stoppers, Meet(s, t) PROVE LifeTypeOK'
  BY <1>7 DEF Meet
<1>8. ASSUME NEW t \in Stoppers, RangeClients(t) PROVE LifeTypeOK'
  BY <1>8 DEF RangeClients
<1>9. ASSUME NEW t \in Stoppers, ShutdownProvider(t) PROVE LifeTypeOK'
  BY <1>9 DEF ShutdownProvider
<1>10. ASSUME NEW t \in Stoppers, ShutdownReturns(t) PROVE LifeTypeOK'
  BY <1>10 DEF ShutdownReturns
<1>11. CASE Panic
  BY <1>11 DEF Panic
<1>12. CASE MainReturns
  BY <1>12 DEF MainReturns
<1> QED
  BY <1>1, <1>2, <1>3, <1>4, <1>5, <1>6, <1>7, <1>8, <1>9, <1>10, <1>11, <1>12
     DEF LifeStep, Application, Stopping

-----------------------------------------------------------------------------
(* The steps of memory.go either leave what Lifecycle keeps alone or are   *)
(* one of its steps.                                                       *)
LEMMA MemoryStep == [Next]_vars => LifeStep \/ UNCHANGED lifeVars
<1> SUFFICES ASSUME [Next]_vars PROVE LifeStep \/ UNCHANGED lifeVars
  OBVIOUS
<1> USE DEF LifeStep
<1>1. CASE UNCHANGED vars
  BY <1>1 DEF vars
<1>2. CASE Application
  BY <1>2
<1>3. ASSUME NEW p \in Messages, PublishCalled(p) PROVE LifeStep \/ UNCHANGED lifeVars
  BY <1>3 DEF PublishCalled, Panic, lifeVars
<1>4. ASSUME NEW p \in Messages, PublishRuns(p) PROVE LifeStep \/ UNCHANGED lifeVars
  BY <1>4 DEF PublishRuns
<1>5. ASSUME NEW s \in Subs, NEW o \in Outcomes, Outcome(s, o)
      PROVE  LifeStep \/ UNCHANGED lifeVars
  BY <1>5 DEF Outcome
<1>6. ASSUME NEW s \in Subs, Loop(s) PROVE LifeStep \/ UNCHANGED lifeVars
  BY <1>6, <1>5 DEF Loop, RLock, CallHandler, CannotDecode, HandlerGoesOn, Return, Outcomes
<1>7. ASSUME NEW s \in Subs, ProviderReturns(s) PROVE LifeStep \/ UNCHANGED lifeVars
  BY <1>7 DEF ProviderReturns
<1>8. ASSUME NEW s \in Subs, OnRefuses(s) PROVE LifeStep \/ UNCHANGED lifeVars
  BY <1>8
<1>9. ASSUME NEW s \in Subs, HandlerReturns(s) PROVE LifeStep \/ UNCHANGED lifeVars
  BY <1>9, <1>5 DEF HandlerReturns
<1>10. ASSUME NEW s \in Subs, NEW p \in Messages, HandlerPublishes(s, p)
       PROVE  LifeStep \/ UNCHANGED lifeVars
  BY <1>10, <1>3 DEF HandlerPublishes
<1>11. CASE (\E t \in Stoppers : Stopping(t)) \/ MainReturns
  BY <1>11
<1> QED
  BY <1>1, <1>2, <1>3, <1>4, <1>6, <1>7, <1>8, <1>9, <1>10, <1>11 DEF Next, Running

(* What an outcome does to the variables of memory.go. *)
LEMMA OutcomeType ==
  ASSUME TypeOK, NEW s \in Subs, NEW o \in Outcomes, Outcome(s, o), chain' \in Chains[main']
  PROVE  TypeOK'
<1>1. LifeTypeOK'
  BY LifeTypeStep DEF Outcome, TypeOK, LifeStep, LifeTypeOK, lifeVars, registered
<1>2. /\ counted' \in [{"nil", "error"} -> Nat]
      /\ verdicts' \in [Outcomes -> Nat]
  BY DEF Outcome, Bump, TypeOK
<1>3. /\ sub' \in [Subs -> {"idle", "looping", "handling", "returned"}]
      /\ next' \in [Subs -> Nat]
  <2>1. CASE ThroughSubscribers(chain, o).outcome = "panic"
    BY <2>1 DEF Outcome, TypeOK
  <2>2. CASE ThroughSubscribers(chain, o).outcome # "panic"
    <3>1. sub' = [sub EXCEPT ![s] = "looping"] /\ next' = [next EXCEPT ![s] = @ + 1]
      BY <2>2 DEF Outcome
    <3> QED
      BY <3>1 DEF TypeOK
  <2> QED
    BY <2>1, <2>2
<1> QED
  BY <1>1, <1>2, <1>3 DEF Outcome, TypeOK

(* A call of Publish gets to the lock or fails. *)
LEMMA PublishCalledType ==
  ASSUME TypeOK, NEW p \in Messages, PublishCalled(p)
  PROVE  /\ pub' \in [Messages -> {"idle", "locking", "sent", "failed"}]
         /\ UNCHANGED <<chain, msgs, sub, slice, next, counted, verdicts, main>>
  BY DEF PublishCalled, TypeOK

(* Every step keeps the types; main never changes, nor does the chain of   *)
(* the client.                                                             *)
LEMMA TypeStep == TypeOK /\ [Next]_vars => TypeOK'
<1> SUFFICES ASSUME TypeOK, [Next]_vars PROVE TypeOK'
  OBVIOUS
<1>1. LifeTypeOK'
  <2>1. CASE LifeStep
    BY <2>1, LifeTypeStep DEF TypeOK
  <2>2. CASE UNCHANGED lifeVars
    BY <2>2 DEF TypeOK, LifeTypeOK, lifeVars, registered
  <2> QED
    BY <2>1, <2>2, MemoryStep
<1>2. UNCHANGED <<chain, main>> => chain' \in Chains[main']
  BY DEF TypeOK
<1>3. CASE UNCHANGED memVars /\ UNCHANGED main
  BY <1>1, <1>2, <1>3 DEF TypeOK, memVars
<1>4. CASE UNCHANGED vars
  BY <1>3, <1>4 DEF vars, lifeVars
<1>5. CASE Application /\ UNCHANGED memVars
  <2>1. UNCHANGED main
    BY <1>5 DEF Application, SetClient, AddPublisherClient, Subscribe, Shutdown
  <2> QED
    BY <1>3, <1>5, <2>1
<1>6. ASSUME NEW p \in Messages, PublishCalled(p), UNCHANGED awaits PROVE TypeOK'
  BY <1>1, <1>2, <1>6, PublishCalledType DEF TypeOK
<1>7. ASSUME NEW p \in Messages, PublishRuns(p) PROVE TypeOK'
  BY <1>1, <1>2, <1>7 DEF TypeOK, PublishRuns, lifeVars
<1>8. ASSUME NEW s \in Subs, NEW o \in Outcomes, Outcome(s, o) PROVE TypeOK'
  BY <1>2, <1>8, OutcomeType DEF Outcome, Panic, lifeVars
<1>9. ASSUME NEW s \in Subs, RLock(s) PROVE TypeOK'
  BY <1>1, <1>2, <1>9 DEF TypeOK, RLock, lifeVars
<1>10. ASSUME NEW s \in Subs, CallHandler(s) PROVE TypeOK'
  BY <1>1, <1>2, <1>10 DEF TypeOK, CallHandler, lifeVars
<1>11. ASSUME NEW s \in Subs, CannotDecode(s) PROVE TypeOK'
  BY <1>8, <1>11 DEF CannotDecode, Outcomes
<1>12. ASSUME NEW s \in Subs, HandlerGoesOn(s) PROVE TypeOK'
  BY <1>1, <1>2, <1>12 DEF TypeOK, HandlerGoesOn, lifeVars
<1>13. ASSUME NEW s \in Subs, Return(s) PROVE TypeOK'
  BY <1>1, <1>2, <1>13 DEF TypeOK, Return, lifeVars
<1>14. ASSUME NEW s \in Subs, ProviderReturns(s) PROVE TypeOK'
  BY <1>3, <1>14 DEF ProviderReturns, SetupReturns
<1>15. ASSUME NEW s \in Subs, OnRefuses(s), UNCHANGED memVars PROVE TypeOK'
  BY <1>3, <1>15 DEF OnRefuses, Panic
<1>16. ASSUME NEW s \in Subs, HandlerReturns(s) PROVE TypeOK'
  BY <1>8, <1>16 DEF HandlerReturns
<1>17. ASSUME NEW s \in Subs, NEW p \in Messages, HandlerPublishes(s, p) PROVE TypeOK'
  BY <1>1, <1>2, <1>17, PublishCalledType DEF TypeOK, HandlerPublishes
<1>18. ASSUME NEW t \in Stoppers, Stopping(t), UNCHANGED memVars PROVE TypeOK'
  BY <1>3, <1>18 DEF Stopping, Meet, RangeClients, ShutdownProvider, ShutdownReturns
<1>19. CASE MainReturns /\ UNCHANGED memVars
  BY <1>3, <1>19 DEF MainReturns
<1> QED
  BY <1>4, <1>5, <1>6, <1>7, <1>9, <1>10, <1>11, <1>12, <1>13, <1>14, <1>15, <1>16,
     <1>17, <1>18, <1>19 DEF Next, Running, Loop

(* Every variable of Lifecycle and Memory keeps its type.                *)
THEOREM TypeCorrect == Spec => []TypeOK
<1>1. Init => TypeOK
  BY InitType
<1>2. TypeOK /\ [Next]_vars => TypeOK'
  BY TypeStep
<1> QED
  BY <1>1, <1>2, PTL DEF Spec

-----------------------------------------------------------------------------
(* A message is appended under the lock that no loop holds then, and a     *)
(* loop that begins takes the length as it is.                             *)
LEMMA LoopSeesAllStep == TypeOK /\ LoopSeesAll /\ [Next]_vars => LoopSeesAll'
<1> SUFFICES ASSUME TypeOK, LoopSeesAll, [Next]_vars PROVE LoopSeesAll'
  OBVIOUS
<1> USE DEF LoopSeesAll, Readers
<1>1. CASE UNCHANGED memVars
  BY <1>1 DEF memVars
<1>2. ASSUME NEW p \in Messages, PublishCalled(p) PROVE LoopSeesAll'
  BY <1>2 DEF PublishCalled
<1>3. ASSUME NEW p \in Messages, PublishRuns(p) PROVE LoopSeesAll'
  BY <1>3 DEF PublishRuns
<1>4. ASSUME NEW s \in Subs, NEW o, s \in Readers, Outcome(s, o) PROVE LoopSeesAll'
  BY <1>4 DEF Outcome, TypeOK
<1>5. ASSUME NEW s \in Subs, RLock(s) PROVE LoopSeesAll'
  BY <1>5 DEF RLock, TypeOK
<1>6. ASSUME NEW s \in Subs, CallHandler(s) PROVE LoopSeesAll'
  BY <1>6 DEF CallHandler, TypeOK
<1>7. ASSUME NEW s \in Subs, CannotDecode(s) PROVE LoopSeesAll'
  BY <1>4, <1>7 DEF CannotDecode
<1>8. ASSUME NEW s \in Subs, HandlerGoesOn(s) PROVE LoopSeesAll'
  BY <1>8 DEF HandlerGoesOn
<1>9. ASSUME NEW s \in Subs, Return(s) PROVE LoopSeesAll'
  BY <1>9 DEF Return, TypeOK
<1>10. ASSUME NEW s \in Subs, HandlerReturns(s) PROVE LoopSeesAll'
  BY <1>4, <1>10 DEF HandlerReturns
<1>11. ASSUME NEW s \in Subs, NEW p \in Messages, HandlerPublishes(s, p)
       PROVE  LoopSeesAll'
  BY <1>2, <1>11 DEF HandlerPublishes
<1> QED
  BY <1>1, <1>2, <1>3, <1>5, <1>6, <1>7, <1>8, <1>9, <1>10, <1>11
     DEF Next, Running, Loop, ProviderReturns, vars

(* Whatever is published before a call of Subscribe returns is handed to   *)
(* its handler, for any number of calls and messages.                      *)
THEOREM LoopSeesAllHolds == Spec => []LoopSeesAll
<1>1. Init => LoopSeesAll
  BY DEF Init, LoopSeesAll, Readers
<1>2. TypeOK /\ LoopSeesAll /\ [Next]_vars => LoopSeesAll'
  BY LoopSeesAllStep
<1> QED
  BY <1>1, <1>2, TypeCorrect, PTL DEF Spec

-----------------------------------------------------------------------------
(* A Shutdown gets past wait together with a Subscribe, and neither does   *)
(* without the other.                                                      *)

Past  == {t \in Stoppers : stopper[t] \notin {"idle", "sending"}}
Ended == {s \in Subs : subscriber[s] = "returned"}

LEMMA PastFinite == IsFiniteSet(Past) /\ IsFiniteSet(Ended)
  BY CallsAssumption, FS_Subset DEF Past, Ended

LEMMA OneForOneStep ==
  LifeTypeOK /\ OneForOne /\ (LifeStep \/ UNCHANGED lifeVars) => OneForOne'
<1> SUFFICES ASSUME LifeTypeOK, OneForOne, LifeStep \/ UNCHANGED lifeVars
             PROVE  Cardinality(Past') = Cardinality(Ended')
  BY DEF OneForOne, Past, Ended
<1>1. Cardinality(Past) = Cardinality(Ended)
  BY DEF OneForOne, Past, Ended
<1> DEFINE Apart == Past' = Past /\ Ended' = Ended
<1>2. Apart => Cardinality(Past') = Cardinality(Ended')
  BY <1>1
<1> USE DEF Past, Ended, LifeTypeOK
<1>3. CASE UNCHANGED lifeVars
  BY <1>2, <1>3 DEF lifeVars
<1>4. ASSUME NEW c \in Clients, SetClient(c) \/ AddPublisherClient(c) PROVE Apart
  BY <1>4 DEF SetClient, AddPublisherClient
<1>5. ASSUME NEW s \in Subs, Subscribe(s) PROVE Apart
  BY <1>5 DEF Subscribe
<1>6. ASSUME NEW t \in Stoppers, Shutdown(t) PROVE Apart
  BY <1>6 DEF Shutdown
<1>7. ASSUME NEW s \in Subs, OnRefuses(s) PROVE Apart
  BY <1>7 DEF OnRefuses, Panic
<1>8. ASSUME NEW s \in Subs, SetupReturns(s) PROVE Apart
  BY <1>8 DEF SetupReturns
<1>9. ASSUME NEW s \in Subs, NEW t \in Stoppers, Meet(s, t)
      PROVE  Cardinality(Past') = Cardinality(Ended')
  <2>1. /\ t \notin Past /\ Past' = Past \cup {t}
        /\ s \notin Ended /\ Ended' = Ended \cup {s}
    BY <1>9 DEF Meet
  <2>2. /\ Cardinality(Past') = Cardinality(Past) + 1
        /\ Cardinality(Ended') = Cardinality(Ended) + 1
    BY <2>1, PastFinite, FS_AddElement
  <2> QED
    BY <1>1, <2>2
<1>10. ASSUME NEW t \in Stoppers, RangeClients(t) PROVE Apart
  BY <1>10 DEF RangeClients
<1>11. ASSUME NEW t \in Stoppers, ShutdownProvider(t) PROVE Apart
  BY <1>11 DEF ShutdownProvider
<1>12. ASSUME NEW t \in Stoppers, ShutdownReturns(t) PROVE Apart
  BY <1>12 DEF ShutdownReturns
<1>13. CASE Panic \/ MainReturns
  BY <1>2, <1>13 DEF Panic, MainReturns
<1> QED
  BY <1>2, <1>3, <1>4, <1>5, <1>6, <1>7, <1>8, <1>9, <1>10, <1>11, <1>12, <1>13
     DEF LifeStep, Application, Stopping

(* As many calls of Subscribe have ended as calls of Shutdown have got     *)
(* past the channel, for any finite number of both.                        *)
THEOREM OneForOneHolds == Spec => []OneForOne
<1>1. Init => OneForOne
  <2> SUFFICES ASSUME Init PROVE OneForOne
    OBVIOUS
  <2>1. /\ {t \in Stoppers : stopper[t] \notin {"idle", "sending"}} = {}
        /\ {s \in Subs : subscriber[s] = "returned"} = {}
    BY DEF Init, LifeInit
  <2> QED
    BY <2>1 DEF OneForOne
<1>2. TypeOK /\ OneForOne /\ [Next]_vars => OneForOne'
  BY OneForOneStep, MemoryStep DEF TypeOK
<1> QED
  BY <1>1, <1>2, TypeCorrect, PTL DEF Spec

-----------------------------------------------------------------------------
(* Until SetClient is called again the first client stays the first one    *)
(* and is the one that is set up; a Shutdown that has begun with the       *)
(* clients has it before it, or behind it.                                 *)
Graceful ==
  ~swapped =>
    /\ clients[1] = First
    /\ \A s \in Subs : on[s] \in {None, First}
    /\ \A t \in Stoppers :
         /\ stopper[t] = "shutting" =>
              First \in down \/ (todo[t] # <<>> /\ Head(todo[t]) = First)
         /\ stopper[t] = "returned" => First \in down
    /\ life = "exited" /\ main \in Stoppers => First \in down

LEMMA GracefulStep ==
  LifeTypeOK /\ Graceful /\ (LifeStep \/ UNCHANGED lifeVars) => Graceful'
<1> SUFFICES ASSUME LifeTypeOK, Graceful, LifeStep \/ UNCHANGED lifeVars, ~swapped'
             PROVE  Graceful'
  BY DEF Graceful
<1> USE DEF Graceful, LifeTypeOK, registered
<1>1. CASE UNCHANGED lifeVars
  BY <1>1 DEF lifeVars
<1>2. ASSUME NEW c \in Clients, SetClient(c) PROVE Graceful'
  BY <1>2 DEF SetClient
<1>3. ASSUME NEW c \in Clients, AddPublisherClient(c) PROVE Graceful'
  <2>1. clients'[1] = clients[1]
    BY <1>3 DEF AddPublisherClient
  <2> QED
    BY <1>3, <2>1 DEF AddPublisherClient
<1>4. ASSUME NEW s \in Subs, Subscribe(s) PROVE Graceful'
  BY <1>4 DEF Subscribe
<1>5. ASSUME NEW t \in Stoppers, Shutdown(t) PROVE Graceful'
  BY <1>5 DEF Shutdown
<1>6. ASSUME NEW s \in Subs, OnRefuses(s) PROVE Graceful'
  BY <1>6 DEF OnRefuses, Panic
<1>7. ASSUME NEW s \in Subs, SetupReturns(s) PROVE Graceful'
  BY <1>7 DEF SetupReturns
<1>8. ASSUME NEW s \in Subs, NEW t \in Stoppers, Meet(s, t) PROVE Graceful'
  BY <1>8 DEF Meet
<1>9. ASSUME NEW t \in Stoppers, RangeClients(t) PROVE Graceful'
  <2>1. clients # <<>> /\ Head(clients) = First
    BY <1>9 DEF RangeClients
  <2> QED
    BY <1>9, <2>1 DEF RangeClients
<1>10. ASSUME NEW t \in Stoppers, ShutdownProvider(t) PROVE Graceful'
  <2>1. First \in down'
    BY <1>10 DEF ShutdownProvider
  <2> QED
    BY <1>10, <2>1 DEF ShutdownProvider
<1>11. ASSUME NEW t \in Stoppers, ShutdownReturns(t) PROVE Graceful'
  BY <1>11 DEF ShutdownReturns
<1>12. CASE Panic
  BY <1>12 DEF Panic
<1>13. CASE MainReturns
  BY <1>13, ApartAssumption DEF MainReturns
<1> QED
  BY <1>1, <1>2, <1>3, <1>4, <1>5, <1>6, <1>7, <1>8, <1>9, <1>10, <1>11, <1>12, <1>13
     DEF LifeStep, Application, Stopping

(* A program that ends with Shutdown has shut down every provider that was *)
(* set up, if its client is still the first, for any clients and calls.  *)
THEOREM ExitIsGracefulHolds == Spec => []ExitIsGraceful
<1>1. Init => Graceful
  BY DEF Init, LifeInit, Graceful
<1>2. TypeOK /\ Graceful /\ [Next]_vars => Graceful'
  BY GracefulStep, MemoryStep DEF TypeOK
<1>3. Graceful => ExitIsGraceful
  BY DEF Graceful, ExitIsGraceful
<1> QED
  BY <1>1, <1>2, <1>3, TypeCorrect, PTL DEF Spec

-----------------------------------------------------------------------------
(* What goes through a chain of any length. *)

(* Induction over the natural numbers, from the least element that a set   *)
(* of them has.                                                            *)
LEMMA LeastOne ==
  ASSUME NEW T \in SUBSET Nat, T # {}
  PROVE  \E x \in T : \A y \in T : x <= y
<1>1. PICK x \in T : \A y \in T : ~(<<y, x>> \in OpToRel(<, Nat))
  BY NatLessThanWellFounded, WFMin
<1>2. \A y \in T : ~(y < x)
  BY <1>1 DEF OpToRel
<1> QED
  BY <1>2, SMT

LEMMA Induction ==
  ASSUME NEW P, 0 \in P, \A n \in Nat : n \in P => n + 1 \in P
  PROVE  \A n \in Nat : n \in P
<1> DEFINE T == Nat \ P
<1> SUFFICES ASSUME T # {} PROVE FALSE
  OBVIOUS
<1>1. PICK x \in T : \A y \in T : x <= y
  <2> HIDE DEF T
  <2> QED
   BY LeastOne DEF T
<1>2. x # 0 /\ x - 1 \in Nat /\ x - 1 \notin T
  BY <1>1
<1> QED
  BY <1>2

(* And from the far end of a chain to its beginning. *)
LEMMA Backwards ==
  ASSUME NEW n \in Nat, NEW P, n + 1 \in P, \A i \in 1..n : i + 1 \in P => i \in P
  PROVE  \A i \in 1..(n + 1) : i \in P
<1> DEFINE Q == {k \in Nat : k <= n => n + 1 - k \in P}
<1>1. 0 \in Q
  OBVIOUS
<1>2. \A k \in Nat : k \in Q => k + 1 \in Q
  <2> SUFFICES ASSUME NEW k \in Nat, k \in Q, k + 1 <= n PROVE n + 1 - (k + 1) \in P
    OBVIOUS
  <2>1. n - k \in 1..n /\ n + 1 - k \in P /\ n + 1 - (k + 1) = n - k /\ (n - k) + 1 = n + 1 - k
    OBVIOUS
  <2> QED
    BY <2>1
<1>3. \A k \in Nat : k \in Q
  <2> HIDE DEF Q
  <2> QED
    BY <1>1, <1>2, Induction
<1> SUFFICES ASSUME NEW i \in 1..(n + 1) PROVE i \in P
  OBVIOUS
<1>4. n + 1 - i \in Nat /\ n + 1 - i <= n /\ n + 1 - (n + 1 - i) = i
  OBVIOUS
<1> QED
  BY <1>3, <1>4

(* What goes through n wrappers, from the inside out. *)
Folds(f, n, V, base, W) ==
  /\ f \in [1..(n + 1) -> V]
  /\ f[n + 1] = base
  /\ \A i \in 1..n : f[i] = W[i][f[i + 1]]

LEMMA FoldExists ==
  ASSUME NEW n \in Nat, NEW V, NEW base \in V, NEW W \in [1..n -> [V -> V]]
  PROVE  \E f : Folds(f, n, V, base, W)
<1> DEFINE Partial(f, i) ==
      /\ f[n + 1] = base
      /\ \A j \in i..n : f[j] = W[j][f[j + 1]]
<1> DEFINE P == {i \in 1..(n + 1) : \E f \in [1..(n + 1) -> V] : Partial(f, i)}
<1>1. n + 1 \in P
  <2> DEFINE g == [i \in 1..(n + 1) |-> base]
  <2>1. g \in [1..(n + 1) -> V]
    OBVIOUS
  <2>2. Partial(g, n + 1)
    OBVIOUS
  <2> HIDE DEF g, Partial
  <2> QED
    BY <2>1, <2>2
<1>2. ASSUME NEW i \in 1..n, i + 1 \in P PROVE i \in P
  <2>1. PICK f \in [1..(n + 1) -> V] : Partial(f, i + 1)
    BY <1>2
  <2> DEFINE g == [f EXCEPT ![i] = W[i][f[i + 1]]]
  <2>2. W[i][f[i + 1]] \in V
    OBVIOUS
  <2>3. g \in [1..(n + 1) -> V]
    BY <2>2
  <2>4. Partial(g, i)
    <3>1. g[n + 1] = base
      BY <2>1
    <3>2. ASSUME NEW j \in i..n PROVE g[j] = W[j][g[j + 1]]
      BY <2>1
    <3> QED
      BY <3>1, <3>2
  <2> HIDE DEF g, Partial
  <2> QED
    BY <2>3, <2>4
<1>3. 1 \in P
  <2> HIDE DEF P
  <2> QED
    BY <1>1, <1>2, Backwards
<1> QED
  BY <1>3 DEF Folds

-----------------------------------------------------------------------------
Results == [outcome : Outcomes, counted : SUBSET {"nil", "error"}]

LEMMA InterceptType ==
  ASSUME NEW kind \in Kinds, NEW r \in Results
  PROVE  Intercept(kind, r) \in Results
  BY DEF Intercept, Recovered, Counted, Results, Outcomes

(* What the i-th member of a chain makes of the result of what it wraps,   *)
(* in front of a handler or, if publishing, of a provider's Publish.       *)
Around(mw, i, r, publishing) ==
  IF publishing /\ AuditPanics(mw, i) THEN Result("panic") ELSE Intercept(mw[i], r)

(* f is what comes out of each member of a chain around the outcome o. *)
Passes(f, mw, o, publishing) ==
  /\ f \in [1..(Len(mw) + 1) -> Results]
  /\ f[Len(mw) + 1] = Result(o)
  /\ \A i \in 1..Len(mw) : f[i] = Around(mw, i, f[i + 1], publishing)

LEMMA AroundType ==
  ASSUME NEW mw \in Seq(Kinds), NEW i \in 1..Len(mw), NEW r \in Results,
         NEW publishing \in BOOLEAN
  PROVE  Around(mw, i, r, publishing) \in Results
  BY InterceptType DEF Around, Result, Results, Outcomes

(* The equation of the chain has a solution, ... *)
LEMMA ChainExists ==
  ASSUME NEW mw \in Seq(Kinds), NEW o \in Outcomes, NEW publishing \in BOOLEAN
  PROVE  \E f : Passes(f, mw, o, publishing)
<1> DEFINE n == Len(mw)
<1> DEFINE W == [i \in 1..n |-> [r \in Results |-> Around(mw, i, r, publishing)]]
<1>1. n \in Nat /\ Result(o) \in Results
  BY DEF Result, Results
<1>2. W \in [1..n -> [Results -> Results]]
  BY AroundType
<1>3. PICK g : Folds(g, n, Results, Result(o), W)
  <2> HIDE DEF W, n
  <2> QED
    BY <1>1, <1>2, FoldExists
<1>4. g \in [1..(n + 1) -> Results] /\ g[n + 1] = Result(o)
  BY <1>3 DEF Folds
<1>5. \A i \in 1..n : g[i] = W[i][g[i + 1]] /\ g[i + 1] \in Results
  BY <1>1, <1>3 DEF Folds
<1> QED
  BY <1>4, <1>5 DEF Passes

(* ... and whatever satisfies it is one. *)
LEMMA ChainEquation ==
  ASSUME NEW mw \in Seq(Kinds), NEW o \in Outcomes, NEW publishing \in BOOLEAN, NEW f,
         f = [i \in 1..(Len(mw) + 1) |->
                IF i > Len(mw) THEN Result(o) ELSE Around(mw, i, f[i + 1], publishing)]
  PROVE  Passes(f, mw, o, publishing)
<1>1. /\ Len(mw) \in Nat
      /\ f[Len(mw) + 1] = Result(o)
      /\ \A i \in 1..Len(mw) : f[i] = Around(mw, i, f[i + 1], publishing)
  OBVIOUS
<1>2. \A i \in 1..(Len(mw) + 1) : f[i] \in Results
  <2> DEFINE P == {i \in 1..(Len(mw) + 1) : f[i] \in Results}
  <2>1. Len(mw) + 1 \in P
    BY <1>1 DEF Result, Results
  <2>2. \A i \in 1..Len(mw) : i + 1 \in P => i \in P
    BY <1>1, AroundType
  <2>3. \A i \in 1..(Len(mw) + 1) : i \in P
    <3> HIDE DEF P
    <3> QED
      BY <1>1, <2>1, <2>2, Backwards
  <2> QED
    BY <2>3
<1>3. f \in [1..(Len(mw) + 1) -> Results]
  BY <1>2
<1> QED
  BY <1>1, <1>3 DEF Passes

(* So both chains are what the members make of an outcome, one by one. *)
LEMMA SubscriberChain ==
  ASSUME NEW mw \in Seq(Kinds), NEW o \in Outcomes
  PROVE  \E f : Passes(f, mw, o, FALSE) /\ ThroughSubscribers(mw, o) = f[1]
<1> DEFINE step(f) ==
      [i \in 1..(Len(mw) + 1) |->
         IF i > Len(mw) THEN Result(o) ELSE Intercept(mw[i], f[i + 1])]
<1> DEFINE from == CHOOSE f : f = step(f)
<1>1. \A f : step(f) = [i \in 1..(Len(mw) + 1) |->
         IF i > Len(mw) THEN Result(o) ELSE Around(mw, i, f[i + 1], FALSE)]
  BY DEF Around
<1>2. from = step(from)
  <2>1. PICK g : Passes(g, mw, o, FALSE)
    BY ChainExists
  <2>2. g = step(g)
    BY <2>1 DEF Passes, Around
  <2> QED
    BY <2>2
<1>3. ThroughSubscribers(mw, o) = from[1]
  BY DEF ThroughSubscribers
<1>4. Passes(from, mw, o, FALSE)
  <2> HIDE DEF from
  <2> QED
    BY <1>1, <1>2, ChainEquation
<1> HIDE DEF from
<1> QED
  BY <1>3, <1>4

LEMMA PublisherChain ==
  ASSUME NEW mw \in Seq(Kinds), NEW o \in Outcomes
  PROVE  \E f : Passes(f, mw, o, TRUE) /\ ThroughPublishers(mw, o) = f[1]
<1> DEFINE step(f) ==
      [i \in 1..(Len(mw) + 1) |->
         IF i > Len(mw) THEN Result(o)
         ELSE IF AuditPanics(mw, i) THEN Result("panic")
         ELSE Intercept(mw[i], f[i + 1])]
<1> DEFINE from == CHOOSE f : f = step(f)
<1>1. \A f : step(f) = [i \in 1..(Len(mw) + 1) |->
         IF i > Len(mw) THEN Result(o) ELSE Around(mw, i, f[i + 1], TRUE)]
  BY DEF Around
<1>2. from = step(from)
  <2>1. PICK g : Passes(g, mw, o, TRUE)
    BY ChainExists
  <2>2. g = step(g)
    BY <2>1 DEF Passes, Around
  <2> QED
    BY <2>2
<1>3. ThroughPublishers(mw, o) = from[1]
  BY DEF ThroughPublishers
<1>4. Passes(from, mw, o, TRUE)
  <2> HIDE DEF from
  <2> QED
    BY <1>1, <1>2, ChainEquation
<1> HIDE DEF from
<1> QED
  BY <1>3, <1>4

-----------------------------------------------------------------------------
Recovering == {"recover", "recoverNil"}

(* Kinds of chains: one that has a recover at all; one whose recover is    *)
(* not told to return nil; one that counts what a recover has made of a    *)
(* panic.                                                                  *)
Recovers(mw)     == \E i \in 1..Len(mw) : mw[i] \in Recovering
HidesNothing(mw) == \A i \in 1..Len(mw) : mw[i] # "recoverNil"
Watched(mw) ==
  \E i, j \in 1..Len(mw) : i < j /\ mw[i] = "prometheus" /\ mw[j] \in Recovering

(* One step of a chain: no member changes an outcome but a recover, and    *)
(* that only a panic.                                                      *)
LEMMA InterceptOutcome ==
  ASSUME NEW kind \in Kinds, NEW r \in Results
  PROVE  /\ r.outcome # "panic" \/ kind \notin Recovering => Intercept(kind, r).outcome = r.outcome
         /\ kind = "recover" /\ r.outcome = "panic" => Intercept(kind, r).outcome = "error"
         /\ kind = "recoverNil" /\ r.outcome = "panic" => Intercept(kind, r).outcome = "nil"
         /\ Intercept(kind, r).counted =
              IF kind = "prometheus" /\ r.outcome # "panic" THEN r.counted \cup {r.outcome}
              ELSE r.counted
  BY DEF Intercept, Recovered, Counted, Results, Outcomes, Recovering

(* nil and errors get through every chain as they are. *)
LEMMA OutcomeKept ==
  ASSUME NEW mw \in Seq(Kinds), NEW o \in Outcomes, o # "panic", NEW f, Passes(f, mw, o, FALSE)
  PROVE  \A i \in 1..(Len(mw) + 1) : f[i].outcome = o
<1> DEFINE P == {i \in 1..(Len(mw) + 1) : f[i].outcome = o}
<1>1. Len(mw) \in Nat /\ Len(mw) + 1 \in P
  BY DEF Passes, Result
<1>2. ASSUME NEW i \in 1..Len(mw), i + 1 \in P PROVE i \in P
  <2> DEFINE k == mw[i]
  <2> DEFINE r == f[i + 1]
  <2>1. k \in Kinds /\ r \in Results /\ r.outcome = o /\ f[i] = Intercept(k, r)
    BY <1>1, <1>2 DEF Passes, Around
  <2>2. f[i].outcome = o
    <3> HIDE DEF k, r
    <3>1. Intercept(k, r).outcome = r.outcome
      BY <2>1, InterceptOutcome DEF Recovering
    <3> QED
      BY <2>1, <3>1
  <2> QED
    BY <2>2
<1>3. \A i \in 1..(Len(mw) + 1) : i \in P
  <2> HIDE DEF P
  <2> QED
    BY <1>1, <1>2, Backwards
<1> QED
  BY <1>3

(* A panic gets out of the part of a chain that has no recover, and of no  *)
(* other.                                                                  *)
LEMMA PanicStopped ==
  ASSUME NEW mw \in Seq(Kinds), NEW f, Passes(f, mw, "panic", FALSE)
  PROVE  \A i \in 1..(Len(mw) + 1) :
           f[i].outcome = "panic" <=> \A j \in i..Len(mw) : mw[j] \notin Recovering
<1> DEFINE P == {i \in 1..(Len(mw) + 1) :
      f[i].outcome = "panic" <=> \A j \in i..Len(mw) : mw[j] \notin Recovering}
<1>1. Len(mw) \in Nat /\ Len(mw) + 1 \in P
  BY DEF Passes, Result
<1>2. ASSUME NEW i \in 1..Len(mw), i + 1 \in P PROVE i \in P
  <2> DEFINE k == mw[i]
  <2> DEFINE r == f[i + 1]
  <2>1. k \in Kinds /\ r \in Results /\ f[i] = Intercept(k, r)
    BY <1>1 DEF Passes, Around
  <2>2. f[i].outcome = "panic" <=> r.outcome = "panic" /\ k \notin Recovering
    <3> HIDE DEF k, r
    <3>1. Intercept(k, r).outcome = "panic" <=> r.outcome = "panic" /\ k \notin Recovering
      BY <2>1, InterceptOutcome DEF Recovering
    <3> QED
      BY <2>1, <3>1
  <2>3. (\A j \in i..Len(mw) : mw[j] \notin Recovering)
           <=> mw[i] \notin Recovering /\ \A j \in (i + 1)..Len(mw) : mw[j] \notin Recovering
    OBVIOUS
  <2> QED
    BY <1>2, <2>2, <2>3
<1>3. \A i \in 1..(Len(mw) + 1) : i \in P
  <2> HIDE DEF P
  <2> QED
    BY <1>1, <1>2, Backwards
<1> QED
  BY <1>3

(* A chain that hides nothing makes no success of anything else, ... *)
LEMMA NoFalseNil ==
  ASSUME NEW mw \in Seq(Kinds), HidesNothing(mw), NEW o \in Outcomes, o # "nil",
         NEW publishing \in BOOLEAN, NEW f, Passes(f, mw, o, publishing)
  PROVE  \A i \in 1..(Len(mw) + 1) : f[i].outcome # "nil"
<1> DEFINE P == {i \in 1..(Len(mw) + 1) : f[i].outcome # "nil"}
<1>1. Len(mw) \in Nat /\ Len(mw) + 1 \in P
  BY DEF Passes, Result
<1>2. ASSUME NEW i \in 1..Len(mw), i + 1 \in P PROVE i \in P
  <2> DEFINE k == mw[i]
  <2> DEFINE r == f[i + 1]
  <2>1. /\ k \in Kinds /\ r \in Results /\ r.outcome # "nil"
        /\ f[i] \in {Result("panic"), Intercept(k, r)}
    BY <1>1, <1>2 DEF Passes, Around
  <2>2. f[i].outcome # "nil"
    <3>1. k # "recoverNil"
      BY DEF HidesNothing
    <3> HIDE DEF k, r
    <3>2. Intercept(k, r).outcome # "nil"
      BY <2>1, <3>1, InterceptOutcome DEF Recovering
    <3>3. Result("panic").outcome # "nil"
      BY DEF Result
    <3> QED
      BY <2>1, <3>2, <3>3
  <2> QED
    BY <2>2
<1>3. \A i \in 1..(Len(mw) + 1) : i \in P
  <2> HIDE DEF P
  <2> QED
    BY <1>1, <1>2, Backwards
<1> QED
  BY <1>3

(* What is counted is what a prometheus has seen, which is no panic. *)
LEMMA CountedIsSeen ==
  ASSUME NEW mw \in Seq(Kinds), NEW o \in Outcomes, NEW f, Passes(f, mw, o, FALSE)
  PROVE  \A i \in 1..(Len(mw) + 1) : \A out :
           out \in f[i].counted <=>
             /\ out # "panic"
             /\ \E j \in i..Len(mw) : mw[j] = "prometheus" /\ out = f[j + 1].outcome
<1> DEFINE Seen(i, out) ==
      /\ out # "panic"
      /\ \E j \in i..Len(mw) : mw[j] = "prometheus" /\ out = f[j + 1].outcome
<1> DEFINE P == {i \in 1..(Len(mw) + 1) : \A out : out \in f[i].counted <=> Seen(i, out)}
<1>1. Len(mw) \in Nat /\ Len(mw) + 1 \in P
  BY DEF Passes, Result
<1>2. ASSUME NEW i \in 1..Len(mw), i + 1 \in P PROVE i \in P
  <2> DEFINE k == mw[i]
  <2> DEFINE r == f[i + 1]
  <2>1. k \in Kinds /\ r \in Results /\ f[i] = Intercept(k, r)
    BY <1>1 DEF Passes, Around
  <2>2. f[i].counted =
          IF k = "prometheus" /\ r.outcome # "panic" THEN r.counted \cup {r.outcome}
          ELSE r.counted
    <3> HIDE DEF k, r
    <3>1. Intercept(k, r).counted =
            IF k = "prometheus" /\ r.outcome # "panic" THEN r.counted \cup {r.outcome}
            ELSE r.counted
      BY <2>1, InterceptOutcome DEF Recovering
    <3> QED
      BY <2>1, <3>1
  <2>3. \A out : Seen(i, out) <=>
          (k = "prometheus" /\ out # "panic" /\ out = r.outcome) \/ Seen(i + 1, out)
    <3>1. \A j : j \in i..Len(mw) <=> j = i \/ j \in (i + 1)..Len(mw)
      OBVIOUS
    <3> QED
      BY <3>1
  <2>4. \A out : out \in r.counted <=> Seen(i + 1, out)
    BY <1>2
  <2>5. \A out : out \in f[i].counted <=> Seen(i, out)
    <3> HIDE DEF Seen, k, r
    <3> QED
      BY <2>2, <2>3, <2>4
  <2> QED
    BY <2>5
<1>3. \A i \in 1..(Len(mw) + 1) : i \in P
  <2> HIDE DEF P
  <2> QED
    BY <1>1, <1>2, Backwards
<1> QED
  BY <1>3

-----------------------------------------------------------------------------
(* A handler's nil and its errors leave every chain of middleware as they  *)
(* are (chainSubscriberMiddleware), and a panic of it leaves a chain if    *)
(* and only if there is no recover in it, wherever that is.                *)
THEOREM ChainKeepsOutcome ==
  ASSUME NEW mw \in Seq(Kinds)
  PROVE  /\ \A o \in {"nil", "error"} : ThroughSubscribers(mw, o).outcome = o
         /\ ThroughSubscribers(mw, "panic").outcome = "panic" <=> ~Recovers(mw)
<1>1. Len(mw) \in Nat
  OBVIOUS
<1>2. ASSUME NEW o \in {"nil", "error"} PROVE ThroughSubscribers(mw, o).outcome = o
  <2>1. o \in Outcomes /\ o # "panic"
    BY DEF Outcomes
  <2>2. PICK f : Passes(f, mw, o, FALSE) /\ ThroughSubscribers(mw, o) = f[1]
    BY <2>1, SubscriberChain
  <2>3. Passes(f, mw, o, FALSE)
    BY <2>2
  <2>4. \A i \in 1..(Len(mw) + 1) : f[i].outcome = o
    BY <2>1, <2>3, OutcomeKept
  <2> QED
    BY <1>1, <2>2, <2>4
<1>3. ThroughSubscribers(mw, "panic").outcome = "panic" <=> ~Recovers(mw)
  <2>1. PICK f : Passes(f, mw, "panic", FALSE) /\ ThroughSubscribers(mw, "panic") = f[1]
    BY SubscriberChain DEF Outcomes
  <2>2. \A i \in 1..(Len(mw) + 1) :
          f[i].outcome = "panic" <=> \A j \in i..Len(mw) : mw[j] \notin Recovering
    BY <2>1, PanicStopped
  <2>3. f[1].outcome = "panic" <=> \A j \in 1..Len(mw) : mw[j] \notin Recovering
    BY <1>1, <2>2
  <2> QED
    BY <2>1, <2>3 DEF Recovers
<1> QED
  BY <1>2, <1>3

(* What a chain counts of a message (prometheus.go): a handler's nil never *)
(* as a failure, anything else never as a success unless a recover was     *)
(* told to return nil; once at most, if there is one prometheus; and       *)
(* always, if that has a recover further in.                               *)
THEOREM ChainCounts ==
  ASSUME NEW mw \in Seq(Kinds), NEW o \in Outcomes
  PROVE  LET counts == ThroughSubscribers(mw, o).counted
         IN  /\ counts \subseteq {"nil", "error"}
             /\ o = "nil" => "error" \notin counts
             /\ HidesNothing(mw) /\ o # "nil" => "nil" \notin counts
             /\ CountsOnce(mw) => \A k, l \in counts : k = l
             /\ Watched(mw) => counts # {}
<1> DEFINE counts == ThroughSubscribers(mw, o).counted
<1>1. Len(mw) \in Nat
  OBVIOUS
<1>2. PICK f : Passes(f, mw, o, FALSE) /\ ThroughSubscribers(mw, o) = f[1]
  BY SubscriberChain
<1> DEFINE Seen(j) == j \in 1..Len(mw) /\ mw[j] = "prometheus"
<1>3. \A k : k \in counts <=> k # "panic" /\ \E j : Seen(j) /\ k = f[j + 1].outcome
  <2>1. \A i \in 1..(Len(mw) + 1) : \A out :
          out \in f[i].counted <=>
            /\ out # "panic"
            /\ \E j \in i..Len(mw) : mw[j] = "prometheus" /\ out = f[j + 1].outcome
    BY <1>2, CountedIsSeen
  <2> QED
    BY <1>1, <1>2, <2>1
<1> HIDE DEF counts
<1>4. counts \subseteq {"nil", "error"}
  <2>1. \A j \in 1..Len(mw) : f[j + 1] \in Results
    BY <1>1, <1>2 DEF Passes
  <2>2. \A j \in 1..Len(mw) : f[j + 1].outcome \in Outcomes
    BY <2>1 DEF Results
  <2> QED
    BY <1>3, <2>2 DEF Outcomes
<1>5. ASSUME o = "nil" PROVE "error" \notin counts
  <2>1. \A i \in 1..(Len(mw) + 1) : f[i].outcome = o
    BY <1>2, <1>5, OutcomeKept
  <2> QED
    BY <1>1, <1>3, <1>5, <2>1
<1>6. ASSUME HidesNothing(mw), o # "nil" PROVE "nil" \notin counts
  <2>1. \A i \in 1..(Len(mw) + 1) : f[i].outcome # "nil"
    BY <1>2, <1>6, NoFalseNil
  <2> QED
    BY <1>1, <1>3, <2>1
<1>7. ASSUME CountsOnce(mw), NEW k \in counts, NEW l \in counts PROVE k = l
  <2>1. PICK i : Seen(i) /\ k = f[i + 1].outcome
    BY <1>3
  <2>2. PICK j : Seen(j) /\ l = f[j + 1].outcome
    BY <1>3
  <2>3. i = j
    BY <1>7, <2>1, <2>2 DEF CountsOnce
  <2> QED
    BY <2>1, <2>2, <2>3
<1>8. ASSUME Watched(mw) PROVE counts # {}
  <2>1. PICK i, j \in 1..Len(mw) : i < j /\ mw[i] = "prometheus" /\ mw[j] \in Recovering
    BY <1>8 DEF Watched
  <2>2. i + 1 \in 1..(Len(mw) + 1) /\ j \in (i + 1)..Len(mw)
    BY <1>1, <2>1
  <2>3. f[i + 1].outcome # "panic"
    <3>1. CASE o = "panic"
      BY <1>2, <2>1, <2>2, <3>1, PanicStopped
    <3>2. CASE o # "panic"
      BY <1>2, <2>2, <3>2, OutcomeKept
    <3> QED
      BY <3>1, <3>2
  <2> QED
    BY <1>3, <2>1, <2>3
<1> QED
  BY <1>4, <1>5, <1>6, <1>7, <1>8 DEF counts

(* Every member that panics about missing metadata has a recover further   *)
(* out.                                                                    *)
Guarded(mw) ==
  \A i \in 1..Len(mw) : AuditPanics(mw, i) => \E j \in 1..(i - 1) : mw[j] \in Recovering

(* Whoever publishes (chainPublisherMiddleware) is told nil if and only if *)
(* the message got to the provider and that said nil, unless a recover was *)
(* told to return nil; and gets the panic of no member that is guarded.  *)
THEOREM PublisherTells ==
  ASSUME NEW mw \in Seq(Kinds), NEW o \in {"nil", "error"}
  PROVE  LET told == ThroughPublishers(mw, o).outcome
         IN  /\ ReachesProvider(mw) => told = o
             /\ HidesNothing(mw) => (told = "nil" <=> ReachesProvider(mw) /\ o = "nil")
             /\ Guarded(mw) => told # "panic"
<1> DEFINE told == ThroughPublishers(mw, o).outcome
<1>1. Len(mw) \in Nat /\ o \in Outcomes /\ o # "panic"
  BY DEF Outcomes
<1>2. PICK f : Passes(f, mw, o, TRUE) /\ ThroughPublishers(mw, o) = f[1]
  BY <1>1, PublisherChain
<1>3. told = f[1].outcome
  BY <1>2
<1> HIDE DEF told
<1>4. ASSUME ReachesProvider(mw) PROVE told = o
  <2>1. Passes(f, mw, o, FALSE)
    BY <1>2, <1>4 DEF Passes, Around, ReachesProvider
  <2>2. \A i \in 1..(Len(mw) + 1) : f[i].outcome = o
    BY <1>1, <2>1, OutcomeKept
  <2> QED
    BY <1>1, <1>3, <2>2
<1>5. ASSUME HidesNothing(mw), ~ReachesProvider(mw) PROVE told # "nil"
  <2>1. PICK k \in 1..Len(mw) : AuditPanics(mw, k)
    BY <1>5 DEF ReachesProvider
  <2>2. f[k].outcome = "panic"
    BY <1>2, <2>1 DEF Passes, Around, Result
  <2> DEFINE P == {i \in 1..k : f[i].outcome # "nil"}
  <2>3. k - 1 \in Nat /\ (k - 1) + 1 \in P
    BY <2>2
  <2>4. ASSUME NEW i \in 1..(k - 1), i + 1 \in P PROVE i \in P
    <3> DEFINE kind == mw[i]
    <3> DEFINE r == f[i + 1]
    <3>1. /\ kind \in Kinds /\ kind # "recoverNil"
          /\ r \in Results /\ r.outcome # "nil"
          /\ f[i] \in {Result("panic"), Intercept(kind, r)}
      <4>1. i \in 1..Len(mw) /\ i + 1 \in 1..(Len(mw) + 1)
        BY <1>1
      <4> QED
        BY <1>2, <1>5, <2>4, <4>1 DEF Passes, Around, HidesNothing
    <3>2. f[i].outcome # "nil"
      <4> HIDE DEF kind, r
      <4>1. Intercept(kind, r).outcome # "nil" /\ Result("panic").outcome # "nil"
        BY <3>1, InterceptOutcome DEF Recovering, Result
      <4> QED
        BY <3>1, <4>1
    <3> QED
      BY <3>2
  <2>5. \A i \in 1..((k - 1) + 1) : i \in P
    <3> HIDE DEF P
    <3> QED
      BY <2>3, <2>4, Backwards
  <2> QED
    BY <1>3, <2>3, <2>5
<1>6. ASSUME Guarded(mw) PROVE told # "panic"
  <2>1. CASE ReachesProvider(mw)
    BY <1>1, <1>4, <2>1
  <2>2. CASE ~ReachesProvider(mw)
    <3> DEFINE R == {i \in 1..Len(mw) : mw[i] \in Recovering}
    <3>1. R # {} /\ R \in SUBSET Nat
      BY <1>6, <2>2 DEF ReachesProvider, Guarded
    <3>2. PICK k \in R : \A j \in R : k <= j
      <4> HIDE DEF R
      <4> QED
        BY <3>1, LeastOne
    <3>3. \A i \in 1..k : ~AuditPanics(mw, i)
      BY <1>6, <3>2 DEF Guarded
    <3> DEFINE P == {i \in 1..k : f[i].outcome # "panic"}
    <3>4. ASSUME NEW i \in 1..k, i = k \/ i + 1 \in P PROVE f[i].outcome # "panic"
      <4> DEFINE kind == mw[i]
      <4> DEFINE r == f[i + 1]
      <4>1. /\ kind \in Kinds /\ r \in Results /\ f[i] = Intercept(kind, r)
            /\ kind \in Recovering \/ r.outcome # "panic"
        <5>1. i \in 1..Len(mw) /\ i + 1 \in 1..(Len(mw) + 1)
          BY <1>1, <3>2
        <5>2. f[i] = Intercept(kind, r) /\ kind \in Kinds /\ r \in Results
          BY <1>2, <3>3, <5>1 DEF Passes, Around
        <5>3. kind \in Recovering \/ r.outcome # "panic"
          BY <3>2, <3>4
        <5> QED
          BY <5>2, <5>3
      <4> HIDE DEF kind, r
      <4>2. Intercept(kind, r).outcome # "panic"
        BY <4>1, InterceptOutcome DEF Recovering
      <4> QED
        BY <4>1, <4>2
    <3>5. k - 1 \in Nat /\ (k - 1) + 1 \in P
      BY <3>2, <3>4
    <3>6. \A i \in 1..(k - 1) : i + 1 \in P => i \in P
      BY <3>2, <3>4
    <3>7. \A i \in 1..((k - 1) + 1) : i \in P
      <4> HIDE DEF P, R
      <4> QED
        BY <3>5, <3>6, Backwards
    <3> QED
      BY <1>3, <3>2, <3>5, <3>7
  <2> QED
    BY <2>1, <2>2
<1> QED
  BY <1>1, <1>4, <1>5, <1>6 DEF told

-----------------------------------------------------------------------------
(* The program with any chain. *)

Times(k, o) == IF k \in ThroughSubscribers(chain, o).counted THEN verdicts[o] ELSE 0

(* The metrics are what the chain counts of each outcome, as often as      *)
(* callbacks came to it.                                                   *)
CountsAgree ==
  \A k \in {"nil", "error"} :
    counted[k] = Times(k, "nil") + Times(k, "error") + Times(k, "panic")

Survives(mw) == Recovers(mw) /\ Guarded(mw)

(* Behind a chain with a recover whose members panic only behind one, only *)
(* options that On refuses end the process by a panic.                   *)
ChainSurvives ==
  Survives(chain) /\ life = "panicked" => \E s \in Subs : subscriber[s] = "refused"

ChainInv == CountsAgree /\ ChainSurvives

LEMMA ChainType == TypeOK => chain \in Seq(Kinds) /\ CountsOnce(chain)
  BY ChainsAssumption DEF TypeOK, LifeTypeOK

LEMMA OutcomeOfChain ==
  ASSUME TypeOK, NEW s \in Subs, NEW o \in Outcomes, Outcome(s, o)
  PROVE  /\ CountsAgree => CountsAgree'
         /\ Survives(chain) => UNCHANGED lifeVars
         /\ UNCHANGED chain
<1>1. /\ counted' = Bump(counted, ThroughSubscribers(chain, o).counted)
      /\ verdicts' = Bump(verdicts, {o})
      /\ UNCHANGED chain
  BY DEF Outcome
<1>2. ASSUME CountsAgree PROVE CountsAgree'
  <2> SUFFICES ASSUME NEW k \in {"nil", "error"}
               PROVE  counted'[k] = Times(k, "nil")' + Times(k, "error")' + Times(k, "panic")'
    BY DEF CountsAgree
  <2> DEFINE here(p) == k \in ThroughSubscribers(chain, p).counted
  <2>1. /\ counted'[k] = IF here(o) THEN counted[k] + 1 ELSE counted[k]
        /\ \A p \in Outcomes : verdicts'[p] = IF p = o THEN verdicts[p] + 1 ELSE verdicts[p]
        /\ \A p \in Outcomes : Times(k, p) = IF here(p) THEN verdicts[p] ELSE 0
        /\ \A p \in Outcomes : Times(k, p)' = IF here(p) THEN verdicts'[p] ELSE 0
        /\ counted[k] \in Nat /\ \A p \in Outcomes : verdicts[p] \in Nat
    BY <1>1 DEF Bump, Times, TypeOK
  <2>2. counted[k] = Times(k, "nil") + Times(k, "error") + Times(k, "panic")
    BY <1>2 DEF CountsAgree
  <2> HIDE DEF here
  <2>3. ASSUME NEW p \in Outcomes
        PROVE  /\ Times(k, p) \in Nat
               /\ Times(k, p)' = IF p = o /\ here(o) THEN Times(k, p) + 1 ELSE Times(k, p)
    BY <2>1
  <2>4. {"nil", "error", "panic"} = Outcomes
    BY DEF Outcomes
  <2> QED
    BY <2>1, <2>2, <2>3, <2>4
<1>3. ASSUME Survives(chain) PROVE UNCHANGED lifeVars
  <2>1. ThroughSubscribers(chain, o).outcome # "panic"
    BY <1>3, ChainType, ChainKeepsOutcome DEF Survives, Outcomes
  <2> QED
    BY <2>1 DEF Outcome
<1> QED
  BY <1>1, <1>2, <1>3

LEMMA ChainStep == TypeOK /\ ChainInv /\ [Next]_vars => ChainInv'
<1> SUFFICES ASSUME TypeOK, ChainInv, [Next]_vars PROVE ChainInv'
  OBVIOUS
<1> USE DEF ChainInv
<1>1. CASE UNCHANGED vars
  BY <1>1 DEF vars, memVars, lifeVars, CountsAgree, Times, ChainSurvives
<1>2. ASSUME Next PROVE life = "up"
  BY <1>2 DEF Next
<1>3. ASSUME NEW s \in Subs, NEW o \in Outcomes, Outcome(s, o) PROVE ChainInv'
  BY <1>3, OutcomeOfChain DEF lifeVars, ChainSurvives
<1>4. UNCHANGED <<chain, counted, verdicts>> => CountsAgree'
  BY DEF CountsAgree, Times
<1>5. UNCHANGED <<chain, counted, verdicts>> /\ life' # "panicked" => ChainInv'
  BY <1>4 DEF ChainSurvives
<1>6. ASSUME Application \/ (\E t \in Stoppers : Stopping(t)) \/ MainReturns,
             UNCHANGED memVars, life = "up"
      PROVE  ChainInv'
  BY <1>5, <1>6 DEF Application, SetClient, AddPublisherClient, Subscribe, Shutdown,
     Stopping, Meet, RangeClients, ShutdownProvider, ShutdownReturns, MainReturns, memVars
<1>7. ASSUME NEW p \in Messages, PublishCalled(p), life = "up" PROVE ChainInv'
  <2>1. UNCHANGED <<chain, counted, verdicts>>
    BY <1>7 DEF PublishCalled
  <2>2. Survives(chain) => ThroughPublishers(chain, "nil").outcome # "panic"
    BY ChainType, PublisherTells DEF Survives
  <2>3. Survives(chain) => life' # "panicked"
    BY <1>7, <2>2 DEF PublishCalled
  <2> QED
    BY <1>4, <2>1, <2>3 DEF ChainSurvives
<1>8. ASSUME NEW p \in Messages, PublishRuns(p), life = "up" PROVE ChainInv'
  BY <1>5, <1>8 DEF PublishRuns, lifeVars
<1>9. ASSUME NEW s \in Subs, Loop(s), life = "up" PROVE ChainInv'
  <2>1. CASE CannotDecode(s)
    BY <1>3, <2>1 DEF CannotDecode, Outcomes
  <2> QED
    BY <1>5, <1>9, <2>1 DEF Loop, RLock, CallHandler, HandlerGoesOn, Return, lifeVars
<1>10. ASSUME NEW s \in Subs, ProviderReturns(s), life = "up" PROVE ChainInv'
  BY <1>5, <1>10 DEF ProviderReturns, SetupReturns, memVars
<1>11. ASSUME NEW s \in Subs, OnRefuses(s), UNCHANGED memVars PROVE ChainInv'
  <2>1. s \in Subs /\ subscriber'[s] = "refused"
    BY <1>11 DEF OnRefuses, Panic, TypeOK, LifeTypeOK
  <2> QED
    BY <1>4, <1>11, <2>1 DEF memVars, ChainSurvives
<1>12. ASSUME NEW s \in Subs, HandlerReturns(s) PROVE ChainInv'
  BY <1>3, <1>12 DEF HandlerReturns
<1>13. ASSUME NEW s \in Subs, NEW p \in Messages, HandlerPublishes(s, p), life = "up"
       PROVE  ChainInv'
  BY <1>7, <1>13 DEF HandlerPublishes
<1> QED
  BY <1>1, <1>2, <1>3, <1>6, <1>7, <1>8, <1>9, <1>10, <1>11, <1>12, <1>13 DEF Next, Running

LEMMA ChainInvHolds == Spec => [](TypeOK /\ ChainInv)
<1>1. Init => ChainInv
  BY DEF Init, LifeInit, ChainInv, CountsAgree, Times, ChainSurvives, Outcomes
<1>2. TypeOK /\ ChainInv /\ [Next]_vars => ChainInv'
  BY ChainStep
<1> QED
  BY <1>1, <1>2, TypeCorrect, PTL DEF Spec

(* Whatever the middleware, no panic of a handler or of a member ends the  *)
(* process if there is a recover and it is further out than any member     *)
(* that panics; where in the chain it is does not matter otherwise.        *)
THEOREM ChainSurvivesHolds == Spec => []ChainSurvives
<1>1. TypeOK /\ ChainInv => ChainSurvives
  BY DEF ChainInv
<1> QED
  BY <1>1, ChainInvHolds, PTL

(* With a prometheus further out than a recover that returns errors, the   *)
(* metrics are right about every message, whatever else is in the chain.   *)
WatchedTellTruth ==
  Watched(chain) /\ HidesNothing(chain) =>
    /\ counted["nil"]   = verdicts["nil"]
    /\ counted["error"] = verdicts["error"] + verdicts["panic"]

LEMMA WatchedCounts == TypeOK /\ CountsAgree => WatchedTellTruth
<1> SUFFICES ASSUME TypeOK, CountsAgree, Watched(chain), HidesNothing(chain)
             PROVE  /\ counted["nil"]   = verdicts["nil"]
                    /\ counted["error"] = verdicts["error"] + verdicts["panic"]
  BY DEF WatchedTellTruth
<1>1. \A o \in Outcomes : ThroughSubscribers(chain, o).counted =
                            IF o = "nil" THEN {"nil"} ELSE {"error"}
  <2> SUFFICES ASSUME NEW o \in Outcomes
               PROVE  ThroughSubscribers(chain, o).counted =
                        IF o = "nil" THEN {"nil"} ELSE {"error"}
    OBVIOUS
  <2> DEFINE counts == ThroughSubscribers(chain, o).counted
  <2>1. /\ counts \subseteq {"nil", "error"} /\ counts # {}
        /\ o = "nil" => "error" \notin counts
        /\ o # "nil" => "nil" \notin counts
    BY ChainType, ChainCounts
  <2> QED
    BY <2>1
<1>2. \A o \in Outcomes : verdicts[o] \in Nat
  BY DEF TypeOK
<1>3. /\ Times("nil", "nil") = verdicts["nil"] /\ Times("error", "nil") = 0
      /\ \A o \in {"error", "panic"} : Times("nil", o) = 0 /\ Times("error", o) = verdicts[o]
  BY <1>1 DEF Times, Outcomes
<1> QED
  BY <1>2, <1>3 DEF CountsAgree, Outcomes

THEOREM WatchedTellTruthHolds == Spec => []WatchedTellTruth
<1>1. TypeOK /\ ChainInv => WatchedTellTruth
  BY WatchedCounts DEF ChainInv
<1> QED
  BY <1>1, ChainInvHolds, PTL

(* Wherever the prometheus is, and whether there is one: no message is     *)
(* counted twice, and none as a success that was none, unless a recover    *)
(* was told to return nil.                                                 *)
NoneTooMany ==
  /\ HidesNothing(chain) => counted["nil"] <= verdicts["nil"]
  /\ counted["nil"] + counted["error"] <= verdicts["nil"] + verdicts["error"] + verdicts["panic"]

THEOREM NoneTooManyHolds == Spec => []NoneTooMany
<1>1. TypeOK /\ ChainInv => NoneTooMany
  <2> SUFFICES ASSUME TypeOK, CountsAgree PROVE NoneTooMany
    BY DEF ChainInv
  <2>1. \A o \in Outcomes : verdicts[o] \in Nat
    BY DEF TypeOK
  <2>2. ASSUME NEW o \in Outcomes
        PROVE  /\ Times("nil", o) \in Nat /\ Times("error", o) \in Nat
               /\ Times("nil", o) + Times("error", o) <= verdicts[o]
               /\ HidesNothing(chain) /\ o # "nil" => Times("nil", o) = 0
    <3>1. ~("nil" \in ThroughSubscribers(chain, o).counted
            /\ "error" \in ThroughSubscribers(chain, o).counted)
      BY ChainType, ChainCounts
    <3>2. HidesNothing(chain) /\ o # "nil" => "nil" \notin ThroughSubscribers(chain, o).counted
      BY ChainType, ChainCounts
    <3> QED
      BY <2>1, <3>1, <3>2 DEF Times
  <2> QED
    BY <2>1, <2>2 DEF CountsAgree, NoneTooMany, Outcomes
<1> QED
  BY <1>1, ChainInvHolds, PTL

-----------------------------------------------------------------------------
(* The default middleware is such a chain. *)
LEMMA DefaultIsGood ==
  Watched(Default) /\ HidesNothing(Default) /\ Survives(Default)
<1>1. /\ Len(Default) = 5
      /\ Default[1] = "logrus" /\ Default[2] = "prometheus" /\ Default[3] = "opentracing"
      /\ Default[4] = "audit" /\ Default[5] = "recover"
  BY DEF Default
<1>2. Watched(Default) /\ Recovers(Default)
  BY <1>1 DEF Watched, Recovers, Recovering
<1>3. HidesNothing(Default)
  BY <1>1 DEF HidesNothing
<1>4. ~AuditPanics(Default, 4)
  BY <1>1 DEF AuditPanics, Tracing
<1>5. Guarded(Default)
  BY <1>1, <1>4 DEF Guarded, AuditPanics
<1> QED
  BY <1>2, <1>3, <1>5 DEF Survives

(* The metrics of a client with the default middleware are right about     *)
(* every message, whatever handlers do.                                    *)
THEOREM MetricsTellTruthHolds == Spec => []MetricsTellTruth
<1>1. WatchedTellTruth => MetricsTellTruth
  BY DefaultIsGood DEF WatchedTellTruth, MetricsTellTruth
<1> QED
  BY <1>1, WatchedTellTruthHolds, PTL

(* No panic of a handler or of a middleware ends a process whose client    *)
(* has the default middleware.                                             *)
THEOREM DefaultSurvivesHolds == Spec => []DefaultSurvives
<1>1. ChainSurvives => DefaultSurvives
  BY DefaultIsGood DEF ChainSurvives, DefaultSurvives
<1> QED
  BY <1>1, ChainSurvivesHolds, PTL
=============================================================================
