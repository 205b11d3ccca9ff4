-------------------------- MODULE PublisherProofs --------------------------
(***************************************************************************)
(* Proofs about Publisher for any finite set of calls, any clients and any *)
(* number of waiters.                                                      *)
(*                                                                         *)
(* The argument: every call's goroutines are at consistent places          *)
(* (Places); with that the WaitGroup counts exactly the goroutines that    *)
(* hold it (CounterExact), so that the Done that reaches zero is the last  *)
(* one (WaitInv); the error of a call is kept from the goroutine that got  *)
(* it to Ready (Errors); and each of its two words is of a client of the   *)
(* call that failed (Words).                                               *)
(***************************************************************************)
EXTENDS Publisher, FiniteSetTheorems, TLAPS

(* Where a call and its goroutines can be at the same time. *)
PlaceOf(call) ==
  /\ pc[call] \in {"idle", "spawned"} => started[call] = 0
  /\ started[call] <= Len(targets[call])
  /\ \A i \in Slots : sub[call][i] # "none" <=> i <= started[call]
  /\ \A i \in Slots : sub[call][i] \in {"half", "local"} => kind[call] = "PublishJSON"
  /\ \A i \in Slots : sub[call][i] = "released" => kind[call] = "Publish"
  /\ pc[call] = "ready" => AllJoined(call)

Places == \A call \in Calls : PlaceOf(call)

(* Finitely many client goroutines can hold publishWaitGroup at once:      *)
(* Calls is finite and the fan-out bounded.                                *)
LEMMA HeldFinite == IsFiniteSet(Held)
<1>1. IsFiniteSet(Slots)
  BY FanoutAssumption, FS_Interval DEF Slots
<1>2. IsFiniteSet(Calls \X Slots)
  BY <1>1, CallsAssumption, FS_Product
<1>3. Held \in SUBSET (Calls \X Slots)
  BY DEF Held
<1> QED
  BY <1>2, <1>3, FS_Subset

(* What moving one client goroutine does to the set of those that hold the *)
(* WaitGroup. *)
LEMMA HeldUpdate ==
  ASSUME TypeOK, NEW call \in Calls, NEW i \in Slots, NEW p, SetPhase(call, i, p)
  PROVE  /\ p \in Counted => Held' = Held \cup {<<call, i>>}
         /\ p \notin Counted => Held' = Held \ {<<call, i>>}
<1>1. sub \in [Calls -> [Slots -> Phases]]
  BY DEF TypeOK
<1>2. \A s \in Calls \X Slots :
        sub'[s[1]][s[2]] = IF s = <<call, i>> THEN p ELSE sub[s[1]][s[2]]
  BY <1>1 DEF SetPhase
<1> QED
  BY <1>2 DEF Held

(* Before any call of Publish or PublishJSON everything is well typed.     *)
LEMMA InitType == Init => TypeOK
<1> SUFFICES ASSUME Init PROVE TypeOK
  OBVIOUS
<1>1. clients \in Seq(Clients) /\ Len(clients) \in Slots
  BY ClientsAssumption, FanoutAssumption DEF Init, Slots
<1>2. /\ pc \in [Calls -> {"idle", "spawned", "fanout", "ready"}]
      /\ kind \in [Calls -> {"Publish", "PublishJSON"}]
      /\ sub \in [Calls -> [Slots -> Phases]]
      /\ waiter \in [Waiters -> {"idle", "parked", "woken", "returned"}]
  BY DEF Init, Phases
<1>3. /\ valid \in [Calls -> BOOLEAN]
      /\ crashed \in BOOLEAN
  BY DEF Init
<1>4. /\ targets \in [Calls -> Seq(Clients)]
      /\ \A call \in Calls : Len(targets[call]) \in 0..MaxFanout
      /\ started \in [Calls -> 0..MaxFanout]
      /\ wg \in Nat
  BY FanoutAssumption DEF Init
<1>5. Nil \in Err
  BY DEF Nil, Err, ErrWord
<1>6. /\ result \in [Calls -> [Slots -> Err]]
      /\ egErr \in [Calls -> Err]
      /\ prErr \in [Calls -> Err]
  BY <1>5 DEF Init
<1>7. /\ covered \in [Waiters -> SUBSET (Calls \X Slots)]
      /\ owed \in [Waiters -> SUBSET Calls]
  BY DEF Init
<1> QED
  BY <1>1, <1>2, <1>3, <1>4, <1>6, <1>7 DEF TypeOK

(* What Client.Publish returns is nil, a marshalling error or the error    *)
(* of the client.                                                          *)
LEMMA OutcomesType ==
  ASSUME NEW call \in Calls, NEW c \in Clients
  PROVE  Outcomes(call, c) \subseteq Err
  BY DEF Outcomes, Err, ErrWord, Nil, MarshalErr, ProviderErr

(* A goroutine that holds the WaitGroup keeps it above zero, and finds it  *)
(* at one only when it is the last.                                        *)
LEMMA HolderCounts ==
  ASSUME TypeOK, CounterExact, NEW call \in Calls, NEW i \in Slots,
         sub[call][i] \in Counted
  PROVE  /\ wg - 1 \in Nat
         /\ Cardinality(Held \ {<<call, i>>}) = wg - 1
         /\ wg = 1 => Held \ {<<call, i>>} = {}
<1>1. <<call, i>> \in Held
  BY DEF Held
<1>2. /\ IsFiniteSet(Held \ {<<call, i>>})
      /\ Cardinality(Held \ {<<call, i>>}) = wg - 1
  BY <1>1, HeldFinite, FS_RemoveElement DEF CounterExact
<1>3. wg - 1 \in Nat
  BY <1>2, FS_CardinalityType
<1>4. wg = 1 => Held \ {<<call, i>>} = {}
  BY <1>2, FS_EmptySet
<1> QED
  BY <1>2, <1>3, <1>4

(* publishWaitGroup.Done keeps the types when the counter stays natural.   *)
LEMMA WaiterTypeAfterDone ==
  ASSUME TypeOK, wg - 1 \in Nat, WgDone
  PROVE  /\ wg' \in Nat
         /\ waiter' \in [Waiters -> {"idle", "parked", "woken", "returned"}]
  BY DEF TypeOK, WgDone

(* Every step of publish.go keeps the types. The counter stays natural     *)
(* because whoever calls Done is among those it counts.                    *)
LEMMA TypeStep == TypeOK /\ Places /\ CounterExact /\ [Next]_vars => TypeOK'
<1> SUFFICES ASSUME TypeOK, Places, CounterExact, [Next]_vars PROVE TypeOK'
  OBVIOUS
<1> USE DEF TypeOK
<1>1. CASE UNCHANGED vars
  BY <1>1 DEF vars, callVars
<1>2. ASSUME NEW c \in Clients, SetClient(c), UNCHANGED crashed PROVE TypeOK'
  BY <1>2, FanoutAssumption DEF SetClient, callVars, Slots
<1>3. ASSUME NEW c \in Clients, AddPublisherClient(c), UNCHANGED crashed PROVE TypeOK'
  BY <1>3, FanoutAssumption DEF AddPublisherClient, callVars, Slots
<1>4. ASSUME NEW call \in Calls, NEW v \in BOOLEAN, Publish(call, v), UNCHANGED crashed
      PROVE  TypeOK'
  BY <1>4 DEF Publish, Called
<1>5. ASSUME NEW call \in Calls, NEW v \in BOOLEAN, PublishJSON(call, v), UNCHANGED crashed
      PROVE  TypeOK'
  BY <1>5, FanoutAssumption DEF PublishJSON, Called, Slots
<1>6. ASSUME NEW w \in Waiters, WaitForAllPublishing(w), UNCHANGED crashed
      PROVE  TypeOK'
  BY <1>6 DEF WaitForAllPublishing, callVars, Held
<1>7. ASSUME NEW call \in Calls, EnterLoop(call), UNCHANGED crashed PROVE TypeOK'
  BY <1>7, FanoutAssumption DEF EnterLoop, Slots, callVars
<1>8. ASSUME NEW call \in Calls, Fork(call), UNCHANGED crashed PROVE TypeOK'
  BY <1>8, FanoutAssumption DEF Fork, SetPhase, WgAdd, callVars, Slots, Phases
<1>9. ASSUME NEW call \in Calls, CloseReady(call), UNCHANGED crashed PROVE TypeOK'
  BY <1>9 DEF CloseReady, callVars
<1>10. ASSUME NEW call \in Calls, NEW i \in Slots, ClientPublish(call, i), UNCHANGED crashed
       PROVE  TypeOK'
  <2>1. i \in 1..Len(targets[call])
    BY <1>10 DEF ClientPublish, Places, PlaceOf, Slots
  <2>2. targets[call][i] \in Clients
    BY <2>1
  <2>3. Outcomes(call, targets[call][i]) \subseteq Err
    BY <2>2, OutcomesType
  <2>4. result' \in [Calls -> [Slots -> Err]]
    BY <1>10, <2>3 DEF ClientPublish
  <2> QED
    BY <1>10, <2>4 DEF ClientPublish, SetPhase, callVars, Phases
<1>11. ASSUME NEW call \in Calls, NEW i \in Slots, Release(call, i), UNCHANGED crashed
       PROVE  TypeOK'
  BY <1>11, HolderCounts, WaiterTypeAfterDone DEF Release, SetPhase, callVars, Phases, Counted
<1>12. ASSUME NEW call \in Calls, NEW i \in Slots, GroupDone(call, i), UNCHANGED crashed
       PROVE  TypeOK'
  BY <1>12 DEF GroupDone, NoteError, SetPhase, callVars, Phases
<1>13. ASSUME NEW call \in Calls, NEW i \in Slots, AssignErrType(call, i), UNCHANGED crashed
       PROVE  TypeOK'
  <2>1. [type |-> result[call][i].type, data |-> prErr[call].data] \in Err
    BY DEF Err
  <2>2. prErr' \in [Calls -> Err]
    BY <1>13, <2>1 DEF AssignErrType
  <2> QED
    BY <1>13, <2>2 DEF AssignErrType, SetPhase, callVars, Phases
<1>14. ASSUME NEW call \in Calls, NEW i \in Slots, LocalDone(call, i), UNCHANGED crashed
       PROVE  TypeOK'
  <2>1. [type |-> prErr[call].type, data |-> result[call][i].data] \in Err
    BY DEF Err
  <2>2. prErr' \in [Calls -> Err]
    BY <1>14, <2>1 DEF LocalDone
  <2> QED
    BY <1>14, <2>2 DEF LocalDone, SetPhase, callVars, Phases
<1>15. ASSUME NEW call \in Calls, NEW i \in Slots, JSONRelease(call, i), UNCHANGED crashed
       PROVE  TypeOK'
  BY <1>15, HolderCounts, WaiterTypeAfterDone DEF JSONRelease, SetPhase, callVars, Phases, Counted
<1>16. ASSUME NEW w \in Waiters, WaitReturn(w) PROVE TypeOK'
  BY <1>16 DEF WaitReturn, callVars
<1>17. ASSUME NEW w \in Waiters, WaitPanic(w) PROVE TypeOK'
  BY <1>17 DEF WaitPanic, callVars
<1> QED
  BY <1>1, <1>2, <1>3, <1>4, <1>5, <1>6, <1>7, <1>8, <1>9, <1>10, <1>11, <1>12,
     <1>13, <1>14, <1>15, <1>16, <1>17
     DEF Next, Running, Application, CallGoroutine, ClientGoroutine

(* The places of a call depend on nothing but these parts of the state. *)
LEMMA PlaceStays ==
  ASSUME NEW c \in Calls, PlaceOf(c),
         pc'[c] = pc[c], started'[c] = started[c], sub'[c] = sub[c],
         targets'[c] = targets[c], kind'[c] = kind[c]
  PROVE  PlaceOf(c)'
  BY DEF PlaceOf, AllJoined, Joined

(* Starting a client goroutine keeps the places of its call consistent.    *)
LEMMA PlacesFork ==
  ASSUME TypeOK, Places, NEW call \in Calls, Fork(call)
  PROVE  Places'
<1>1. Len(targets[call]) \in 0..MaxFanout /\ started[call] \in 0..MaxFanout
  BY DEF TypeOK
<1>2. pc[call] = "fanout" /\ started[call] < Len(targets[call])
  BY DEF Fork
<1>3. started[call] + 1 \in Slots
  BY <1>1, <1>2, FanoutAssumption DEF Slots
<1>4. pc' = pc /\ kind' = kind /\ targets' = targets
  BY DEF Fork, callVars
<1>5. ASSUME NEW c \in Calls, c # call PROVE PlaceOf(c)'
  <2>1. started'[c] = started[c] /\ sub'[c] = sub[c]
    BY <1>5 DEF Fork, SetPhase, TypeOK
  <2> QED
    BY <2>1, <1>4, PlaceStays DEF Places
<1>6. PlaceOf(call)'
  <2>1. \A i \in Slots :
          sub'[call][i] = IF i = started[call] + 1 THEN "running" ELSE sub[call][i]
    BY <1>3 DEF Fork, SetPhase, TypeOK
  <2>2. started'[call] = started[call] + 1
    BY DEF Fork, TypeOK
  <2>3. PlaceOf(call)
    BY DEF Places
  <2>4. \A i \in Slots : i \in Int
    BY DEF Slots
  <2>5. \A i \in Slots : sub'[call][i] # "none" <=> i <= started'[call]
    BY <1>1, <2>1, <2>2, <2>3, <2>4 DEF PlaceOf
  <2>6. started'[call] <= Len(targets'[call])
    BY <1>1, <1>2, <1>4, <2>2
  <2> QED
    BY <1>2, <1>4, <2>1, <2>3, <2>5, <2>6 DEF PlaceOf
<1> QED
  BY <1>5, <1>6 DEF Places

(* Every step keeps calls and their client goroutines at consistent        *)
(* places.                                                                 *)
LEMMA PlacesStep == TypeOK /\ Places /\ [Next]_vars => Places'
<1> SUFFICES ASSUME TypeOK, Places, [Next]_vars PROVE Places'
  OBVIOUS
<1> USE DEF TypeOK, Places, PlaceOf, AllJoined, Joined
<1>1. CASE UNCHANGED vars
  BY <1>1 DEF vars, callVars
<1>2. ASSUME NEW c \in Clients, SetClient(c) PROVE Places'
  BY <1>2 DEF SetClient, callVars
<1>3. ASSUME NEW c \in Clients, AddPublisherClient(c) PROVE Places'
  BY <1>3 DEF AddPublisherClient, callVars
<1>4. ASSUME NEW call \in Calls, NEW v \in BOOLEAN, Publish(call, v) PROVE Places'
  <2>1. \A i \in Slots : sub[call][i] = "none"
    BY <1>4 DEF Publish, Called, Slots
  <2> QED
    BY <1>4, <2>1 DEF Publish, Called, callVars
<1>5. ASSUME NEW call \in Calls, NEW v \in BOOLEAN, PublishJSON(call, v) PROVE Places'
  <2>1. started[call] = 0 /\ \A i \in Slots : sub[call][i] = "none"
    BY <1>5 DEF PublishJSON, Called, Slots
  <2>2. Len(clients) \in Nat
    BY DEF Slots
  <2> QED
    BY <1>5, <2>1, <2>2 DEF PublishJSON, Called, callVars
<1>6. ASSUME NEW w \in Waiters, WaitForAllPublishing(w) PROVE Places'
  BY <1>6 DEF WaitForAllPublishing, callVars
<1>7. ASSUME NEW call \in Calls, EnterLoop(call) PROVE Places'
  <2>1. started[call] = 0
    BY <1>7 DEF EnterLoop
  <2>2. Len(clients) \in Nat
    BY DEF Slots
  <2> QED
    BY <1>7, <2>1, <2>2 DEF EnterLoop, callVars
<1>8. ASSUME NEW call \in Calls, Fork(call) PROVE Places'
  BY <1>8, PlacesFork
<1>9. ASSUME NEW call \in Calls, CloseReady(call) PROVE Places'
  BY <1>9 DEF CloseReady, callVars
<1>10. ASSUME NEW call \in Calls, NEW i \in Slots, ClientPublish(call, i) PROVE Places'
  BY <1>10 DEF ClientPublish, SetPhase, callVars
<1>11. ASSUME NEW call \in Calls, NEW i \in Slots, Release(call, i) PROVE Places'
  BY <1>11 DEF Release, SetPhase, callVars
<1>12. ASSUME NEW call \in Calls, NEW i \in Slots, GroupDone(call, i) PROVE Places'
  BY <1>12 DEF GroupDone, SetPhase, callVars
<1>13. ASSUME NEW call \in Calls, NEW i \in Slots, AssignErrType(call, i) PROVE Places'
  BY <1>13 DEF AssignErrType, SetPhase, callVars
<1>14. ASSUME NEW call \in Calls, NEW i \in Slots, LocalDone(call, i) PROVE Places'
  BY <1>14 DEF LocalDone, SetPhase, callVars
<1>15. ASSUME NEW call \in Calls, NEW i \in Slots, JSONRelease(call, i) PROVE Places'
  BY <1>15 DEF JSONRelease, SetPhase, callVars
<1>16. ASSUME NEW w \in Waiters, WaitReturn(w) PROVE Places'
  BY <1>16 DEF WaitReturn, callVars
<1>17. ASSUME NEW w \in Waiters, WaitPanic(w) PROVE Places'
  BY <1>17 DEF WaitPanic, callVars
<1> QED
  BY <1>1, <1>2, <1>3, <1>4, <1>5, <1>6, <1>7, <1>8, <1>9, <1>10, <1>11, <1>12,
     <1>13, <1>14, <1>15, <1>16, <1>17
     DEF Next, Running, Application, CallGoroutine, ClientGoroutine

(* Every step keeps publishWaitGroup exact: Add with the start of a        *)
(* goroutine, Done once on its way out.                                    *)
LEMMA CounterStep == TypeOK /\ Places /\ CounterExact /\ [Next]_vars => CounterExact'
<1> SUFFICES ASSUME TypeOK, Places, CounterExact, [Next]_vars PROVE CounterExact'
  OBVIOUS
<1> USE DEF CounterExact
<1>1. CASE UNCHANGED vars
  BY <1>1 DEF vars, Held
<1>2. ASSUME NEW c \in Clients, SetClient(c) PROVE CounterExact'
  BY <1>2 DEF SetClient, Held
<1>3. ASSUME NEW c \in Clients, AddPublisherClient(c) PROVE CounterExact'
  BY <1>3 DEF AddPublisherClient, Held
<1>4. ASSUME NEW call \in Calls, NEW v \in BOOLEAN, Publish(call, v) PROVE CounterExact'
  BY <1>4 DEF Publish, Held
<1>5. ASSUME NEW call \in Calls, NEW v \in BOOLEAN, PublishJSON(call, v) PROVE CounterExact'
  BY <1>5 DEF PublishJSON, Held
<1>6. ASSUME NEW w \in Waiters, WaitForAllPublishing(w) PROVE CounterExact'
  BY <1>6 DEF WaitForAllPublishing, Held
<1>7. ASSUME NEW call \in Calls, EnterLoop(call) PROVE CounterExact'
  BY <1>7 DEF EnterLoop, Held
<1>8. ASSUME NEW call \in Calls, Fork(call) PROVE CounterExact'
  <2> DEFINE i == started[call] + 1
  <2>1. i \in Slots /\ sub[call][i] = "none"
    <3>1. Len(targets[call]) \in 0..MaxFanout /\ started[call] \in 0..MaxFanout
      BY DEF TypeOK
    <3>2. started[call] < Len(targets[call])
      BY <1>8 DEF Fork
    <3>3. i \in Slots /\ ~(i <= started[call])
      BY <3>1, <3>2, FanoutAssumption DEF Slots
    <3> QED
      BY <3>3 DEF Places, PlaceOf
  <2>2. Held' = Held \cup {<<call, i>>}
    <3>1. SetPhase(call, i, "running")
      BY <1>8 DEF Fork
    <3>2. "running" \in Counted
      BY DEF Counted
    <3> HIDE DEF i
    <3> QED
      BY <2>1, <3>1, <3>2, HeldUpdate
  <2>3. <<call, i>> \notin Held
    BY <2>1 DEF Held, Counted
  <2>4. wg' = wg + 1
    BY <1>8 DEF Fork, WgAdd
  <2> QED
    BY <2>2, <2>3, <2>4, HeldFinite, FS_AddElement
<1>9. ASSUME NEW call \in Calls, CloseReady(call) PROVE CounterExact'
  BY <1>9 DEF CloseReady, Held
<1>10. ASSUME NEW call \in Calls, NEW i \in Slots, ClientPublish(call, i) PROVE CounterExact'
  <2>1. Held' = Held \cup {<<call, i>>}
    BY <1>10, HeldUpdate DEF ClientPublish, Counted
  <2>2. <<call, i>> \in Held
    BY <1>10 DEF ClientPublish, Held, Counted
  <2> QED
    BY <1>10, <2>1, <2>2 DEF ClientPublish
<1>11. ASSUME NEW call \in Calls, NEW i \in Slots, Release(call, i) PROVE CounterExact'
  <2>1. Held' = Held \ {<<call, i>>}
    BY <1>11, HeldUpdate DEF Release, Counted
  <2>2. sub[call][i] \in Counted
    BY <1>11 DEF Release, Counted
  <2> QED
    BY <1>11, <2>1, <2>2, HolderCounts DEF Release, WgDone
<1>12. ASSUME NEW call \in Calls, NEW i \in Slots, GroupDone(call, i) PROVE CounterExact'
  <2>1. Held' = Held \ {<<call, i>>}
    BY <1>12, HeldUpdate DEF GroupDone, Counted
  <2>2. <<call, i>> \notin Held
    BY <1>12 DEF GroupDone, Held, Counted
  <2> QED
    BY <1>12, <2>1, <2>2 DEF GroupDone
<1>13. ASSUME NEW call \in Calls, NEW i \in Slots, AssignErrType(call, i) PROVE CounterExact'
  <2>1. Held' = Held \cup {<<call, i>>}
    BY <1>13, HeldUpdate DEF AssignErrType, Counted
  <2>2. <<call, i>> \in Held
    BY <1>13 DEF AssignErrType, Held, Counted
  <2> QED
    BY <1>13, <2>1, <2>2 DEF AssignErrType
<1>14. ASSUME NEW call \in Calls, NEW i \in Slots, LocalDone(call, i) PROVE CounterExact'
  <2>1. Held' = Held \cup {<<call, i>>}
    BY <1>14, HeldUpdate DEF LocalDone, Counted
  <2>2. <<call, i>> \in Held
    BY <1>14 DEF LocalDone, Held, Counted
  <2> QED
    BY <1>14, <2>1, <2>2 DEF LocalDone
<1>15. ASSUME NEW call \in Calls, NEW i \in Slots, JSONRelease(call, i) PROVE CounterExact'
  <2>1. Held' = Held \ {<<call, i>>}
    BY <1>15, HeldUpdate DEF JSONRelease, Counted
  <2>2. sub[call][i] \in Counted
    BY <1>15 DEF JSONRelease, Counted
  <2> QED
    BY <1>15, <2>1, <2>2, HolderCounts DEF JSONRelease, WgDone
<1>16. ASSUME NEW w \in Waiters, WaitReturn(w) PROVE CounterExact'
  BY <1>16 DEF WaitReturn, Held
<1>17. ASSUME NEW w \in Waiters, WaitPanic(w) PROVE CounterExact'
  BY <1>17 DEF WaitPanic, Held
<1> QED
  BY <1>1, <1>2, <1>3, <1>4, <1>5, <1>6, <1>7, <1>8, <1>9, <1>10, <1>11, <1>12,
     <1>13, <1>14, <1>15, <1>16, <1>17
     DEF Next, Running, Application, CallGoroutine, ClientGoroutine

-----------------------------------------------------------------------------
(* The waiters. *)

Forked == {s \in Calls \X Slots : sub[s[1]][s[2]] # "none"}

(* A goroutine never takes the WaitGroup again. *)
NoReturn == Forked \subseteq Forked' /\ Held' \cap Forked \subseteq Held

(* Moving one goroutine on, and not back to where it would hold the        *)
(* WaitGroup again, is no return.                                          *)
LEMMA MovedOn ==
  ASSUME TypeOK, NEW call \in Calls, NEW i \in Slots, NEW p,
         SetPhase(call, i, p), p # "none",
         p \in Counted => sub[call][i] \in Counted \/ sub[call][i] = "none"
  PROVE  NoReturn
<1>1. \A s \in Calls \X Slots :
        sub'[s[1]][s[2]] = IF s = <<call, i>> THEN p ELSE sub[s[1]][s[2]]
  BY DEF SetPhase, TypeOK
<1> QED
  BY <1>1 DEF NoReturn, Forked, Held

(* Steps that move no client goroutine are no return either.               *)
LEMMA Resting == ASSUME sub' = sub PROVE NoReturn
  BY DEF NoReturn, Forked, Held

(* No step of publish.go lets a goroutine that called Done take the        *)
(* WaitGroup again.                                                        *)
LEMMA NoReturnStep == TypeOK /\ Places /\ [Next]_vars => NoReturn
<1> SUFFICES ASSUME TypeOK, Places, [Next]_vars PROVE NoReturn
  OBVIOUS
<1>1. CASE UNCHANGED vars
  BY <1>1, Resting DEF vars
<1>2. ASSUME NEW c \in Clients, SetClient(c) PROVE NoReturn
  BY <1>2, Resting DEF SetClient
<1>3. ASSUME NEW c \in Clients, AddPublisherClient(c) PROVE NoReturn
  BY <1>3, Resting DEF AddPublisherClient
<1>4. ASSUME NEW call \in Calls, NEW v \in BOOLEAN, Publish(call, v) PROVE NoReturn
  BY <1>4, Resting DEF Publish
<1>5. ASSUME NEW call \in Calls, NEW v \in BOOLEAN, PublishJSON(call, v) PROVE NoReturn
  BY <1>5, Resting DEF PublishJSON
<1>6. ASSUME NEW w \in Waiters, WaitForAllPublishing(w) PROVE NoReturn
  BY <1>6, Resting DEF WaitForAllPublishing
<1>7. ASSUME NEW call \in Calls, EnterLoop(call) PROVE NoReturn
  BY <1>7, Resting DEF EnterLoop
<1>8. ASSUME NEW call \in Calls, Fork(call) PROVE NoReturn
  <2>1. Len(targets[call]) \in 0..MaxFanout /\ started[call] \in 0..MaxFanout
    BY DEF TypeOK
  <2>2. started[call] + 1 \in Slots /\ ~(started[call] + 1 <= started[call])
    BY <1>8, <2>1, FanoutAssumption DEF Fork, Slots
  <2>3. sub[call][started[call] + 1] = "none"
    BY <2>2 DEF Places, PlaceOf
  <2> QED
    BY <1>8, <2>2, <2>3, MovedOn DEF Fork
<1>9. ASSUME NEW call \in Calls, CloseReady(call) PROVE NoReturn
  BY <1>9, Resting DEF CloseReady
<1>10. ASSUME NEW call \in Calls, NEW i \in Slots, ClientPublish(call, i) PROVE NoReturn
  BY <1>10, MovedOn DEF ClientPublish, Counted
<1>11. ASSUME NEW call \in Calls, NEW i \in Slots, Release(call, i) PROVE NoReturn
  BY <1>11, MovedOn DEF Release, Counted
<1>12. ASSUME NEW call \in Calls, NEW i \in Slots, GroupDone(call, i) PROVE NoReturn
  BY <1>12, MovedOn DEF GroupDone, Counted
<1>13. ASSUME NEW call \in Calls, NEW i \in Slots, AssignErrType(call, i) PROVE NoReturn
  BY <1>13, MovedOn DEF AssignErrType, Counted
<1>14. ASSUME NEW call \in Calls, NEW i \in Slots, LocalDone(call, i) PROVE NoReturn
  BY <1>14, MovedOn DEF LocalDone, Counted
<1>15. ASSUME NEW call \in Calls, NEW i \in Slots, JSONRelease(call, i) PROVE NoReturn
  BY <1>15, MovedOn DEF JSONRelease, Counted
<1>16. ASSUME NEW w \in Waiters, WaitReturn(w) PROVE NoReturn
  BY <1>16, Resting DEF WaitReturn
<1>17. ASSUME NEW w \in Waiters, WaitPanic(w) PROVE NoReturn
  BY <1>17, Resting DEF WaitPanic
<1> QED
  BY <1>1, <1>2, <1>3, <1>4, <1>5, <1>6, <1>7, <1>8, <1>9, <1>10, <1>11, <1>12,
     <1>13, <1>14, <1>15, <1>16, <1>17
     DEF Next, Running, Application, CallGoroutine, ClientGoroutine

(* A parked waiter has something to wait for, and one that was woken has   *)
(* nothing left to wait for. *)
WaitOf(w) ==
  /\ covered[w] \subseteq Forked
  /\ waiter[w] = "parked" => wg # 0
  /\ waiter[w] \in {"woken", "returned"} => covered[w] \cap Held = {}

WaitInv == \A w \in Waiters : WaitOf(w)

(* When the counter is zero no client goroutine holds the WaitGroup.       *)
LEMMA NoneHeld == ASSUME CounterExact, wg = 0 PROVE Held = {}
  BY HeldFinite, FS_EmptySet DEF CounterExact

(* The same after a step.                                                  *)
LEMMA NoneHeldNext == ASSUME CounterExact', wg' = 0 PROVE Held' = {}
<1>1. IsFiniteSet(Held)'
  BY HeldFinite, PTL
<1>2. Cardinality(Held') = 0
  BY DEF CounterExact
<1> QED
  BY <1>1, <1>2, FS_EmptySet

(* What is known of waiters stays so through steps that leave them and     *)
(* their wake-up alone.                                                    *)
LEMMA WaitRests ==
  ASSUME NoReturn, WaitInv, waiter' = waiter, covered' = covered,
         wg' = wg \/ wg' # 0
  PROVE  WaitInv'
  BY DEF NoReturn, WaitInv, WaitOf

(* Done keeps what is known of waiters: it wakes them exactly when the     *)
(* last goroutine lets go.                                                 *)
LEMMA WaitDone ==
  ASSUME TypeOK, NoReturn, WaitInv, CounterExact', WgDone, covered' = covered
  PROVE  WaitInv'
<1>1. CASE wg = 1
  <2>1. wg' = 0
    BY <1>1 DEF WgDone
  <2>2. Held' = {}
    BY <2>1, NoneHeldNext
  <2>3. \A w \in Waiters : waiter'[w] # "parked"
    BY <1>1 DEF WgDone, TypeOK
  <2> QED
    BY <2>2, <2>3 DEF NoReturn, WaitInv, WaitOf
<1>2. CASE wg # 1
  <2>1. wg' # 0
    BY <1>2 DEF WgDone, TypeOK
  <2>2. waiter' = waiter
    BY <1>2 DEF WgDone, TypeOK
  <2> QED
    BY <2>1, <2>2, WaitRests
<1> QED
  BY <1>1, <1>2

(* Every step keeps what is known of the callers of                        *)
(* WaitForAllPublishing.                                                   *)
LEMMA WaitStep ==
  TypeOK /\ Places /\ CounterExact /\ CounterExact' /\ WaitInv /\ [Next]_vars
    => WaitInv'
<1> SUFFICES ASSUME TypeOK, Places, CounterExact, CounterExact', WaitInv, [Next]_vars
             PROVE  WaitInv'
  OBVIOUS
<1>0. NoReturn
  BY NoReturnStep
<1>1. CASE UNCHANGED vars
  BY <1>1, <1>0, WaitRests DEF vars
<1>2. ASSUME NEW c \in Clients, SetClient(c) PROVE WaitInv'
  BY <1>2, <1>0, WaitRests DEF SetClient
<1>3. ASSUME NEW c \in Clients, AddPublisherClient(c) PROVE WaitInv'
  BY <1>3, <1>0, WaitRests DEF AddPublisherClient
<1>4. ASSUME NEW call \in Calls, NEW v \in BOOLEAN, Publish(call, v) PROVE WaitInv'
  BY <1>4, <1>0, WaitRests DEF Publish
<1>5. ASSUME NEW call \in Calls, NEW v \in BOOLEAN, PublishJSON(call, v) PROVE WaitInv'
  BY <1>5, <1>0, WaitRests DEF PublishJSON
<1>6. ASSUME NEW w \in Waiters, WaitForAllPublishing(w) PROVE WaitInv'
  <2>1. Held \subseteq Forked
    BY DEF Held, Forked, Counted
  <2>2. wg = 0 => Held = {}
    BY NoneHeld
  <2>3. Held' = Held /\ Forked' = Forked /\ wg' = wg
    BY <1>6 DEF WaitForAllPublishing, Held, Forked
  <2>4. WaitOf(w)'
    BY <1>6, <2>1, <2>2, <2>3 DEF WaitForAllPublishing, WaitOf, TypeOK
  <2>5. ASSUME NEW v \in Waiters, v # w PROVE WaitOf(v)'
    BY <1>6, <2>3, <2>5 DEF WaitForAllPublishing, WaitInv, WaitOf, TypeOK
  <2> QED
    BY <2>4, <2>5 DEF WaitInv
<1>7. ASSUME NEW call \in Calls, EnterLoop(call) PROVE WaitInv'
  BY <1>7, <1>0, WaitRests DEF EnterLoop
<1>8. ASSUME NEW call \in Calls, Fork(call) PROVE WaitInv'
  BY <1>8, <1>0, WaitRests DEF Fork, WgAdd, TypeOK
<1>9. ASSUME NEW call \in Calls, CloseReady(call) PROVE WaitInv'
  BY <1>9, <1>0, WaitRests DEF CloseReady
<1>10. ASSUME NEW call \in Calls, NEW i \in Slots, ClientPublish(call, i) PROVE WaitInv'
  BY <1>10, <1>0, WaitRests DEF ClientPublish
<1>11. ASSUME NEW call \in Calls, NEW i \in Slots, Release(call, i) PROVE WaitInv'
  BY <1>11, <1>0, WaitDone DEF Release
<1>12. ASSUME NEW call \in Calls, NEW i \in Slots, GroupDone(call, i) PROVE WaitInv'
  BY <1>12, <1>0, WaitRests DEF GroupDone
<1>13. ASSUME NEW call \in Calls, NEW i \in Slots, AssignErrType(call, i) PROVE WaitInv'
  BY <1>13, <1>0, WaitRests DEF AssignErrType
<1>14. ASSUME NEW call \in Calls, NEW i \in Slots, LocalDone(call, i) PROVE WaitInv'
  BY <1>14, <1>0, WaitRests DEF LocalDone
<1>15. ASSUME NEW call \in Calls, NEW i \in Slots, JSONRelease(call, i) PROVE WaitInv'
  BY <1>15, <1>0, WaitDone DEF JSONRelease
<1>16. ASSUME NEW w \in Waiters, WaitReturn(w) PROVE WaitInv'
  <2>1. Held' = Held /\ Forked' = Forked
    BY <1>16 DEF WaitReturn, Held, Forked
  <2> QED
    BY <1>16, <2>1 DEF WaitReturn, WaitInv, WaitOf, TypeOK
<1>17. ASSUME NEW w \in Waiters, WaitPanic(w) PROVE WaitInv'
  BY <1>17, <1>0, WaitRests DEF WaitPanic
<1> QED
  BY <1>1, <1>2, <1>3, <1>4, <1>5, <1>6, <1>7, <1>8, <1>9, <1>10, <1>11, <1>12,
     <1>13, <1>14, <1>15, <1>16, <1>17
     DEF Next, Running, Application, CallGoroutine, ClientGoroutine

-----------------------------------------------------------------------------
(* Errors on their way from the goroutine that got them to Ready. *)

(* What a call knows before it has any result. *)
ErrEarly(call) ==
  /\ \A i \in Slots : IsError(result[call][i]) => sub[call][i] \notin {"none", "running"}
  /\ pc[call] \in {"idle", "spawned"} => ~IsError(prErr[call])

(* The errgroup, which only Publish uses. *)
ErrGroup(call) ==
  /\ IsError(egErr[call]) =>
       /\ kind[call] = "Publish"
       /\ \E i \in Slots : sub[call][i] = "joined" /\ egErr[call] = result[call][i]
  /\ kind[call] = "Publish" =>
       \A i \in Slots :
         sub[call][i] = "joined" /\ IsError(result[call][i]) => IsError(egErr[call])

(* PublishResult.Err of Publish, written once, just before Ready. *)
ErrPublish(call) ==
  kind[call] = "Publish" =>
    /\ pc[call] # "ready" => ~IsError(prErr[call])
    /\ pc[call] = "ready" =>
         IF IsError(egErr[call]) THEN prErr[call] = egErr[call] ELSE ~IsError(prErr[call])

(* PublishResult.Err of PublishJSON, written by any client goroutine. *)
ErrJSON(call) ==
  kind[call] = "PublishJSON" =>
    /\ IsError(prErr[call]) => \E i \in Slots : IsError(result[call][i])
    /\ \A i \in Slots :
         sub[call][i] \in {"half", "local", "joined"} /\ IsError(result[call][i])
           => IsError(prErr[call])

ErrorOf(call) == ErrEarly(call) /\ ErrGroup(call) /\ ErrPublish(call) /\ ErrJSON(call)

Errors == \A call \in Calls : ErrorOf(call)

(* A step that leaves these parts of the other calls alone. *)
OthersRest(call) ==
  \A c \in Calls : c # call =>
    /\ pc'[c] = pc[c] /\ kind'[c] = kind[c] /\ sub'[c] = sub[c]
    /\ result'[c] = result[c] /\ egErr'[c] = egErr[c] /\ prErr'[c] = prErr[c]

(* A step that touches one call only has to be looked at for that call.    *)
LEMMA ErrorsFocus ==
  ASSUME Errors, NEW call \in Calls, OthersRest(call), ErrorOf(call)'
  PROVE  Errors'
  BY DEF Errors, ErrorOf, ErrEarly, ErrGroup, ErrPublish, ErrJSON, OthersRest

(* Steps that touch no error, place or result keep what is known of        *)
(* errors.                                                                 *)
LEMMA ErrorsRest ==
  ASSUME Errors, pc' = pc, kind' = kind, sub' = sub, result' = result,
         egErr' = egErr, prErr' = prErr
  PROVE  Errors'
  BY DEF Errors, ErrorOf, ErrEarly, ErrGroup, ErrPublish, ErrJSON

(* Before any call there are no errors.                                    *)
LEMMA InitErrors == Init => Errors
  BY DEF Init, Errors, ErrorOf, ErrEarly, ErrGroup, ErrPublish, ErrJSON,
     IsError, Nil

(* A call that has not started a goroutine has seen no error. *)
LEMMA FreshCall ==
  ASSUME TypeOK, Places, Errors, NEW call \in Calls, pc[call] \in {"idle", "spawned"}
  PROVE  /\ \A i \in Slots : sub[call][i] = "none" /\ ~IsError(result[call][i])
         /\ ~IsError(egErr[call])
         /\ ~IsError(prErr[call])
<1>1. started[call] = 0
  BY DEF Places, PlaceOf
<1>2. \A i \in Slots : ~(i <= 0)
  BY DEF Slots
<1>3. \A i \in Slots : sub[call][i] = "none"
  BY <1>1, <1>2 DEF Places, PlaceOf
<1> QED
  BY <1>3 DEF Errors, ErrorOf, ErrEarly, ErrGroup

(* While a goroutine of the call has not joined, the call is in its loop. *)
LEMMA BusyCall ==
  ASSUME TypeOK, Places, NEW call \in Calls, NEW i \in Slots,
         sub[call][i] \in {"running", "returned", "half", "released"}
  PROVE  pc[call] = "fanout"
<1>1. i <= started[call] /\ i \in Nat \ {0} /\ started[call] \in Nat
  BY DEF Places, PlaceOf, Slots, TypeOK
<1>2. pc[call] \notin {"idle", "spawned"}
  BY <1>1 DEF Places, PlaceOf
<1>3. pc[call] # "ready"
  <2> SUFFICES ASSUME AllJoined(call) PROVE FALSE
    BY DEF Places, PlaceOf
  <2>1. i \in 1..Len(targets[call])
    BY <1>1 DEF AllJoined
  <2> QED
    BY <2>1 DEF AllJoined, Joined
<1> QED
  BY <1>2, <1>3 DEF TypeOK

(* Every step keeps the errors of each call consistent on their way from   *)
(* Client.Publish to PublishResult.Err.                                    *)
LEMMA ErrorsStep == TypeOK /\ Places /\ Errors /\ [Next]_vars => Errors'
<1> SUFFICES ASSUME TypeOK, Places, Errors, [Next]_vars PROVE Errors'
  OBVIOUS
<1>1. CASE UNCHANGED vars
  BY <1>1, ErrorsRest DEF vars, callVars
<1>2. ASSUME NEW c \in Clients, SetClient(c) PROVE Errors'
  BY <1>2, ErrorsRest DEF SetClient, callVars
<1>3. ASSUME NEW c \in Clients, AddPublisherClient(c) PROVE Errors'
  BY <1>3, ErrorsRest DEF AddPublisherClient, callVars
<1>4. ASSUME NEW call \in Calls, NEW v \in BOOLEAN, Publish(call, v) PROVE Errors'
  <2>1. OthersRest(call)
    BY <1>4 DEF Publish, Called, TypeOK, OthersRest
  <2>2. ErrorOf(call)'
    BY <1>4, FreshCall DEF Publish, Called, TypeOK, Errors, ErrorOf,
       ErrEarly, ErrGroup, ErrPublish, ErrJSON
  <2> QED
    BY <2>1, <2>2, ErrorsFocus
<1>5. ASSUME NEW call \in Calls, NEW v \in BOOLEAN, PublishJSON(call, v) PROVE Errors'
  <2>1. OthersRest(call)
    BY <1>5 DEF PublishJSON, Called, TypeOK, OthersRest
  <2>2. ErrorOf(call)'
    BY <1>5, FreshCall DEF PublishJSON, Called, TypeOK, Errors, ErrorOf,
       ErrEarly, ErrGroup, ErrPublish, ErrJSON
  <2> QED
    BY <2>1, <2>2, ErrorsFocus
<1>6. ASSUME NEW w \in Waiters, WaitForAllPublishing(w) PROVE Errors'
  BY <1>6, ErrorsRest DEF WaitForAllPublishing, callVars
<1>7. ASSUME NEW call \in Calls, EnterLoop(call) PROVE Errors'
  <2>1. OthersRest(call)
    BY <1>7 DEF EnterLoop, TypeOK, OthersRest, callVars
  <2>2. ErrorOf(call)'
    BY <1>7, FreshCall DEF EnterLoop, TypeOK, Errors, ErrorOf,
       ErrEarly, ErrGroup, ErrPublish, ErrJSON
  <2> QED
    BY <2>1, <2>2, ErrorsFocus
<1>8. ASSUME NEW call \in Calls, Fork(call) PROVE Errors'
  <2>1. OthersRest(call)
    BY <1>8 DEF Fork, SetPhase, callVars, TypeOK, OthersRest
  <2>3. \A i \in Slots :
          /\ sub'[call][i] \in {sub[call][i], "running"}
          /\ sub[call][i] # "none" => sub'[call][i] = sub[call][i]
    <3>1. \A i \in Slots : i = started[call] + 1 => sub[call][i] = "none"
      BY DEF Places, PlaceOf, TypeOK, Slots
    <3> QED
      BY <1>8, <3>1 DEF Fork, SetPhase, TypeOK
  <2>2. ErrorOf(call)'
    BY <1>8, <2>3 DEF Fork, callVars, Errors, ErrorOf, ErrEarly, ErrGroup, ErrPublish, ErrJSON
  <2> QED
    BY <2>1, <2>2, ErrorsFocus
<1>9. ASSUME NEW call \in Calls, CloseReady(call) PROVE Errors'
  <2>1. OthersRest(call)
    BY <1>9 DEF CloseReady, callVars, TypeOK, OthersRest
  <2>2. ErrorOf(call)'
    BY <1>9 DEF CloseReady, callVars, TypeOK, Errors, ErrorOf,
       ErrEarly, ErrGroup, ErrPublish, ErrJSON
  <2> QED
    BY <2>1, <2>2, ErrorsFocus
<1>10. ASSUME NEW call \in Calls, NEW i \in Slots, ClientPublish(call, i) PROVE Errors'
  <2>1. OthersRest(call)
    BY <1>10 DEF ClientPublish, SetPhase, callVars, TypeOK, OthersRest
  <2>3. \A j \in Slots : sub'[call][j] = IF j = i THEN "returned" ELSE sub[call][j]
    BY <1>10 DEF ClientPublish, SetPhase, TypeOK
  <2>4. \A j \in Slots : j # i => result'[call][j] = result[call][j]
    BY <1>10 DEF ClientPublish, TypeOK
  <2>5. ErrorOf(call)
    BY DEF Errors
  <2>6. ErrEarly(call)'
    BY <1>10, <2>3, <2>4, <2>5 DEF ClientPublish, callVars, ErrorOf, ErrEarly
  <2>7. ErrGroup(call)'
    BY <1>10, <2>3, <2>4, <2>5 DEF ClientPublish, callVars, ErrorOf, ErrEarly, ErrGroup
  <2>8. ErrPublish(call)'
    BY <1>10, <2>3, <2>4, <2>5 DEF ClientPublish, callVars, ErrorOf, ErrPublish
  <2>9. ErrJSON(call)'
    BY <1>10, <2>3, <2>4, <2>5 DEF ClientPublish, callVars, ErrorOf, ErrEarly, ErrJSON
  <2>2. ErrorOf(call)'
    BY <2>6, <2>7, <2>8, <2>9 DEF ErrorOf
  <2> QED
    BY <2>1, <2>2, ErrorsFocus
<1>11. ASSUME NEW call \in Calls, NEW i \in Slots, Release(call, i) PROVE Errors'
  <2>1. OthersRest(call)
    BY <1>11 DEF Release, SetPhase, callVars, TypeOK, OthersRest
  <2>3. \A j \in Slots : sub'[call][j] = IF j = i THEN "released" ELSE sub[call][j]
    BY <1>11 DEF Release, SetPhase, TypeOK
  <2>4. kind[call] = "Publish"
    BY <1>11 DEF Release
  <2>5. ErrorOf(call)
    BY DEF Errors
  <2>6. ErrEarly(call)'
    BY <1>11, <2>3, <2>4, <2>5 DEF Release, callVars, ErrorOf, ErrEarly
  <2>7. ErrGroup(call)'
    BY <1>11, <2>3, <2>4, <2>5 DEF Release, callVars, ErrorOf, ErrEarly, ErrGroup
  <2>8. ErrPublish(call)'
    BY <1>11, <2>3, <2>4, <2>5 DEF Release, callVars, ErrorOf, ErrPublish
  <2>9. ErrJSON(call)'
    BY <1>11, <2>3, <2>4, <2>5 DEF Release, callVars, ErrorOf, ErrEarly, ErrJSON
  <2>2. ErrorOf(call)'
    BY <2>6, <2>7, <2>8, <2>9 DEF ErrorOf
  <2> QED
    BY <2>1, <2>2, ErrorsFocus
<1>12. ASSUME NEW call \in Calls, NEW i \in Slots, GroupDone(call, i) PROVE Errors'
  <2>1. OthersRest(call)
    BY <1>12 DEF GroupDone, SetPhase, callVars, NoteError, TypeOK, OthersRest
  <2>3. \A j \in Slots : sub'[call][j] = IF j = i THEN "joined" ELSE sub[call][j]
    BY <1>12 DEF GroupDone, SetPhase, TypeOK
  <2>4. /\ kind[call] = "Publish"
        /\ pc[call] = "fanout"
        /\ egErr'[call] = IF IsError(result[call][i]) /\ ~IsError(egErr[call])
                          THEN result[call][i] ELSE egErr[call]
    BY <1>12, BusyCall DEF GroupDone, NoteError, Places, PlaceOf, TypeOK
  <2>5. ErrorOf(call)
    BY DEF Errors
  <2>6. ErrEarly(call)'
    BY <1>12, <2>3, <2>4, <2>5 DEF GroupDone, callVars, ErrorOf, ErrEarly
  <2>7. ErrGroup(call)'
    BY <1>12, <2>3, <2>4, <2>5 DEF GroupDone, callVars, ErrorOf, ErrEarly, ErrGroup
  <2>8. ErrPublish(call)'
    BY <1>12, <2>3, <2>4, <2>5 DEF GroupDone, callVars, ErrorOf, ErrPublish
  <2>9. ErrJSON(call)'
    BY <1>12, <2>3, <2>4, <2>5 DEF GroupDone, callVars, ErrorOf, ErrEarly, ErrJSON
  <2>2. ErrorOf(call)'
    BY <2>6, <2>7, <2>8, <2>9 DEF ErrorOf
  <2> QED
    BY <2>1, <2>2, ErrorsFocus
<1>13. ASSUME NEW call \in Calls, NEW i \in Slots, AssignErrType(call, i) PROVE Errors'
  <2>1. OthersRest(call)
    BY <1>13 DEF AssignErrType, SetPhase, callVars, TypeOK, OthersRest
  <2>3. \A j \in Slots : sub'[call][j] = IF j = i THEN "half" ELSE sub[call][j]
    BY <1>13 DEF AssignErrType, SetPhase, TypeOK
  <2>4. /\ prErr'[call].type = result[call][i].type
        /\ IsError(prErr'[call])
        /\ pc[call] = "fanout"
    BY <1>13, BusyCall DEF AssignErrType, TypeOK, IsError
  <2>5. ErrorOf(call)
    BY DEF Errors
  <2>6. ErrEarly(call)'
    BY <1>13, <2>3, <2>4, <2>5 DEF AssignErrType, callVars, ErrorOf, ErrEarly
  <2>7. ErrGroup(call)'
    BY <1>13, <2>3, <2>4, <2>5 DEF AssignErrType, callVars, ErrorOf, ErrEarly, ErrGroup
  <2>8. ErrPublish(call)'
    BY <1>13, <2>3, <2>4, <2>5 DEF AssignErrType, callVars, ErrorOf, ErrPublish
  <2>9. ErrJSON(call)'
    BY <1>13, <2>3, <2>4, <2>5 DEF AssignErrType, callVars, ErrorOf, ErrEarly, ErrJSON
  <2>2. ErrorOf(call)'
    BY <2>6, <2>7, <2>8, <2>9 DEF ErrorOf
  <2> QED
    BY <2>1, <2>2, ErrorsFocus
<1>14. ASSUME NEW call \in Calls, NEW i \in Slots, LocalDone(call, i) PROVE Errors'
  <2>1. OthersRest(call)
    BY <1>14 DEF LocalDone, SetPhase, callVars, TypeOK, OthersRest
  <2>3. \A j \in Slots : sub'[call][j] = IF j = i THEN "local" ELSE sub[call][j]
    BY <1>14 DEF LocalDone, SetPhase, TypeOK
  <2>4. IsError(prErr'[call]) <=> IsError(prErr[call])
    BY <1>14 DEF LocalDone, TypeOK, IsError
  <2>5. ErrorOf(call)
    BY DEF Errors
  <2>6. ErrEarly(call)'
    BY <1>14, <2>3, <2>4, <2>5 DEF LocalDone, callVars, ErrorOf, ErrEarly
  <2>7. ErrGroup(call)'
    BY <1>14, <2>3, <2>4, <2>5 DEF LocalDone, callVars, ErrorOf, ErrEarly, ErrGroup
  <2>8. ErrPublish(call)'
    BY <1>14, <2>3, <2>4, <2>5 DEF LocalDone, callVars, ErrorOf, ErrPublish
  <2>9. ErrJSON(call)'
    BY <1>14, <2>3, <2>4, <2>5 DEF LocalDone, callVars, ErrorOf, ErrEarly, ErrJSON
  <2>2. ErrorOf(call)'
    BY <2>6, <2>7, <2>8, <2>9 DEF ErrorOf
  <2> QED
    BY <2>1, <2>2, ErrorsFocus
<1>15. ASSUME NEW call \in Calls, NEW i \in Slots, JSONRelease(call, i) PROVE Errors'
  <2>1. OthersRest(call)
    BY <1>15 DEF JSONRelease, SetPhase, callVars, TypeOK, OthersRest
  <2>3. \A j \in Slots : sub'[call][j] = IF j = i THEN "joined" ELSE sub[call][j]
    BY <1>15 DEF JSONRelease, SetPhase, TypeOK
  <2>4. kind[call] = "PublishJSON"
    BY <1>15 DEF JSONRelease, Places, PlaceOf
  <2>5. ErrorOf(call)
    BY DEF Errors
  <2>6. ErrEarly(call)'
    BY <1>15, <2>3, <2>4, <2>5 DEF JSONRelease, callVars, ErrorOf, ErrEarly
  <2>7. ErrGroup(call)'
    BY <1>15, <2>3, <2>4, <2>5 DEF JSONRelease, callVars, ErrorOf, ErrEarly, ErrGroup
  <2>8. ErrPublish(call)'
    BY <1>15, <2>3, <2>4, <2>5 DEF JSONRelease, callVars, ErrorOf, ErrPublish
  <2>9. ErrJSON(call)'
    BY <1>15, <2>3, <2>4, <2>5 DEF JSONRelease, callVars, ErrorOf, ErrEarly, ErrJSON
  <2>2. ErrorOf(call)'
    BY <2>6, <2>7, <2>8, <2>9 DEF ErrorOf
  <2> QED
    BY <2>1, <2>2, ErrorsFocus
<1>16. ASSUME NEW w \in Waiters, WaitReturn(w) PROVE Errors'
  BY <1>16, ErrorsRest DEF WaitReturn, callVars
<1>17. ASSUME NEW w \in Waiters, WaitPanic(w) PROVE Errors'
  BY <1>17, ErrorsRest DEF WaitPanic, callVars
<1> QED
  BY <1>1, <1>2, <1>3, <1>4, <1>5, <1>6, <1>7, <1>8, <1>9, <1>10, <1>11, <1>12,
     <1>13, <1>14, <1>15, <1>16, <1>17
     DEF Next, Running, Application, CallGoroutine, ClientGoroutine

-----------------------------------------------------------------------------
(* The theorems. *)

Inv == TypeOK /\ Places /\ CounterExact /\ WaitInv /\ Errors

(* The inductive invariant holds initially.                                *)
LEMMA InitInv == Init => Inv
<1> SUFFICES ASSUME Init PROVE Inv
  OBVIOUS
<1>1. Places
  BY DEF Init, Places, PlaceOf, Slots
<1>2. Held = {}
  BY DEF Init, Held, Counted
<1>3. CounterExact
  BY <1>2, FS_EmptySet DEF CounterExact, Init
<1>4. WaitInv
  BY DEF Init, WaitInv, WaitOf
<1> QED
  BY InitType, InitErrors, <1>1, <1>3, <1>4 DEF Inv

(* Every step of publish.go keeps the inductive invariant.                 *)
LEMMA NextInv == Inv /\ [Next]_vars => Inv'
  BY TypeStep, PlacesStep, CounterStep, WaitStep, ErrorsStep DEF Inv

(* The inductive invariant: types, consistent places of calls and their    *)
(* goroutines, an exact publishWaitGroup, what waiters have waited for,    *)
(* and where errors are.                                                   *)
THEOREM Invariance == Spec => []Inv
  BY InitInv, NextInv, PTL DEF Spec

(* Type correctness; with it that the counter of publishWaitGroup never    *)
(* goes negative, which would panic.                                       *)
THEOREM TypeCorrect == Spec => []TypeOK
  BY Invariance, PTL DEF Inv

(* The WaitGroup counts exactly the client goroutines that were started    *)
(* and have not run their deferred Done.                                   *)
THEOREM CounterCorrect == Spec => []CounterExact
  BY Invariance, PTL DEF Inv

(* WaitForAllPublishing waits for all goroutines it counted.               *)
THEOREM WaitCorrect == Spec => []WaitCoversCounted
<1>1. Inv => WaitCoversCounted
  BY DEF Inv, WaitInv, WaitOf, WaitCoversCounted
<1> QED
  BY <1>1, Invariance, PTL

(* When a PublishResult is ready all its clients have been tried, and      *)
(* Err is an error exactly when one of them failed; for Publish it is      *)
(* one of theirs.                                                          *)
LEMMA ReadyTellsAll ==
  ASSUME Inv, NEW call \in Calls, pc[call] = "ready"
  PROVE  /\ \A i \in 1..Len(targets[call]) : i \in Slots /\ sub[call][i] \in {"joined", "local"}
         /\ \A i \in Slots : IsError(result[call][i]) => i \in 1..Len(targets[call])
         /\ IsError(prErr[call]) <=> \E i \in 1..Len(targets[call]) : IsError(result[call][i])
         /\ kind[call] = "Publish" /\ IsError(prErr[call]) =>
              \E i \in 1..Len(targets[call]) : prErr[call] = result[call][i]
<1>1. /\ started[call] = Len(targets[call])
      /\ \A i \in 1..Len(targets[call]) :
           \/ sub[call][i] = "joined"
           \/ kind[call] = "PublishJSON" /\ sub[call][i] = "local"
  BY DEF Inv, Places, PlaceOf, AllJoined, Joined
<1>2. Len(targets[call]) \in 0..MaxFanout
  BY DEF Inv, TypeOK
<1>3. \A i \in 1..Len(targets[call]) : i \in Slots
  BY <1>2, FanoutAssumption DEF Slots
<1>4. \A i \in Slots : sub[call][i] # "none" => i \in 1..Len(targets[call])
  BY <1>1, <1>2 DEF Inv, Places, PlaceOf, Slots
<1>5. ErrEarly(call) /\ ErrGroup(call) /\ ErrPublish(call) /\ ErrJSON(call)
  BY DEF Inv, Errors, ErrorOf
<1>6. \A i \in Slots : IsError(result[call][i]) => i \in 1..Len(targets[call])
  BY <1>4, <1>5 DEF ErrEarly
<1>7. CASE kind[call] = "Publish"
  <2>1. \A i \in 1..Len(targets[call]) : sub[call][i] = "joined"
    BY <1>1, <1>7
  <2>2. IsError(egErr[call]) =>
          \E i \in Slots : sub[call][i] = "joined" /\ egErr[call] = result[call][i]
    BY <1>5 DEF ErrGroup
  <2>3. \A i \in 1..Len(targets[call]) : IsError(result[call][i]) => IsError(egErr[call])
    BY <1>3, <1>5, <1>7, <2>1 DEF ErrGroup
  <2>4. IF IsError(egErr[call]) THEN prErr[call] = egErr[call] ELSE ~IsError(prErr[call])
    BY <1>5, <1>7 DEF ErrPublish
  <2> QED
    BY <1>1, <1>3, <1>4, <1>6, <2>2, <2>3, <2>4
<1>8. CASE kind[call] = "PublishJSON"
  <2>1. IsError(prErr[call]) => \E i \in Slots : IsError(result[call][i])
    BY <1>5, <1>8 DEF ErrJSON
  <2>2. \A i \in 1..Len(targets[call]) : IsError(result[call][i]) => IsError(prErr[call])
    BY <1>1, <1>3, <1>5, <1>8 DEF ErrJSON
  <2> QED
    BY <1>1, <1>3, <1>6, <1>8, <2>1, <2>2
<1> QED
  BY <1>7, <1>8 DEF Inv, TypeOK

(* A ready result tells of every client: an error exactly when one failed. *)
THEOREM AnswerCorrect == Spec => []AnswerTellsAll
<1>1. Inv => AnswerTellsAll
  BY ReadyTellsAll DEF AnswerTellsAll
<1> QED
  BY <1>1, Invariance, PTL

-----------------------------------------------------------------------------
(* The two words of an error on their way to PublishResult.Err. *)

(* Every error has the same two words wherever it comes from, and each     *)
(* word of the error of PublishJSON was written by a goroutine whose       *)
(* client failed and that is past writing it.                              *)
WordsOf(call) ==
  /\ \A i \in Slots : result[call][i].type = result[call][i].data
  /\ \A i \in Slots : sub[call][i] = "half" => IsError(result[call][i])
  /\ pc[call] \in {"idle", "spawned"} => prErr[call] = Nil
  /\ kind[call] = "PublishJSON" =>
       /\ IsError(prErr[call]) => \E i \in Slots :
            /\ sub[call][i] \in {"half", "local", "joined"} /\ IsError(result[call][i])
            /\ prErr[call].type = result[call][i].type
       /\ prErr[call].data # "nil" => \E i \in Slots :
            /\ sub[call][i] \in {"local", "joined"} /\ IsError(result[call][i])
            /\ prErr[call].data = result[call][i].data
       /\ \A i \in Slots :
            sub[call][i] \in {"local", "joined"} /\ IsError(result[call][i])
              => prErr[call].data # "nil"

Words == \A call \in Calls : WordsOf(call)

(* A step that touches one call only has to be looked at for that call.    *)
LEMMA WordsFocus ==
  ASSUME Words, NEW call \in Calls, OthersRest(call), WordsOf(call)'
  PROVE  Words'
  BY DEF Words, WordsOf, OthersRest

(* The steps of the client goroutines and of the call, as the words of the *)
(* call's error see them.                                                  *)
LEMMA WordsStep == Inv /\ Words /\ [Next]_vars => Words'
<1> SUFFICES ASSUME Inv, Words, [Next]_vars PROVE Words'
  OBVIOUS
<1>a. TypeOK /\ Places /\ Errors
  BY DEF Inv
<1>1. CASE UNCHANGED <<pc, kind, sub, result, prErr>>
  BY <1>1 DEF Words, WordsOf
<1>2. ASSUME NEW call \in Calls, NEW v \in BOOLEAN, Publish(call, v) \/ PublishJSON(call, v)
      PROVE  Words'
  <2>1. OthersRest(call)
    BY <1>a, <1>2 DEF Publish, PublishJSON, Called, TypeOK, OthersRest
  <2>2. /\ pc[call] = "idle" /\ UNCHANGED <<sub, result, prErr>>
        /\ kind'[call] \in {"Publish", "PublishJSON"}
    BY <1>a, <1>2 DEF Publish, PublishJSON, Called, TypeOK
  <2>3. \A i \in Slots : sub[call][i] = "none" /\ ~IsError(result[call][i])
    BY <1>a, <2>2, FreshCall
  <2>4. prErr[call] = Nil /\ \A i \in Slots : result[call][i].type = result[call][i].data
    BY <2>2 DEF Words, WordsOf
  <2>5. WordsOf(call)'
    BY <2>2, <2>3, <2>4 DEF WordsOf, IsError, Nil
  <2> QED
    BY <2>1, <2>5, WordsFocus
<1>3. ASSUME NEW call \in Calls, EnterLoop(call) PROVE Words'
  <2>1. OthersRest(call)
    BY <1>a, <1>3 DEF EnterLoop, TypeOK, OthersRest, callVars
  <2>2. pc'[call] = "fanout" /\ UNCHANGED <<kind, sub, result, prErr>>
    BY <1>a, <1>3 DEF EnterLoop, callVars, TypeOK
  <2>3. WordsOf(call)'
    BY <2>2 DEF Words, WordsOf
  <2> QED
    BY <2>1, <2>3, WordsFocus
<1>4. ASSUME NEW call \in Calls, Fork(call) PROVE Words'
  <2>1. OthersRest(call)
    BY <1>a, <1>4 DEF Fork, SetPhase, callVars, TypeOK, OthersRest
  <2>3. \A i \in Slots :
          /\ sub'[call][i] \in {sub[call][i], "running"}
          /\ sub[call][i] # "none" => sub'[call][i] = sub[call][i]
    <3>1. \A i \in Slots : i = started[call] + 1 => sub[call][i] = "none"
      BY <1>a DEF Places, PlaceOf, TypeOK, Slots
    <3> QED
      BY <1>a, <1>4, <3>1 DEF Fork, SetPhase, TypeOK
  <2>4. UNCHANGED <<pc, kind, result, prErr>>
    BY <1>4 DEF Fork, callVars
  <2>5. WordsOf(call)'
    BY <2>3, <2>4 DEF Words, WordsOf
  <2> QED
    BY <2>1, <2>5, WordsFocus
<1>5. ASSUME NEW call \in Calls, CloseReady(call) PROVE Words'
  <2>1. OthersRest(call)
    BY <1>a, <1>5 DEF CloseReady, callVars, TypeOK, OthersRest
  <2>2. pc'[call] = "ready" /\ UNCHANGED <<kind, sub, result>>
    BY <1>a, <1>5 DEF CloseReady, callVars, TypeOK
  <2>3. kind[call] = "PublishJSON" => prErr'[call] = prErr[call]
    <3>1. kind[call] = "PublishJSON" => ~IsError(egErr[call])
      BY <1>a DEF Errors, ErrorOf, ErrGroup
    <3> QED
      BY <1>5, <3>1 DEF CloseReady
  <2>4. WordsOf(call)'
    BY <2>2, <2>3 DEF Words, WordsOf
  <2> QED
    BY <2>1, <2>4, WordsFocus
<1>6. ASSUME NEW call \in Calls, NEW i \in Slots, ClientPublish(call, i) PROVE Words'
  <2>1. OthersRest(call)
    BY <1>a, <1>6 DEF ClientPublish, SetPhase, callVars, TypeOK, OthersRest
  <2>2. PICK e \in Outcomes(call, targets[call][i]) : result' = [result EXCEPT ![call][i] = e]
    BY <1>6 DEF ClientPublish
  <2>3. e.type = e.data
    BY DEF Outcomes, Nil, MarshalErr, ProviderErr
  <2>4. /\ \A j \in Slots : sub'[call][j] = IF j = i THEN "returned" ELSE sub[call][j]
        /\ \A j \in Slots : result'[call][j] = IF j = i THEN e ELSE result[call][j]
        /\ sub[call][i] = "running" /\ UNCHANGED <<pc, kind, prErr>>
    BY <1>a, <1>6, <2>2 DEF ClientPublish, SetPhase, TypeOK, callVars
  <2>5. WordsOf(call)'
    BY <2>3, <2>4 DEF Words, WordsOf
  <2> QED
    BY <2>1, <2>5, WordsFocus
<1>7. ASSUME NEW call \in Calls, NEW i \in Slots,
             Release(call, i) \/ GroupDone(call, i) \/ JSONRelease(call, i)
      PROVE  Words'
  <2>1. OthersRest(call)
    BY <1>a, <1>7 DEF Release, GroupDone, JSONRelease, NoteError, SetPhase, callVars, TypeOK,
       OthersRest
  <2>2. /\ UNCHANGED <<pc, kind, result, prErr>>
        /\ \E p \in {"released", "joined"} :
             \A j \in Slots : sub'[call][j] = IF j = i THEN p ELSE sub[call][j]
    BY <1>a, <1>7 DEF Release, GroupDone, JSONRelease, SetPhase, callVars, TypeOK
  <2>3. kind[call] = "Publish" \/ (sub[call][i] = "local" /\ sub'[call][i] = "joined")
    <3>1. CASE Release(call, i)
      BY <3>1 DEF Release
    <3>2. CASE GroupDone(call, i)
      BY <1>a, <3>2 DEF GroupDone, Places, PlaceOf
    <3>3. CASE JSONRelease(call, i)
      BY <1>a, <3>3 DEF JSONRelease, SetPhase, TypeOK
    <3> QED
      BY <1>7, <3>1, <3>2, <3>3
  <2>4. WordsOf(call)'
    BY <2>2, <2>3 DEF Words, WordsOf
  <2> QED
    BY <2>1, <2>4, WordsFocus
<1>8. ASSUME NEW call \in Calls, NEW i \in Slots, AssignErrType(call, i) PROVE Words'
  <2>1. OthersRest(call)
    BY <1>a, <1>8 DEF AssignErrType, SetPhase, callVars, TypeOK, OthersRest
  <2>2. /\ UNCHANGED <<pc, kind, result>>
        /\ sub[call][i] = "returned" /\ IsError(result[call][i])
        /\ \A j \in Slots : sub'[call][j] = IF j = i THEN "half" ELSE sub[call][j]
        /\ prErr'[call].type = result[call][i].type /\ prErr'[call].data = prErr[call].data
    BY <1>a, <1>8 DEF AssignErrType, SetPhase, callVars, TypeOK
  <2>3. pc[call] = "fanout"
    BY <1>a, <2>2, BusyCall
  <2>4. WordsOf(call)'
    BY <2>2, <2>3 DEF Words, WordsOf
  <2> QED
    BY <2>1, <2>4, WordsFocus
<1>9. ASSUME NEW call \in Calls, NEW i \in Slots, LocalDone(call, i) PROVE Words'
  <2>1. OthersRest(call)
    BY <1>a, <1>9 DEF LocalDone, SetPhase, callVars, TypeOK, OthersRest
  <2>2. /\ UNCHANGED <<pc, kind, result>>
        /\ sub[call][i] \in {"returned", "half"}
        /\ \A j \in Slots : sub'[call][j] = IF j = i THEN "local" ELSE sub[call][j]
    BY <1>a, <1>9 DEF LocalDone, SetPhase, callVars, TypeOK
  <2>3. pc[call] = "fanout"
    BY <1>a, <2>2, BusyCall
  <2>4. CASE sub[call][i] = "returned" /\ ~IsError(result[call][i]) /\ UNCHANGED prErr
    <3>1. WordsOf(call)'
      BY <2>2, <2>3, <2>4 DEF Words, WordsOf
    <3> QED
      BY <2>1, <3>1, WordsFocus
  <2>5. CASE /\ sub[call][i] = "half"
             /\ prErr' = [prErr EXCEPT ![call] = [type |-> @.type, data |-> result[call][i].data]]
    <3>1. /\ prErr'[call].type = prErr[call].type
          /\ prErr'[call].data = result[call][i].data
          /\ IsError(prErr'[call]) <=> IsError(prErr[call])
      BY <1>a, <2>5 DEF TypeOK, IsError
    <3>2. IsError(result[call][i]) /\ result[call][i].data # "nil"
      BY <2>5 DEF Words, WordsOf, IsError
    <3>3. WordsOf(call)'
      BY <2>2, <2>3, <2>5, <3>1, <3>2 DEF Words, WordsOf
    <3> QED
      BY <2>1, <3>3, WordsFocus
  <2> QED
    BY <1>9, <2>4, <2>5 DEF LocalDone
<1>10. \/ UNCHANGED <<pc, kind, sub, result, prErr>>
       \/ \E call \in Calls, v \in BOOLEAN : Publish(call, v) \/ PublishJSON(call, v)
       \/ \E call \in Calls : EnterLoop(call) \/ Fork(call) \/ CloseReady(call)
       \/ \E call \in Calls, i \in Slots : ClientGoroutine(call, i)
  BY DEF Next, Running, Application, CallGoroutine, vars, callVars, SetClient,
     AddPublisherClient, WaitForAllPublishing, WaitReturn, WaitPanic
<1> QED
  BY <1>1, <1>2, <1>3, <1>4, <1>5, <1>6, <1>7, <1>8, <1>9, <1>10 DEF ClientGoroutine

LEMMA WordsCorrect == Spec => []Words
<1>1. Init => Words
  BY DEF Init, Words, WordsOf, Nil, IsError
<1> QED
  BY <1>1, WordsStep, Invariance, PTL DEF Spec

(* The error of a call is its own clients', although all calls run at      *)
(* once: one client's with Publish; with PublishJSON it may be mixed, but  *)
(* only of the errors of two clients that both failed (publish.go:90).     *)
THEOREM PublishErrCorrect == Spec => []PublishErrIsOwn
<1>1. Inv /\ Words => PublishErrIsOwn
  <2> SUFFICES ASSUME Inv, Words, NEW call \in Calls, pc[call] = "ready",
                      IsError(prErr[call])
               PROVE  \E i, j \in 1..Len(targets[call]) :
                        /\ IsError(result[call][i]) /\ IsError(result[call][j])
                        /\ prErr[call] = [type |-> result[call][i].type,
                                          data |-> result[call][j].data]
                        /\ kind[call] = "Publish" => i = j
    BY DEF PublishErrIsOwn
  <2>a. prErr[call] \in Err /\ \A i \in Slots : result[call][i] \in Err
    BY DEF Inv, TypeOK
  <2>1. \A i \in Slots : IsError(result[call][i]) => i \in 1..Len(targets[call])
    BY ReadyTellsAll
  <2>2. \A e \in Err : e = [type |-> e.type, data |-> e.data]
    BY DEF Err
  <2>3. CASE kind[call] = "Publish"
    <3>1. PICK i \in 1..Len(targets[call]) : prErr[call] = result[call][i]
      BY <2>3, ReadyTellsAll
    <3> QED
      BY <2>a, <2>2, <3>1
  <2>4. CASE kind[call] = "PublishJSON"
    <3>1. PICK i \in Slots : IsError(result[call][i]) /\ prErr[call].type = result[call][i].type
      BY <2>4 DEF Words, WordsOf
    <3>2. prErr[call].data # "nil"
      <4>1. sub[call][i] \in {"local", "joined"}
        BY <2>1, <3>1, ReadyTellsAll
      <4> QED
        BY <2>4, <3>1, <4>1 DEF Words, WordsOf
    <3>3. PICK j \in Slots : IsError(result[call][j]) /\ prErr[call].data = result[call][j].data
      BY <2>4, <3>2 DEF Words, WordsOf
    <3>4. prErr[call] = [type |-> result[call][i].type, data |-> result[call][j].data]
      BY <2>a, <2>2, <3>1, <3>3
    <3>5. i \in 1..Len(targets[call]) /\ j \in 1..Len(targets[call])
      BY <2>1, <3>1, <3>3
    <3> QED
      BY <2>4, <3>1, <3>3, <3>4, <3>5
  <2> QED
    BY <2>3, <2>4 DEF Inv, TypeOK
<1> QED
  BY <1>1, WordsCorrect, Invariance, PTL

Final(call) == pc[call] = "ready" => pc'[call] = "ready" /\ prErr'[call] = prErr[call]

(* No step changes the place or the error of a call that is ready.         *)
LEMMA FinalStep == Inv /\ [Next]_vars => \A c \in Calls : Final(c)
<1> SUFFICES ASSUME Inv, [Next]_vars PROVE \A c \in Calls : Final(c)
  OBVIOUS
<1> USE DEF Inv
<1>0. pc' = pc /\ prErr' = prErr => \A c \in Calls : Final(c)
  BY DEF Final
<1>1. CASE UNCHANGED vars
  BY <1>1, <1>0 DEF vars
<1>2. ASSUME NEW d \in Clients, SetClient(d) PROVE \A c \in Calls : Final(c)
  BY <1>2, <1>0 DEF SetClient
<1>3. ASSUME NEW d \in Clients, AddPublisherClient(d) PROVE \A c \in Calls : Final(c)
  BY <1>3, <1>0 DEF AddPublisherClient
<1>4. ASSUME NEW call \in Calls, NEW v \in BOOLEAN, Publish(call, v) PROVE \A c \in Calls : Final(c)
  BY <1>4 DEF Publish, Called, Final, TypeOK
<1>5. ASSUME NEW call \in Calls, NEW v \in BOOLEAN, PublishJSON(call, v) PROVE \A c \in Calls : Final(c)
  BY <1>5 DEF PublishJSON, Called, Final, TypeOK
<1>6. ASSUME NEW w \in Waiters, WaitForAllPublishing(w) PROVE \A c \in Calls : Final(c)
  BY <1>6, <1>0 DEF WaitForAllPublishing
<1>7. ASSUME NEW call \in Calls, EnterLoop(call) PROVE \A c \in Calls : Final(c)
  BY <1>7 DEF EnterLoop, Final, TypeOK
<1>8. ASSUME NEW call \in Calls, Fork(call) PROVE \A c \in Calls : Final(c)
  BY <1>8, <1>0 DEF Fork
<1>9. ASSUME NEW call \in Calls, CloseReady(call) PROVE \A c \in Calls : Final(c)
  BY <1>9 DEF CloseReady, Final, TypeOK
<1>10. ASSUME NEW call \in Calls, NEW i \in Slots, ClientPublish(call, i) PROVE \A c \in Calls : Final(c)
  BY <1>10, <1>0 DEF ClientPublish
<1>11. ASSUME NEW call \in Calls, NEW i \in Slots, Release(call, i) PROVE \A c \in Calls : Final(c)
  BY <1>11, <1>0 DEF Release
<1>12. ASSUME NEW call \in Calls, NEW i \in Slots, GroupDone(call, i) PROVE \A c \in Calls : Final(c)
  BY <1>12, <1>0 DEF GroupDone
<1>13. ASSUME NEW call \in Calls, NEW i \in Slots, AssignErrType(call, i) PROVE \A c \in Calls : Final(c)
  BY <1>13, BusyCall DEF AssignErrType, Final, callVars, TypeOK
<1>14. ASSUME NEW call \in Calls, NEW i \in Slots, LocalDone(call, i) PROVE \A c \in Calls : Final(c)
  BY <1>14, BusyCall DEF LocalDone, Final, callVars, TypeOK
<1>15. ASSUME NEW call \in Calls, NEW i \in Slots, JSONRelease(call, i) PROVE \A c \in Calls : Final(c)
  BY <1>15, <1>0 DEF JSONRelease
<1>16. ASSUME NEW w \in Waiters, WaitReturn(w) PROVE \A c \in Calls : Final(c)
  BY <1>16, <1>0 DEF WaitReturn
<1>17. ASSUME NEW w \in Waiters, WaitPanic(w) PROVE \A c \in Calls : Final(c)
  BY <1>17, <1>0 DEF WaitPanic
<1> QED
  BY <1>1, <1>2, <1>3, <1>4, <1>5, <1>6, <1>7, <1>8, <1>9, <1>10, <1>11, <1>12,
     <1>13, <1>14, <1>15, <1>16, <1>17
     DEF Next, Running, Application, CallGoroutine, ClientGoroutine

(* Nothing writes the error of a call once its Ready is closed.            *)
THEOREM ReadyCorrect == Spec => ReadyIsFinal
<1>1. Inv /\ [Next]_vars =>
        [\A call \in Calls : pc[call] = "ready" =>
            pc'[call] = "ready" /\ prErr'[call] = prErr[call]]_vars
  BY FinalStep DEF Final
<1> QED
  BY <1>1, Invariance, PTL DEF Spec, ReadyIsFinal

-----------------------------------------------------------------------------
(* Publisher implements PublishPromise.                                    *)

(* A step that leaves the other calls alone as PublishPromise sees them.   *)
OthersSeenSame(call) ==
  \A c \in Calls : c # call =>
    /\ pc'[c] = pc[c] /\ targets'[c] = targets[c] /\ sub'[c] = sub[c]
    /\ result'[c] = result[c] /\ prErr'[c] = prErr[c]

LEMMA OthersSeen ==
  ASSUME NEW call \in Calls, OthersSeenSame(call), NEW c \in Calls, c # call
  PROVE  /\ StatusOf(c)' = StatusOf(c)
         /\ Untried(c)' = Untried(c)
         /\ Failed(c)' = Failed(c)
         /\ AnswerOf(c)' = AnswerOf(c)
<1>1. /\ pc'[c] = pc[c] /\ targets'[c] = targets[c] /\ sub'[c] = sub[c]
      /\ result'[c] = result[c] /\ prErr'[c] = prErr[c]
  BY DEF OthersSeenSame
<1>2. Failed(c)' = Failed(c)
  BY <1>1 DEF Failed
<1> QED
  BY <1>1, <1>2 DEF StatusOf, Untried, AnswerOf

LEMMA UntriedFinite ==
  ASSUME TypeOK, NEW call \in Calls
  PROVE  IsFiniteSet(Untried(call)) /\ Cardinality(Untried(call)) \in Nat
<1>1. Len(targets[call]) \in Int
  BY DEF TypeOK
<1>2. IsFiniteSet(1..Len(targets[call]))
  BY <1>1, FS_Interval
<1> QED
  BY <1>2, FS_Subset, FS_CardinalityType DEF Untried

(* A step of one call that changes nothing its caller could see.           *)
LEMMA StuttersFor ==
  ASSUME NEW call \in Calls, OthersSeenSame(call),
         StatusOf(call)' = StatusOf(call), Untried(call)' = Untried(call),
         Failed(call)' = Failed(call), AnswerOf(call)' = AnswerOf(call)
  PROVE  UNCHANGED Promise!vars
<1>1. \A c \in Calls : /\ StatusOf(c)' = StatusOf(c) /\ Untried(c)' = Untried(c)
                       /\ Failed(c)' = Failed(c) /\ AnswerOf(c)' = AnswerOf(c)
  BY OthersSeen
<1> QED
  BY <1>1 DEF Promise!vars

(* Between "none" and "running", and among the places after the client's   *)
(* answer, a goroutine moves unseen.                                       *)
LEMMA MovesUnseen ==
  ASSUME TypeOK, NEW call \in Calls, NEW i \in Slots, NEW p, SetPhase(call, i, p),
         (p \in {"none", "running"}) <=> (sub[call][i] \in {"none", "running"}),
         UNCHANGED <<targets, result>>, \A c \in Calls : pc'[c] = pc[c],
         \A c \in Calls : pc[c] = "ready" => prErr'[c] = prErr[c]
  PROVE  UNCHANGED Promise!vars
<1>1. \A c \in Calls, j \in Slots :
        (sub'[c][j] \in {"none", "running"}) <=> (sub[c][j] \in {"none", "running"})
  BY DEF SetPhase, TypeOK
<1>2. \A c \in Calls : \A j \in 1..Len(targets[c]) : j \in Slots
  BY FanoutAssumption DEF TypeOK, Slots
<1>3. \A c \in Calls : Untried(c)' = Untried(c)
  BY <1>1, <1>2 DEF Untried
<1>4. \A c \in Calls : Failed(c)' = Failed(c)
  BY DEF Failed
<1>5. \A c \in Calls : StatusOf(c)' = StatusOf(c) /\ AnswerOf(c)' = AnswerOf(c)
  BY DEF StatusOf, AnswerOf
<1> QED
  BY <1>3, <1>4, <1>5 DEF Promise!vars

(* The goroutine of a call chooses its clients: none is tried yet.         *)
LEMMA Starts ==
  ASSUME TypeOK, Places, Errors, NEW call \in Calls, pc[call] \in {"idle", "spawned"},
         pc' = [pc EXCEPT ![call] = "fanout"], targets' = [targets EXCEPT ![call] = clients],
         UNCHANGED <<sub, result, prErr>>
  PROVE  \E n \in 1..MaxFanout : Promise!Start(call, n)
<1>1. OthersSeenSame(call)
  BY DEF OthersSeenSame, TypeOK
<1>2. \A i \in Slots : sub[call][i] = "none" /\ ~IsError(result[call][i])
  BY FreshCall
<1>3. Len(clients) \in 1..MaxFanout /\ targets'[call] = clients
  BY DEF TypeOK, Slots
<1>4. Untried(call)' = 1..Len(clients)
  BY <1>2, <1>3, FanoutAssumption DEF Untried, Slots
<1>5. Cardinality(1..Len(clients)) = Len(clients)
  BY <1>3, FanoutAssumption, FS_Interval
<1>6. StatusOf(call) \in {"idle", "asked"} /\ StatusOf(call)' = "trying"
  BY DEF StatusOf, TypeOK
<1>7. Failed(call)' = Failed(call) /\ AnswerOf(call)' = AnswerOf(call)
  BY DEF Failed, AnswerOf, TypeOK
<1>8. \A c \in Calls : /\ StatusOf(c)' = IF c = call THEN "trying" ELSE StatusOf(c)
                       /\ Failed(c)' = Failed(c) /\ AnswerOf(c)' = AnswerOf(c)
                       /\ c # call => Untried(c)' = Untried(c)
  BY <1>1, <1>6, <1>7, OthersSeen
<1>9. \A c \in Calls : Cardinality(Untried(c)') =
        IF c = call THEN Len(clients) ELSE Cardinality(Untried(c))
  BY <1>4, <1>5, <1>8
<1>10. Promise!Start(call, Len(clients))
  BY <1>3, <1>6, <1>8, <1>9 DEF Promise!Start
<1> QED
  BY <1>3, <1>10

(* Client.Publish returns: one client less to try.                         *)
LEMMA Tries ==
  ASSUME TypeOK, Places, Errors, NEW call \in Calls, NEW i \in Slots, ClientPublish(call, i)
  PROVE  \E ok \in BOOLEAN : Promise!Try(call, ok)
<1>1. PICK e \in Outcomes(call, targets[call][i]) : result' = [result EXCEPT ![call][i] = e]
  BY DEF ClientPublish
<1>2. /\ sub[call][i] = "running" /\ sub' = [sub EXCEPT ![call][i] = "returned"]
      /\ UNCHANGED <<pc, targets, prErr>>
  BY DEF ClientPublish, SetPhase
<1>3. OthersSeenSame(call)
  BY <1>1, <1>2 DEF OthersSeenSame, TypeOK
<1>4. i \in 1..Len(targets[call])
  BY <1>2 DEF Places, PlaceOf, TypeOK, Slots
<1>5. i \in Untried(call) /\ Untried(call)' = Untried(call) \ {i}
  <2>1. \A j \in 1..Len(targets[call]) : j \in Slots
    BY FanoutAssumption DEF TypeOK, Slots
  <2>2. \A j \in Slots : sub'[call][j] = IF j = i THEN "returned" ELSE sub[call][j]
    BY <1>2 DEF TypeOK
  <2> QED
    BY <1>2, <1>4, <2>1, <2>2 DEF Untried
<1>6. Cardinality(Untried(call)') = Cardinality(Untried(call)) - 1
      /\ Cardinality(Untried(call)) > 0
  <2>1. IsFiniteSet(Untried(call)) /\ Cardinality(Untried(call)) \in Nat
    BY UntriedFinite
  <2>2. Cardinality(Untried(call) \ {i}) = Cardinality(Untried(call)) - 1
    BY <1>5, <2>1, FS_RemoveElement
  <2>3. Cardinality(Untried(call)) # 0
    BY <1>5, <2>1, FS_EmptySet
  <2> QED
    BY <1>5, <2>1, <2>2, <2>3
<1>7. Failed(call)' <=> Failed(call) \/ IsError(e)
  <2>1. ~IsError(result[call][i])
    BY <1>2 DEF Errors, ErrorOf, ErrEarly
  <2>2. \A j \in Slots : result'[call][j] = IF j = i THEN e ELSE result[call][j]
    BY <1>1 DEF TypeOK
  <2> QED
    BY <2>1, <2>2 DEF Failed
<1>8. StatusOf(call)' = StatusOf(call) /\ AnswerOf(call)' = AnswerOf(call)
  BY <1>2 DEF StatusOf, AnswerOf
<1>9. PICK ok \in BOOLEAN : ok <=> ~IsError(e)
  OBVIOUS
<1>10. \A c \in Calls : /\ StatusOf(c)' = StatusOf(c) /\ AnswerOf(c)' = AnswerOf(c)
                        /\ Cardinality(Untried(c)') =
                             IF c = call THEN Cardinality(Untried(c)) - 1
                             ELSE Cardinality(Untried(c))
                        /\ c # call => Failed(c)' = Failed(c)
  BY <1>3, <1>6, <1>8, OthersSeen
<1>11. Failed(call)' = (Failed(call) \/ ~ok)
  BY <1>7, <1>9 DEF Failed
<1>12. Promise!Try(call, ok)
  <2> DEFINE left   == [c \in Calls |-> Cardinality(Untried(c))]
             failed == [c \in Calls |-> Failed(c)]
  <2>1. left' = [left EXCEPT ![call] = @ - 1] /\ left[call] > 0
    BY <1>6, <1>10
  <2>2. failed' = [failed EXCEPT ![call] = @ \/ ~ok]
    BY <1>10, <1>11
  <2>3. \A c \in Calls : StatusOf(c)' = StatusOf(c) /\ AnswerOf(c)' = AnswerOf(c)
    BY <1>10
  <2> QED
    BY <2>1, <2>2, <2>3 DEF Promise!Try
<1> QED
  BY <1>12

(* Ready is closed: all were tried, and the answer is theirs.              *)
LEMMA AnswersRight ==
  ASSUME TypeOK, Places, Errors, NEW call \in Calls, CloseReady(call)
  PROVE  IsError(prErr'[call]) <=> Failed(call)
<1>1. /\ pc[call] = "fanout" /\ AllJoined(call) /\ started[call] = Len(targets[call])
      /\ prErr'[call] = IF IsError(egErr[call]) THEN egErr[call] ELSE prErr[call]
  BY DEF CloseReady, AllJoined, TypeOK
<1>2. ErrEarly(call) /\ ErrGroup(call) /\ ErrPublish(call) /\ ErrJSON(call)
  BY DEF Errors, ErrorOf
<1>3. \A i \in Slots : IsError(result[call][i]) => Joined(call, i)
  <2> SUFFICES ASSUME NEW i \in Slots, IsError(result[call][i]) PROVE Joined(call, i)
    OBVIOUS
  <2>1. i <= started[call]
    BY <1>2 DEF ErrEarly, Places, PlaceOf
  <2>2. i \in 1..Len(targets[call])
    BY <1>1, <2>1 DEF Slots, TypeOK
  <2> QED
    BY <1>1, <2>2 DEF AllJoined
<1>4. CASE kind[call] = "Publish"
  <2>1. ~IsError(prErr[call])
    BY <1>1, <1>2, <1>4 DEF ErrPublish
  <2>2. IsError(egErr[call]) => Failed(call)
    BY <1>2 DEF ErrGroup, Failed
  <2>3. Failed(call) => IsError(egErr[call])
    BY <1>2, <1>3, <1>4 DEF ErrGroup, Failed, Joined
  <2> QED
    BY <1>1, <2>1, <2>2, <2>3
<1>5. CASE kind[call] = "PublishJSON"
  <2>1. ~IsError(egErr[call])
    BY <1>2, <1>5 DEF ErrGroup
  <2>2. IsError(prErr[call]) => Failed(call)
    BY <1>2, <1>5 DEF ErrJSON, Failed
  <2>3. Failed(call) => IsError(prErr[call])
    BY <1>2, <1>3, <1>5 DEF ErrJSON, Failed, Joined
  <2> QED
    BY <1>1, <2>1, <2>2, <2>3
<1> QED
  BY <1>4, <1>5 DEF TypeOK

LEMMA Answers ==
  ASSUME TypeOK, Places, Errors, NEW call \in Calls, CloseReady(call)
  PROVE  Promise!Answer(call)
<1>1. /\ pc[call] = "fanout" /\ pc' = [pc EXCEPT ![call] = "ready"] /\ AllJoined(call)
      /\ UNCHANGED <<targets, sub, result>>
      /\ \A c \in Calls : c # call => prErr'[c] = prErr[c]
  BY DEF CloseReady, TypeOK
<1>2. OthersSeenSame(call) /\ pc'[call] = "ready"
  BY <1>1 DEF OthersSeenSame, TypeOK
<1>3. Untried(call) = {} /\ Untried(call)' = Untried(call)
  BY <1>1 DEF AllJoined, Joined, Untried
<1>4. Cardinality(Untried(call)) = 0
  BY <1>3, FS_EmptySet
<1>5. Failed(call)' = Failed(call)
  BY <1>1 DEF Failed
<1>6. AnswerOf(call)' = IF Failed(call) THEN "error" ELSE "ok"
  BY <1>2, AnswersRight DEF AnswerOf
<1>7. StatusOf(call) = "trying" /\ StatusOf(call)' = "answered"
  BY <1>1, <1>2 DEF StatusOf
<1>8. \A c \in Calls : /\ StatusOf(c)' = IF c = call THEN "answered" ELSE StatusOf(c)
                       /\ AnswerOf(c)' = IF c = call THEN (IF Failed(c) THEN "error" ELSE "ok")
                                         ELSE AnswerOf(c)
                       /\ Untried(c)' = Untried(c) /\ Failed(c)' = Failed(c)
  BY <1>2, <1>3, <1>5, <1>6, <1>7, OthersSeen
<1> QED
  BY <1>4, <1>7, <1>8 DEF Promise!Answer

(* Publish returns before its goroutine has done anything.                 *)
LEMMA Asks ==
  ASSUME TypeOK, NEW call \in Calls, pc[call] = "idle", pc' = [pc EXCEPT ![call] = "spawned"],
         UNCHANGED <<targets, sub, result, prErr>>
  PROVE  Promise!Ask(call)
<1>1. OthersSeenSame(call) /\ pc'[call] = "spawned"
  BY DEF OthersSeenSame, TypeOK
<1>2. /\ StatusOf(call) = "idle" /\ StatusOf(call)' = "asked"
      /\ AnswerOf(call)' = AnswerOf(call) /\ Untried(call)' = Untried(call)
      /\ Failed(call)' = Failed(call)
  BY <1>1 DEF StatusOf, AnswerOf, Untried, Failed
<1>3. \A c \in Calls : /\ StatusOf(c)' = IF c = call THEN "asked" ELSE StatusOf(c)
                       /\ AnswerOf(c)' = AnswerOf(c) /\ Untried(c)' = Untried(c)
                       /\ Failed(c)' = Failed(c)
  BY <1>1, <1>2, OthersSeen
<1> QED
  BY <1>2, <1>3 DEF Promise!Ask

LEMMA PromiseStep == Inv /\ [Next]_vars => [Promise!Next]_(Promise!vars)
<1> SUFFICES ASSUME Inv, [Next]_vars PROVE [Promise!Next]_(Promise!vars)
  OBVIOUS
<1> USE DEF Inv, callVars
<1>1. CASE UNCHANGED <<pc, targets, sub, result, prErr>>
  BY <1>1 DEF Promise!vars, StatusOf, Untried, Failed, AnswerOf
<1>2. ASSUME NEW call \in Calls, NEW v \in BOOLEAN, Publish(call, v)
      PROVE  [Promise!Next]_(Promise!vars)
  <2>1. Promise!Ask(call)
    BY <1>2, Asks DEF Publish, Called
  <2> QED
    BY <2>1 DEF Promise!Next
<1>3. ASSUME NEW call \in Calls, NEW v \in BOOLEAN, PublishJSON(call, v) \/ EnterLoop(call)
      PROVE  [Promise!Next]_(Promise!vars)
  <2>1. \E n \in 1..MaxFanout : Promise!Start(call, n)
    BY <1>3, Starts DEF PublishJSON, Called, EnterLoop
  <2> QED
    BY <2>1 DEF Promise!Next
<1>4. ASSUME NEW call \in Calls, Fork(call) PROVE [Promise!Next]_(Promise!vars)
  <2>1. started[call] + 1 \in Slots /\ ~(started[call] + 1 <= started[call])
    BY <1>4, FanoutAssumption DEF Fork, TypeOK, Slots
  <2>3. sub[call][started[call] + 1] = "none"
    BY <2>1 DEF Places, PlaceOf
  <2>2. SetPhase(call, started[call] + 1, "running") /\ UNCHANGED <<targets, result, pc, prErr>>
    BY <1>4 DEF Fork
  <2> QED
    BY <2>1, <2>2, <2>3, MovesUnseen
<1>5. ASSUME NEW call \in Calls, NEW i \in Slots, ClientPublish(call, i)
      PROVE  [Promise!Next]_(Promise!vars)
  <2>1. \E ok \in BOOLEAN : Promise!Try(call, ok)
    BY <1>5, Tries
  <2> QED
    BY <2>1 DEF Promise!Next
<1>6. ASSUME NEW call \in Calls, NEW i \in Slots,
             Release(call, i) \/ GroupDone(call, i) \/ JSONRelease(call, i)
      PROVE  [Promise!Next]_(Promise!vars)
  <2>1. PICK p \in {"released", "joined"} : SetPhase(call, i, p)
    BY <1>6 DEF Release, GroupDone, JSONRelease
  <2>2. sub[call][i] \notin {"none", "running"} /\ UNCHANGED <<targets, result, pc, prErr>>
    BY <1>6 DEF Release, GroupDone, JSONRelease
  <2> QED
    BY <2>1, <2>2, MovesUnseen
<1>7. ASSUME NEW call \in Calls, NEW i \in Slots, AssignErrType(call, i) \/ LocalDone(call, i)
      PROVE  [Promise!Next]_(Promise!vars)
  <2>1. PICK p \in {"half", "local"} : SetPhase(call, i, p)
    BY <1>7 DEF AssignErrType, LocalDone
  <2>2. sub[call][i] \in {"returned", "half"} /\ UNCHANGED <<targets, result, pc>>
    BY <1>7 DEF AssignErrType, LocalDone
  <2>3. pc[call] = "fanout"
    BY <2>2, BusyCall
  <2>4. \A c \in Calls : pc[c] = "ready" => prErr'[c] = prErr[c]
    BY <1>7, <2>3 DEF AssignErrType, LocalDone, TypeOK
  <2> QED
    BY <2>1, <2>2, <2>4, MovesUnseen
<1>8. ASSUME NEW call \in Calls, CloseReady(call) PROVE [Promise!Next]_(Promise!vars)
  <2>1. Promise!Answer(call)
    BY <1>8, Answers
  <2> QED
    BY <2>1 DEF Promise!Next
<1>9. \/ UNCHANGED <<pc, targets, sub, result, prErr>>
      \/ \E call \in Calls, v \in BOOLEAN : Publish(call, v) \/ PublishJSON(call, v)
      \/ \E call \in Calls : EnterLoop(call) \/ Fork(call) \/ CloseReady(call)
      \/ \E call \in Calls, i \in Slots : ClientGoroutine(call, i)
  BY DEF Next, Running, Application, CallGoroutine, vars, SetClient, AddPublisherClient,
     WaitForAllPublishing, WaitReturn, WaitPanic
<1> QED
  BY <1>1, <1>2, <1>3, <1>4, <1>5, <1>6, <1>7, <1>8, <1>9 DEF ClientGoroutine

(* Each call is answered once, after every client it went over was tried,  *)
(* with an error exactly when one of them failed (publish.go:42-98), for   *)
(* any calls and clients at once.                                          *)
THEOREM KeepsPromiseHolds == Spec => KeepsPromise
<1>1. Init => Promise!Init
  <2> SUFFICES ASSUME Init PROVE Promise!Init
    OBVIOUS
  <2>1. \A c \in Calls : StatusOf(c) = "idle" /\ AnswerOf(c) = "none"
    BY DEF Init, StatusOf, AnswerOf
  <2>2. \A c \in Calls : Untried(c) = {} /\ Failed(c) = FALSE
    BY DEF Init, Untried, Failed, IsError, Nil
  <2>3. \A c \in Calls : Cardinality(Untried(c)) = 0
    BY <2>2, FS_EmptySet
  <2> QED
    BY <2>1, <2>2, <2>3 DEF Promise!Init
<1> QED
  BY <1>1, PromiseStep, Invariance, PTL DEF Spec, KeepsPromise, Promise!Spec
=============================================================================
