----------------------------- MODULE Publisher -----------------------------
(***************************************************************************)
(* Publishing in package pubsub (publish.go, pubsub.go): Publish and       *)
(* PublishJSON fan a message out to every registered client, each client   *)
(* in a goroutine of its own; a PublishResult becomes ready when all of    *)
(* them are through; WaitForAllPublishing waits on the package's one       *)
(* sync.WaitGroup.                                                         *)
(*                                                                         *)
(* Publish returns at once and does everything in a goroutine; PublishJSON *)
(* runs in the caller's goroutine.  They also differ in how the error is   *)
(* collected: an errgroup keeps the first error, PublishJSON lets every    *)
(* failing goroutine assign pr.Err without synchronisation.  An error is   *)
(* an interface value, two machine words (dynamic type, data pointer), so  *)
(* it is modelled as a pair and the unsynchronised assignment as two       *)
(* writes.                                                                 *)
(*                                                                         *)
(* The WaitGroup is Go's (go.mod asks for toolchain 1.24): Done at zero    *)
(* wakes the waiters, and a waiter that finds the counter in use again     *)
(* when it comes to run panics, which ends the process.                    *)
(*                                                                         *)
(* A name with an underscore (WgDone_Twice) is the definition before the   *)
(* underscore with a bug put in; nothing refers to it.                     *)
(***************************************************************************)
EXTENDS Integers, Sequences, FiniteSets

CONSTANTS
  Clients,     \* the *Client values an application registers
  NoopClient,  \* the client whose provider is NoopProvider, the default
  Calls,       \* calls of Publish and PublishJSON
  Waiters,     \* calls of WaitForAllPublishing
  MaxFanout    \* bound on the number of registered clients

ASSUME ClientsAssumption == NoopClient \in Clients /\ "nil" \notin Clients
ASSUME CallsAssumption   == IsFiniteSet(Calls)
ASSUME FanoutAssumption  == MaxFanout \in Nat \ {0}

VARIABLES
  clients,   \* the package variable clients
  pc,        \* where each call is
  kind,      \* which of the two functions was called
  valid,     \* whether the message of the call marshals
  targets,   \* the clients the call's range statement goes over
  started,   \* how many client goroutines the call has started
  sub,       \* where each client goroutine is
  result,    \* what Client.Publish returned in each client goroutine
  egErr,     \* the error the call's errgroup.Group holds
  prErr,     \* PublishResult.Err
  wg,        \* the counter of publishWaitGroup
  waiter,    \* where each WaitForAllPublishing is
  covered,   \* history: goroutines counted when the wait began
  owed,      \* history: calls made, and not ready, when the wait began
  crashed    \* a panic has ended the process

callVars == <<kind, valid>>
vars == <<clients, pc, callVars, targets, started, sub, result, egErr, prErr,
          wg, waiter, covered, owed, crashed>>

-----------------------------------------------------------------------------
(* Errors as interface values. *)

ErrWord == Clients \cup {"nil", "marshal"}
Err     == [type : ErrWord, data : ErrWord]
Nil     == [type |-> "nil", data |-> "nil"]
MarshalErr     == [type |-> "marshal", data |-> "marshal"]
ProviderErr(c) == [type |-> c, data |-> c]  \* a provider has its own errors
IsError(e)     == e.type # "nil"            \* what Go's err != nil looks at

(* What Client.Publish may return for client c: the message is marshalled  *)
(* first, then handed to the provider, which may fail unless it is Noop.   *)
Outcomes(call, c) ==
  IF ~valid[call] THEN {MarshalErr}
  ELSE IF c = NoopClient THEN {Nil}
  ELSE {Nil, ProviderErr(c)}

-----------------------------------------------------------------------------
(* Client goroutines.  "running": inside Client.Publish.  "returned": it   *)
(* returned.  Publish then goes "released" (publishWaitGroup.Done, the     *)
(* deferred call of the function given to the errgroup) and "joined" (the  *)
(* errgroup noted the error).  PublishJSON goes "half" (first word of      *)
(* pr.Err written), "local" (its own WaitGroup's Done) and "joined"        *)
(* (publishWaitGroup.Done, deferred first and so run last).                *)

Phases   == {"none", "running", "returned", "half", "local", "released", "joined"}
Slots    == 1..MaxFanout
Counted  == {"running", "returned", "half", "local"}
Held     == {s \in Calls \X Slots : sub[s[1]][s[2]] \in Counted}

Joined_BeforeAssign(call, i) ==
  \/ sub[call][i] = "joined"
  \/ kind[call] = "PublishJSON" /\ sub[call][i] \in {"returned", "half", "local"}

(* What eg.Wait and wg.Wait wait for. *)
Joined(call, i) ==
  \/ sub[call][i] = "joined"
  \/ kind[call] = "PublishJSON" /\ sub[call][i] = "local"

SetPhase(call, i, p) == sub' = [sub EXCEPT ![call][i] = p]

-----------------------------------------------------------------------------
(* sync.WaitGroup: Add and Done. *)

WgAdd_Dropped == UNCHANGED wg

WgAdd == wg' = wg + 1

WgDone_Twice ==
  /\ wg' = wg - 2
  /\ waiter' = [w \in Waiters |->
       IF wg = 1 /\ waiter[w] = "parked" THEN "woken" ELSE waiter[w]]

WgDone_NeverWakes ==
  /\ wg' = wg - 1
  /\ UNCHANGED waiter

(* Waking the waiters is part of the Done that reaches zero; until they    *)
(* run they are "woken".                                                   *)
WgDone ==
  /\ wg' = wg - 1
  /\ waiter' = [w \in Waiters |->
       IF wg = 1 /\ waiter[w] = "parked" THEN "woken" ELSE waiter[w]]

-----------------------------------------------------------------------------
(* The registered clients.  clients is a plain slice: AddPublisherClient   *)
(* is modelled while no goroutine of Publish is about to read it, and      *)
(* SetClient besides when the slice it replaces has one element too, so    *)
(* that no reader can see the words of two slice headers mixed.  No client *)
(* is registered twice.                                                    *)

ReadPending == \E call \in Calls : pc[call] = "spawned"

SetClient(c) ==
  /\ ReadPending => Len(clients) = 1
  /\ clients' = <<c>>
  /\ UNCHANGED <<pc, callVars, targets, started, sub, result, egErr, prErr,
                 wg, waiter, covered, owed>>

AddPublisherClient(c) ==
  /\ ~ReadPending
  /\ Len(clients) < MaxFanout
  /\ \A i \in 1..Len(clients) : clients[i] # c
  /\ clients' = Append(clients, c)
  /\ UNCHANGED <<pc, callVars, targets, started, sub, result, egErr, prErr,
                 wg, waiter, covered, owed>>

-----------------------------------------------------------------------------
(* A call. *)

Called(call, k, v) ==
  /\ pc[call] = "idle"
  /\ kind'  = [kind EXCEPT ![call] = k]
  /\ valid' = [valid EXCEPT ![call] = v]

(* Publish starts a goroutine and returns. *)
Publish(call, v) ==
  /\ Called(call, "Publish", v)
  /\ pc' = [pc EXCEPT ![call] = "spawned"]
  /\ UNCHANGED <<clients, targets, started, sub, result, egErr, prErr,
                 wg, waiter, covered, owed>>

(* The goroutine of Publish runs and evaluates range clients. *)
EnterLoop(call) ==
  /\ pc[call] = "spawned"
  /\ pc' = [pc EXCEPT ![call] = "fanout"]
  /\ targets' = [targets EXCEPT ![call] = clients]
  /\ UNCHANGED <<clients, callVars, started, sub, result, egErr, prErr,
                 wg, waiter, covered, owed>>

(* PublishJSON reaches its loop within the call. *)
PublishJSON(call, v) ==
  /\ Called(call, "PublishJSON", v)
  /\ pc' = [pc EXCEPT ![call] = "fanout"]
  /\ targets' = [targets EXCEPT ![call] = clients]
  /\ UNCHANGED <<clients, started, sub, result, egErr, prErr,
                 wg, waiter, covered, owed>>

(* One iteration: publishWaitGroup.Add(1), then a goroutine is started. *)
Fork(call) ==
  /\ pc[call] = "fanout"
  /\ started[call] < Len(targets[call])
  /\ started' = [started EXCEPT ![call] = @ + 1]
  /\ SetPhase(call, started[call] + 1, "running")
  /\ WgAdd
  /\ UNCHANGED <<clients, pc, callVars, targets, result, egErr, prErr,
                 waiter, covered, owed>>

(* Client.Publish returns. *)
ClientPublish(call, i) ==
  /\ sub[call][i] = "running"
  /\ \E e \in Outcomes(call, targets[call][i]) :
       result' = [result EXCEPT ![call][i] = e]
  /\ SetPhase(call, i, "returned")
  /\ UNCHANGED <<clients, pc, callVars, targets, started, egErr, prErr,
                 wg, waiter, covered, owed>>

(* Publish: the deferred publishWaitGroup.Done. *)
Release(call, i) ==
  /\ kind[call] = "Publish"
  /\ sub[call][i] = "returned"
  /\ SetPhase(call, i, "released")
  /\ WgDone
  /\ UNCHANGED <<clients, pc, callVars, targets, started, result, egErr, prErr,
                 covered, owed>>

NoteError_SharedGroup(call, i) ==
  egErr' = IF IsError(result[call][i])
           THEN [c \in Calls |-> IF IsError(egErr[c]) THEN egErr[c] ELSE result[call][i]]
           ELSE egErr

(* Publish: errgroup.Group keeps the first error it is given. *)
NoteError(call, i) ==
  egErr' = IF IsError(result[call][i]) /\ ~IsError(egErr[call])
           THEN [egErr EXCEPT ![call] = result[call][i]]
           ELSE egErr

GroupDone(call, i) ==
  /\ sub[call][i] = "released"
  /\ NoteError(call, i)
  /\ SetPhase(call, i, "joined")
  /\ UNCHANGED <<clients, pc, callVars, targets, started, result, prErr,
                 wg, waiter, covered, owed>>

(* PublishJSON: pr.Err = err, the first word (the dynamic type).           *)
AssignErrType(call, i) ==
  /\ kind[call] = "PublishJSON"
  /\ sub[call][i] = "returned"
  /\ IsError(result[call][i])
  /\ prErr' = [prErr EXCEPT ![call] = [type |-> result[call][i].type, data |-> @.data]]
  /\ SetPhase(call, i, "half")
  /\ UNCHANGED <<clients, pc, callVars, targets, started, result, egErr,
                 wg, waiter, covered, owed>>

LocalDone_OnSuccessOnly(call, i) ==
  /\ kind[call] = "PublishJSON"
  /\ sub[call][i] = "returned"
  /\ ~IsError(result[call][i])
  /\ SetPhase(call, i, "local")
  /\ UNCHANGED <<prErr, clients, pc, callVars, targets, started, result, egErr,
                 wg, waiter, covered, owed>>

(* PublishJSON: the second word, if there is an error, then wg.Done. *)
LocalDone(call, i) ==
  /\ kind[call] = "PublishJSON"
  /\ \/ /\ sub[call][i] = "half"
        /\ prErr' = [prErr EXCEPT ![call] = [type |-> @.type, data |-> result[call][i].data]]
     \/ /\ sub[call][i] = "returned"
        /\ ~IsError(result[call][i])
        /\ UNCHANGED prErr
  /\ SetPhase(call, i, "local")
  /\ UNCHANGED <<clients, pc, callVars, targets, started, result, egErr,
                 wg, waiter, covered, owed>>

(* PublishJSON: the deferred publishWaitGroup.Done. *)
JSONRelease(call, i) ==
  /\ sub[call][i] = "local"
  /\ SetPhase(call, i, "joined")
  /\ WgDone
  /\ UNCHANGED <<clients, pc, callVars, targets, started, result, egErr, prErr,
                 covered, owed>>

AllJoined_FirstOnly(call) ==
  /\ started[call] = Len(targets[call])
  /\ \E i \in 1..Len(targets[call]) : Joined(call, i)

(* eg.Wait or wg.Wait returns, Publish copies the group's error, and       *)
(* pr.Ready is closed.                                                     *)
AllJoined(call) ==
  /\ started[call] = Len(targets[call])
  /\ \A i \in 1..Len(targets[call]) : Joined(call, i)

CloseReady_ForgetsError(call) ==
  /\ pc[call] = "fanout"
  /\ AllJoined(call)
  /\ pc' = [pc EXCEPT ![call] = "ready"]
  /\ UNCHANGED <<prErr, clients, callVars, targets, started, sub, result, egErr,
                 wg, waiter, covered, owed>>

CloseReady(call) ==
  /\ pc[call] = "fanout"
  /\ AllJoined(call)
  /\ pc' = [pc EXCEPT ![call] = "ready"]
  /\ prErr' = IF IsError(egErr[call])
              THEN [prErr EXCEPT ![call] = egErr[call]]
              ELSE prErr
  /\ UNCHANGED <<clients, callVars, targets, started, sub, result, egErr,
                 wg, waiter, covered, owed>>

-----------------------------------------------------------------------------
(* WaitForAllPublishing. *)

WaitForAllPublishing(w) ==
  /\ waiter[w] = "idle"
  /\ waiter'  = [waiter EXCEPT ![w] = IF wg = 0 THEN "returned" ELSE "parked"]
  /\ covered' = [covered EXCEPT ![w] = Held]
  /\ owed'    = [owed EXCEPT ![w] = {c \in Calls : pc[c] \in {"spawned", "fanout"}}]
  /\ UNCHANGED <<clients, pc, callVars, targets, started, sub, result,
                 egErr, prErr, wg>>

WaitReturn(w) ==
  /\ waiter[w] = "woken"
  /\ wg = 0
  /\ waiter' = [waiter EXCEPT ![w] = "returned"]
  /\ UNCHANGED <<clients, pc, callVars, targets, started, sub, result,
                 egErr, prErr, wg, covered, owed, crashed>>

(* "sync: WaitGroup is reused before previous Wait has returned" *)
WaitPanic(w) ==
  /\ waiter[w] = "woken"
  /\ wg # 0
  /\ crashed' = TRUE
  /\ UNCHANGED <<clients, pc, callVars, targets, started, sub, result,
                 egErr, prErr, wg, waiter, covered, owed>>

-----------------------------------------------------------------------------
Init ==
  /\ clients = <<NoopClient>>
  /\ pc      = [c \in Calls |-> "idle"]
  /\ kind    = [c \in Calls |-> "Publish"]
  /\ valid   = [c \in Calls |-> TRUE]
  /\ targets = [c \in Calls |-> <<>>]
  /\ started = [c \in Calls |-> 0]
  /\ sub     = [c \in Calls |-> [i \in Slots |-> "none"]]
  /\ result  = [c \in Calls |-> [i \in Slots |-> Nil]]
  /\ egErr   = [c \in Calls |-> Nil]
  /\ prErr   = [c \in Calls |-> Nil]
  /\ wg      = 0
  /\ waiter  = [w \in Waiters |-> "idle"]
  /\ covered = [w \in Waiters |-> {}]
  /\ owed    = [w \in Waiters |-> {}]
  /\ crashed = FALSE

(* The application decides when to register clients, publish and wait. *)
Application ==
  \/ \E c \in Clients : SetClient(c) \/ AddPublisherClient(c)
  \/ \E call \in Calls, v \in BOOLEAN : Publish(call, v) \/ PublishJSON(call, v)
  \/ \E w \in Waiters : WaitForAllPublishing(w)

ClientGoroutine(call, i) ==
  \/ ClientPublish(call, i)
  \/ Release(call, i)
  \/ GroupDone(call, i)
  \/ AssignErrType(call, i)
  \/ LocalDone(call, i)
  \/ JSONRelease(call, i)

CallGoroutine(call) == EnterLoop(call) \/ Fork(call) \/ CloseReady(call)

Running ==
  \/ Application
  \/ \E call \in Calls : CallGoroutine(call)
  \/ \E call \in Calls, i \in Slots : ClientGoroutine(call, i)

Next ==
  /\ ~crashed
  /\ \/ Running /\ UNCHANGED crashed
     \/ \E w \in Waiters : WaitReturn(w) \/ WaitPanic(w)

Spec == Init /\ [][Next]_vars

(* The Go scheduler runs every goroutine that can run, and the providers'  *)
(* Publish returns.  The application owes nothing.                         *)
Fairness ==
  /\ \A call \in Calls :
       WF_vars(~crashed /\ CallGoroutine(call) /\ UNCHANGED crashed)
  /\ \A call \in Calls, i \in Slots :
       WF_vars(~crashed /\ ClientGoroutine(call, i) /\ UNCHANGED crashed)
  /\ \A w \in Waiters : WF_vars(~crashed /\ (WaitReturn(w) \/ WaitPanic(w)))

FairSpec == Spec /\ Fairness

-----------------------------------------------------------------------------
(* Type invariant: each call, goroutine and waiter is at a place that      *)
(* publish.go has, the result's words are words of errors that clients     *)
(* returned, and the WaitGroup never goes below zero (Go panics).          *)
TypeOK ==
  /\ clients \in Seq(Clients) /\ Len(clients) \in Slots
  /\ pc      \in [Calls -> {"idle", "spawned", "fanout", "ready"}]
  /\ kind    \in [Calls -> {"Publish", "PublishJSON"}]
  /\ valid   \in [Calls -> BOOLEAN]
  /\ targets \in [Calls -> Seq(Clients)]
  /\ \A call \in Calls : Len(targets[call]) \in 0..MaxFanout
  /\ started \in [Calls -> 0..MaxFanout]
  /\ sub     \in [Calls -> [Slots -> Phases]]
  /\ result  \in [Calls -> [Slots -> Err]]
  /\ egErr   \in [Calls -> Err]
  /\ prErr   \in [Calls -> Err]
  /\ wg      \in Nat
  /\ waiter  \in [Waiters -> {"idle", "parked", "woken", "returned"}]
  /\ covered \in [Waiters -> SUBSET (Calls \X Slots)]
  /\ owed    \in [Waiters -> SUBSET Calls]
  /\ crashed \in BOOLEAN

(* publishWaitGroup counts exactly the client goroutines of all calls that *)
(* were started and have not run their deferred Done, whatever the two     *)
(* kinds of calls interleave to.                                           *)
CounterExact == wg = Cardinality(Held)

(* When Ready is closed every registered client that the call went over    *)
(* has been tried, and Err is an error exactly when one of them failed: no *)
(* failure is lost and none is made up.                                    *)
AnswerTellsAll ==
  \A call \in Calls : pc[call] = "ready" =>
    /\ \A i \in 1..Len(targets[call]) : sub[call][i] \notin {"none", "running"}
    /\ IsError(prErr[call]) <=> \E i \in 1..Len(targets[call]) : IsError(result[call][i])

(* The error of a call is one that a client returned in this very call,    *)
(* although all calls run at once.  With PublishJSON, whose goroutines     *)
(* race to write it, it may have one word from one failing client and one  *)
(* from another, but no word of a client that succeeded, and with a single *)
(* failing client it is that client's.                                     *)
PublishErrIsOwn ==
  \A call \in Calls : (pc[call] = "ready" /\ IsError(prErr[call])) =>
    \E i, j \in 1..Len(targets[call]) :
      /\ IsError(result[call][i]) /\ IsError(result[call][j])
      /\ prErr[call] = [type |-> result[call][i].type, data |-> result[call][j].data]
      /\ kind[call] = "Publish" => i = j

(* WaitForAllPublishing returns only when every client goroutine that was  *)
(* counted as it was called has finished, late calls notwithstanding.      *)
WaitCoversCounted ==
  \A w \in Waiters : waiter[w] = "returned" => covered[w] \cap Held = {}

(* Readers of Err do not synchronise beyond Ready: once Ready is closed no *)
(* goroutine of the call writes Err any more.                              *)
ReadyIsFinal ==
  [][\A call \in Calls : pc[call] = "ready" =>
        pc'[call] = "ready" /\ prErr'[call] = prErr[call]]_vars

(* Every call becomes ready (PublishResult.Error returns), unless the      *)
(* process ends.                                                           *)
EveryCallAnswered ==
  \A call \in Calls : pc[call] # "idle" ~> (pc[call] = "ready" \/ crashed)

(* WaitForAllPublishing returns, unless the process ends.                  *)
EveryWaitReturns ==
  \A w \in Waiters : waiter[w] # "idle" ~> (waiter[w] = "returned" \/ crashed)

-----------------------------------------------------------------------------
(* What the caller sees of a call, in the terms of PublishPromise. *)

StatusOf(call) ==
  CASE pc[call] = "idle"    -> "idle"
    [] pc[call] = "spawned" -> "asked"
    [] pc[call] = "fanout"  -> "trying"
    [] pc[call] = "ready"   -> "answered"

Untried(call) ==
  {i \in 1..Len(targets[call]) : sub[call][i] \in {"none", "running"}}

Failed(call) == \E i \in Slots : IsError(result[call][i])

AnswerOf(call) ==
  IF pc[call] # "ready" THEN "none"
  ELSE IF IsError(prErr[call]) THEN "error" ELSE "ok"

Promise == INSTANCE PublishPromise WITH
  status <- [c \in Calls |-> StatusOf(c)],
  left   <- [c \in Calls |-> Cardinality(Untried(c))],
  failed <- [c \in Calls |-> Failed(c)],
  answer <- [c \in Calls |-> AnswerOf(c)]

(* Publish and PublishJSON keep the promise: one answer per call, after    *)
(* every client was tried, an error exactly when a client failed.          *)
KeepsPromise == Promise!Spec

-----------------------------------------------------------------------------
(* What publish.go says of itself, and TLC refutes.                        *)

(* "WaitForAllPublishing waits for all in flight publisher messages to go, *)
(* before returning": every call of Publish that had returned when the     *)
(* wait began is through when the wait ends.                               *)
WaitCoversEveryCall ==
  \A w \in Waiters : waiter[w] = "returned" =>
    \A call \in owed[w] :
      /\ pc[call] # "spawned"
      /\ \A i \in 1..Len(targets[call]) : sub[call][i] \notin {"none", "running"}
=============================================================================
