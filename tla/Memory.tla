------------------------------- MODULE Memory -------------------------------
(***************************************************************************)
(* A program on providers/memory/memory.go: Publish appends to a slice     *)
(* under the write lock of a sync.RWMutex, and Subscribe runs the handler  *)
(* for every message there is, under the read lock, before it returns.     *)
(* Handlers are what On makes of them (subscribe.go), behind the client's  *)
(* middleware; Subscribe is called by the Setup of a Lifecycle.            *)
(*                                                                         *)
(* A name with an underscore (Readers_NoUnlock) is the definition before   *)
(* the underscore with a bug put in; nothing refers to it.                 *)
(***************************************************************************)
EXTENDS Lifecycle, Middleware

CONSTANTS
  Messages,    \* messages that are published, each by a goroutine of its own
  Unreadable,  \* those that the callback of On cannot decode
  Chains       \* the middleware that its client may have, for each of Mains

ASSUME UnreadableAssumption == Unreadable \subseteq Messages
ASSUME ChainsAssumption ==
  \A m \in Mains : \A mw \in Chains[m] : mw \in Seq(Kinds) /\ CountsOnce(mw)

VARIABLES
  chain,    \* that client's middleware
  msgs,     \* mp.Msgs[topic]
  pub,      \* where each call of Publish is
  sub,      \* where each call of the provider's Subscribe is
  slice,    \* how long mp.Msgs[topic] was when its loop began
  next,     \* the message it is at
  awaits,   \* the Publish its handler waits for
  counted,  \* pubsub_server_handled_total, for "true" and "false"
  verdicts  \* history: how often a callback came to each outcome

memVars == <<chain, msgs, pub, sub, slice, next, awaits, counted, verdicts>>
vars    == <<lifeVars, memVars>>

-----------------------------------------------------------------------------
(* The lock.  A writer that waits keeps new readers out. *)

Readers_NoUnlock == {s \in Subs : sub[s] # "idle"}

Readers == {s \in Subs : sub[s] \in {"looping", "handling"}}
Writers == {p \in Messages : pub[p] = "locking"}

Bump(f, keys) == [k \in DOMAIN f |-> IF k \in keys THEN f[k] + 1 ELSE f[k]]

-----------------------------------------------------------------------------
(* Publish. *)

(* Client.Publish, in the goroutine that Publish has started, through the  *)
(* middleware to the lock. *)
PublishCalled(p) ==
  /\ pub[p] = "idle"
  /\ \/ /\ ReachesProvider(chain)
        /\ pub' = [pub EXCEPT ![p] = "locking"]
        /\ UNCHANGED life
     \/ /\ ~ReachesProvider(chain)
        /\ pub' = [pub EXCEPT ![p] = "failed"]
        /\ life' = IF ThroughPublishers(chain, "nil").outcome = "panic"
                   THEN "panicked" ELSE life
  /\ UNCHANGED <<registered, subscriber, on, stopper, todo, down, main>>
  /\ UNCHANGED <<chain, msgs, sub, slice, next, counted, verdicts>>

PublishRuns_Unlocked(p) ==
  /\ pub[p] = "locking"
  /\ msgs' = Append(msgs, p)
  /\ pub' = [pub EXCEPT ![p] = "sent"]
  /\ UNCHANGED <<lifeVars, chain, sub, slice, next, awaits, counted, verdicts>>

(* Lock, the append, Unlock. *)
PublishRuns(p) ==
  /\ pub[p] = "locking"
  /\ Readers = {}
  /\ msgs' = Append(msgs, p)
  /\ pub' = [pub EXCEPT ![p] = "sent"]
  /\ UNCHANGED <<lifeVars, chain, sub, slice, next, awaits, counted, verdicts>>

-----------------------------------------------------------------------------
(* Subscribe. *)

(* Setup has called On, which calls the provider's Subscribe: RLock, and   *)
(* the range over the messages begins. *)
RLock(s) ==
  /\ subscriber[s] = "setup"
  /\ on[s] = First
  /\ sub[s] = "idle"
  /\ Writers = {}
  /\ sub'   = [sub EXCEPT ![s] = "looping"]
  /\ slice' = [slice EXCEPT ![s] = Len(msgs)]
  /\ next'  = [next EXCEPT ![s] = 1]
  /\ UNCHANGED <<lifeVars, chain, msgs, pub, awaits, counted, verdicts>>

(* The callback has come to an outcome, which goes back through the        *)
(* middleware to the loop: an error is reported and the loop goes on, a    *)
(* panic releases the lock, passes On and Setup, and ends the process.     *)
Outcome(s, outcome) ==
  LET result == ThroughSubscribers(chain, outcome)
  IN  /\ counted'  = Bump(counted, result.counted)
      /\ verdicts' = Bump(verdicts, {outcome})
      /\ IF result.outcome = "panic"
         THEN /\ Panic
              /\ sub' = [sub EXCEPT ![s] = "returned"]
              /\ UNCHANGED next
         ELSE /\ sub' = [sub EXCEPT ![s] = "looping"]
              /\ next' = [next EXCEPT ![s] = @ + 1]
              /\ UNCHANGED lifeVars
      /\ UNCHANGED <<chain, msgs, pub, slice, awaits>>

CallHandler(s) ==
  /\ sub[s] = "looping"
  /\ next[s] <= slice[s]
  /\ msgs[next[s]] \notin Unreadable
  /\ sub' = [sub EXCEPT ![s] = "handling"]
  /\ UNCHANGED <<lifeVars, chain, msgs, pub, slice, next, awaits, counted, verdicts>>

(* "could not unmarshal message": the handler is not called. *)
CannotDecode(s) ==
  /\ sub[s] = "looping"
  /\ next[s] <= slice[s]
  /\ msgs[next[s]] \in Unreadable
  /\ Outcome(s, "error")

HandlerReturns(s) ==
  /\ sub[s] = "handling"
  /\ awaits[s] = None
  /\ \E outcome \in Outcomes : Outcome(s, outcome)

(* A handler publishes, and waits for the result before it goes on. *)
HandlerPublishes(s, p) ==
  /\ sub[s] = "handling"
  /\ awaits[s] = None
  /\ PublishCalled(p)
  /\ awaits' = [awaits EXCEPT ![s] = p]

HandlerGoesOn(s) ==
  /\ awaits[s] # None
  /\ pub[awaits[s]] \in {"sent", "failed"}
  /\ awaits' = [awaits EXCEPT ![s] = None]
  /\ UNCHANGED <<lifeVars, chain, msgs, pub, sub, slice, next, counted, verdicts>>

(* The loop is through: RUnlock. *)
Return(s) ==
  /\ sub[s] = "looping"
  /\ next[s] > slice[s]
  /\ sub' = [sub EXCEPT ![s] = "returned"]
  /\ UNCHANGED <<lifeVars, chain, msgs, pub, slice, next, awaits, counted, verdicts>>

(* The other clients' providers return from Subscribe at once. *)
ProviderReturns(s) ==
  /\ on[s] = First => sub[s] = "returned"
  /\ SetupReturns(s)
  /\ UNCHANGED memVars

-----------------------------------------------------------------------------
Init ==
  /\ LifeInit
  /\ chain \in Chains[main]
  /\ msgs     = <<>>
  /\ pub      = [p \in Messages |-> "idle"]
  /\ sub      = [s \in Subs |-> "idle"]
  /\ slice    = [s \in Subs |-> 0]
  /\ next     = [s \in Subs |-> 0]
  /\ awaits   = [s \in Subs |-> None]
  /\ counted  = [k \in {"nil", "error"} |-> 0]
  /\ verdicts = [k \in Outcomes |-> 0]

Loop(s) == RLock(s) \/ CallHandler(s) \/ CannotDecode(s) \/ HandlerGoesOn(s) \/ Return(s)

Running(s) == Loop(s) \/ ProviderReturns(s) \/ (OnRefuses(s) /\ UNCHANGED memVars)

Application ==
  \/ \E c \in Clients : SetClient(c) \/ AddPublisherClient(c)
  \/ \E s \in Subs : Subscribe(s)
  \/ \E t \in Stoppers : Shutdown(t)

Next ==
  /\ life = "up"
  /\ \/ Application /\ UNCHANGED memVars
     \/ \E p \in Messages :
          \/ PublishCalled(p) /\ UNCHANGED awaits
          \/ PublishRuns(p)
     \/ \E s \in Subs :
          \/ Running(s) \/ HandlerReturns(s)
          \/ \E p \in Messages : HandlerPublishes(s, p)
     \/ \E t \in Stoppers : Stopping(t) /\ UNCHANGED memVars
     \/ MainReturns /\ UNCHANGED memVars

Spec == Init /\ [][Next]_vars

(* The scheduler runs every goroutine that can run, the lock goes to       *)
(* whoever waits for it, and the providers' Shutdown returns.  Handlers    *)
(* need not return, and the application need not call anything.            *)
Fairness ==
  /\ \A p \in Messages : WF_vars(life = "up" /\ PublishRuns(p))
  /\ \A s \in Subs : WF_vars(life = "up" /\ Running(s))
  /\ \A t \in Stoppers : WF_vars(life = "up" /\ Stopping(t) /\ UNCHANGED memVars)

FairSpec == Spec /\ Fairness

-----------------------------------------------------------------------------
TypeOK ==
  /\ LifeTypeOK
  /\ chain    \in Chains[main]
  /\ msgs     \in Seq(Messages)
  /\ pub      \in [Messages -> {"idle", "locking", "sent", "failed"}]
  /\ sub      \in [Subs -> {"idle", "looping", "handling", "returned"}]
  /\ slice    \in [Subs -> Nat]
  /\ next     \in [Subs -> Nat]
  /\ awaits   \in [Subs -> Messages \cup {None}]
  /\ counted  \in [{"nil", "error"} -> Nat]
  /\ verdicts \in [Outcomes -> Nat]

(* Subscribe hands its handler everything that is published before it      *)
(* returns: nothing is appended behind the back of a loop that is not      *)
(* through.                                                                *)
LoopSeesAll == \A s \in Readers : slice[s] = Len(msgs)

(* With the default middleware the metrics tell what became of every       *)
(* message: a success for each one whose handler returned nil, a failure   *)
(* for each that could not be decoded, failed or panicked.                 *)
MetricsTellTruth ==
  chain = Default =>
    /\ counted["nil"]   = verdicts["nil"]
    /\ counted["error"] = verdicts["error"] + verdicts["panic"]

(* With the default middleware no panic of a handler, nor of a middleware, *)
(* ends the process.  Only options that On refuses do.                     *)
DefaultSurvives ==
  (chain = Default /\ life = "panicked") =>
    \E s \in Subs : subscriber[s] = "refused"

HandlersReturn == \A s \in Subs : []<>(sub[s] # "handling")

(* Publishers and subscribers share the lock without hanging each other,   *)
(* if handlers return; a handler that waits for its own Publish does not.  *)
PublishReturns ==
  HandlersReturn =>
    \A p \in Messages : pub[p] = "locking" ~> (pub[p] = "sent" \/ life # "up")

(* If handlers return, a Shutdown that hangs has nobody to meet: no        *)
(* Subscribe is left that is set up or has been.                           *)
ShutdownMeetsSomebody ==
  HandlersReturn =>
    \A t \in Stoppers, s \in Subs :
      <>[](stopper[t] = "sending" /\ life = "up") =>
        <>[](subscriber[s] \in {"idle", "returned"})
=============================================================================
