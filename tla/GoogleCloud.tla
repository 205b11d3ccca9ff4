---------------------------- MODULE GoogleCloud ----------------------------
(***************************************************************************)
(* The consuming side of providers/google/google.go, for one subscription: *)
(* a loop pulls batches of messages and hands them one by one over an      *)
(* unbuffered channel to a dispatcher, which takes a token of a semaphore  *)
(* and starts a worker that runs the handler; Shutdown sets a flag and     *)
(* cancels the context that the loop registered last.                      *)
(*                                                                         *)
(* A delivery is one receipt of a message.  The Pub/Sub service leases the *)
(* messages it delivers and delivers them again when the lease expires.    *)
(*                                                                         *)
(* A name with an underscore (Acquire_Free) is the definition before the   *)
(* underscore with a bug put in; nothing refers to it.                     *)
(***************************************************************************)
EXTENDS Integers, FiniteSets

CONSTANTS
  Messages,       \* messages published to the topic
  MaxDeliveries,  \* bound on how often the service delivers one message
  Options         \* HandlerOptions the subscription may have, and with each
                  \* the deliveries the model allows for

ASSUME MessagesAssumption   == IsFiniteSet(Messages)
ASSUME DeliveriesAssumption == MaxDeliveries \in Nat \ {0}
ASSUME OptionsAssumption ==
  Options \subseteq [concurrency : Nat \ {0}, autoAck : BOOLEAN, unique : BOOLEAN,
                     deliveries : [Messages -> 0..MaxDeliveries]]

VARIABLES
  opts,       \* the subscription's HandlerOptions
  server,     \* the service: each message "queued", "leased", "acked", or
              \* "gone" with the subscription
  consent,    \* history: the messages the application is done with
  loop,       \* where the pull loop is
  dispatch,   \* where the dispatcher is
  phase,      \* where each delivery is
  mine,       \* the deliveries pulled under the context in g.subs
  ctxDone,    \* the context in g.subs is cancelled
  dead,       \* the deliveries whose context was cancelled as they waited
  tokens,     \* what is left of the semaphore
  err,        \* the variable err that the subscription's goroutines share
  shutdown,   \* g.shutdown
  stopper,    \* where Shutdown is
  life        \* "up", or how the process has ended

workVars == <<tokens, err>>
vars == <<opts, server, consent, loop, dispatch, phase, mine, ctxDone, dead, workVars,
          shutdown, stopper, life>>

Concurrency == opts.concurrency
AutoAck     == opts.autoAck
Unique      == opts.unique

-----------------------------------------------------------------------------
(* Deliveries. *)

Deliveries == Messages \X (1..MaxDeliveries)
Msg(d)     == d[1]

(* "pulled": in res.ReceivedMessages.  "offered": received by the          *)
(* dispatcher.  "running": in the handler, which then "succeeded" or       *)
(* "failed".  "acking", "nacking", "leaving": the worker has looked at     *)
(* err.  "over": settled, dropped, or lost with the process.               *)
Waiting == {"pulled", "offered"}
Holding == {"running", "succeeded", "failed", "acking", "nacking", "leaving"}
Phases  == {"none", "over"} \cup Waiting \cup Holding

In(p)   == {d \in Deliveries : phase[d] = p}
Holders == {d \in Deliveries : phase[d] \in Holding}

Fresh(m) == {d \in Deliveries : Msg(d) = m /\ phase[d] = "none"
               /\ d[2] <= opts.deliveries[m]
               /\ \A k \in 1..(d[2] - 1) : phase[<<m, k>>] # "none"}

Move(d, p) == phase' = [phase EXCEPT ![d] = p]

(* int32(math.Floor(float64(opts.Concurrency) * 1.2)) *)
MaxMessages == (Concurrency * 12) \div 10

(* The service takes an Acknowledge, also for a lease that has expired.    *)
ServerAcks(m) ==
  /\ server[m] # "gone"
  /\ server' = [server EXCEPT ![m] = "acked"]

-----------------------------------------------------------------------------
(* The pull loop. *)

(* The subscription's topic and the subscription itself are looked up, and *)
(* created or updated. *)
Setup ==
  /\ loop = "setup"
  /\ loop' = "check"
  /\ dispatch' = "idle"
  /\ UNCHANGED <<opts, consent, server, phase, mine, ctxDone, dead, workVars, shutdown,
                 stopper, life>>

(* The top of the loop: no shutdown yet, a context is made and the write   *)
(* to g.subs begins. *)
NewContext ==
  /\ loop = "check"
  /\ ~shutdown
  /\ loop' = "writing"
  /\ UNCHANGED <<opts, consent, server, dispatch, phase, mine, ctxDone, dead, workVars,
                 shutdown, stopper, life>>

Register ==
  /\ loop = "writing"
  /\ loop' = "pulling"
  /\ mine' = {}
  /\ ctxDone' = FALSE
  /\ UNCHANGED <<opts, consent, server, dispatch, phase, dead, workVars, shutdown,
                 stopper, life>>

(* Pull returns between one and MaxMessages messages. *)
PullMessages ==
  /\ loop = "pulling"
  /\ ~ctxDone
  /\ \E ms \in SUBSET {m \in Messages : server[m] = "queued" /\ Fresh(m) # {}} :
       /\ Cardinality(ms) \in 1..MaxMessages
       /\ mine' = UNION {Fresh(m) : m \in ms}
       /\ phase' = [d \in Deliveries |-> IF d \in mine' THEN "pulled" ELSE phase[d]]
       /\ server' = [m \in Messages |-> IF m \in ms THEN "leased" ELSE server[m]]
  /\ loop' = "sending"
  /\ UNCHANGED <<opts, consent, dispatch, ctxDone, dead, workVars, shutdown, stopper,
                 life>>

(* Pull returns nothing, or fails, as it must when its context is          *)
(* cancelled; the loop sleeps and starts over.  The service has leased     *)
(* what an answer that got lost had in it.                                 *)
PullNothing ==
  /\ loop = "pulling"
  /\ loop' = "check"
  /\ \E ms \in SUBSET {m \in Messages : server[m] = "queued"} :
       /\ Cardinality(ms) <= MaxMessages
       /\ server' = [m \in Messages |-> IF m \in ms THEN "leased" ELSE server[m]]
  /\ UNCHANGED <<opts, consent, dispatch, phase, mine, ctxDone, dead, workVars,
                 shutdown, stopper, life>>

HandOver_FirstOnly(d) ==
  /\ loop = "sending"
  /\ dispatch = "idle"
  /\ phase[d] = "pulled"
  /\ Move(d, "offered")
  /\ dispatch' = "acquiring"
  /\ loop' = "check"
  /\ UNCHANGED <<opts, consent, server, mine, ctxDone, dead, workVars, shutdown,
                 stopper, life>>

(* The unbuffered channel: a send meets the dispatcher's receive. *)
HandOver(d) ==
  /\ loop = "sending"
  /\ dispatch = "idle"
  /\ phase[d] = "pulled"
  /\ Move(d, "offered")
  /\ dispatch' = "acquiring"
  /\ loop' = IF In("pulled") = {d} THEN "check" ELSE "sending"
  /\ UNCHANGED <<opts, consent, server, mine, ctxDone, dead, workVars, shutdown,
                 stopper, life>>

(* The loop sees the shutdown, deletes a unique subscription and closes    *)
(* the channel. *)
Quit ==
  /\ loop = "check"
  /\ shutdown
  /\ loop' = "done"
  /\ \/ ~Unique /\ UNCHANGED <<server, err>>
     \/ Unique /\ err' = "error" /\ UNCHANGED server
     \/ /\ Unique
        /\ err' = "nil"
        /\ server' = [m \in Messages |-> IF server[m] = "acked" THEN "acked" ELSE "gone"]
  /\ UNCHANGED <<opts, consent, dispatch, phase, mine, ctxDone, dead, tokens, shutdown,
                 stopper, life>>

-----------------------------------------------------------------------------
(* The dispatcher and its workers. *)

AcquireFails_NoDeadline(d) ==
  /\ phase[d] = "offered"
  /\ d \in dead
  /\ Move(d, "over")
  /\ dispatch' = "idle"
  /\ UNCHANGED <<opts, consent, server, loop, mine, ctxDone, dead, workVars, shutdown,
                 stopper, life>>

AcquireFails_Returns(d) ==
  /\ phase[d] = "offered"
  /\ d \in dead \/ tokens = 0
  /\ Move(d, "over")
  /\ dispatch' = "done"
  /\ UNCHANGED <<opts, consent, server, loop, mine, ctxDone, dead, workVars, shutdown,
                 stopper, life>>

(* sem.Acquire fails when its context is done: the delivery's context was  *)
(* cancelled, or opts.Deadline passed while no token was free.  The        *)
(* message is dropped, neither acked nor nacked. *)
AcquireFails(d) ==
  /\ phase[d] = "offered"
  /\ d \in dead \/ tokens = 0
  /\ Move(d, "over")
  /\ dispatch' = "idle"
  /\ UNCHANGED <<opts, consent, server, loop, mine, ctxDone, dead, workVars, shutdown,
                 stopper, life>>

Acquire(d) ==
  /\ phase[d] = "offered"
  /\ d \notin dead
  /\ tokens > 0
  /\ tokens' = tokens - 1
  /\ Move(d, "running")
  /\ dispatch' = "idle"
  /\ UNCHANGED <<opts, consent, server, loop, mine, ctxDone, dead, err, shutdown,
                 stopper, life>>

DispatcherEnds ==
  /\ loop = "done"
  /\ dispatch = "idle"
  /\ dispatch' = "done"
  /\ UNCHANGED <<opts, consent, server, loop, phase, mine, ctxDone, dead, workVars,
                 shutdown, stopper, life>>

(* A handler that was not subscribed with AutoAck calls msg.Ack itself; a  *)
(* failure of the RPC is logged. *)
HandlerAcks(d) ==
  /\ ~AutoAck
  /\ phase[d] = "running"
  /\ consent' = consent \cup {Msg(d)}
  /\ ServerAcks(Msg(d)) \/ UNCHANGED server
  /\ UNCHANGED <<opts, loop, dispatch, phase, mine, ctxDone, dead, workVars, shutdown,
                 stopper, life>>

(* err = h(ctx, msg) *)
HandlerReturns(d) ==
  /\ phase[d] = "running"
  /\ \/ /\ err' = "nil"
        /\ Move(d, "succeeded")
        /\ consent' = IF AutoAck THEN consent \cup {Msg(d)} ELSE consent
     \/ /\ err' = "error"
        /\ Move(d, "failed")
        /\ UNCHANGED consent
  /\ UNCHANGED <<opts, server, loop, dispatch, mine, ctxDone, dead, tokens, shutdown,
                 stopper, life>>

(* What the worker of a delivery may see in err, which all workers share   *)
(* without synchronisation: what it wrote itself, or what err holds by     *)
(* now. *)
Seen(d) == {err, IF phase[d] = "failed" THEN "error" ELSE "nil"}

LookAtErr_Ignored(d) ==
  /\ phase[d] \in {"succeeded", "failed"}
  /\ Move(d, IF AutoAck THEN "acking" ELSE "leaving")
  /\ UNCHANGED <<opts, consent, server, loop, dispatch, mine, ctxDone, dead, workVars,
                 shutdown, stopper, life>>

(* if err != nil *)
LookAtErr(d) ==
  /\ phase[d] \in {"succeeded", "failed"}
  /\ \E e \in Seen(d) :
       Move(d, IF e # "nil" THEN "nacking" ELSE IF AutoAck THEN "acking" ELSE "leaving")
  /\ UNCHANGED <<opts, consent, server, loop, dispatch, mine, ctxDone, dead, workVars,
                 shutdown, stopper, life>>

Leave_LeaksOnNack(d) ==
  /\ phase[d] \in {"acking", "nacking", "leaving"}
  /\ \/ phase[d] = "acking" /\ ServerAcks(Msg(d))
     \/ UNCHANGED server
  /\ tokens' = IF phase[d] = "nacking" THEN tokens ELSE tokens + 1
  /\ Move(d, "over")
  /\ UNCHANGED <<opts, consent, loop, dispatch, mine, ctxDone, dead, err, shutdown,
                 stopper, life>>

(* The RPC of Ack or Nack succeeds or fails (a failure is logged); then    *)
(* the deferred Release.  Nack extends the lease, so the message stays     *)
(* leased until that expires. *)
Leave(d) ==
  /\ phase[d] \in {"acking", "nacking", "leaving"}
  /\ \/ phase[d] = "acking" /\ ServerAcks(Msg(d))
     \/ UNCHANGED server
  /\ tokens' = tokens + 1
  /\ Move(d, "over")
  /\ UNCHANGED <<opts, consent, loop, dispatch, mine, ctxDone, dead, err, shutdown,
                 stopper, life>>

-----------------------------------------------------------------------------
(* Shutdown. *)

SetFlag ==
  /\ stopper = "idle"
  /\ shutdown' = TRUE
  /\ stopper' = "ranging"
  /\ UNCHANGED <<opts, consent, server, loop, dispatch, phase, mine, ctxDone, dead,
                 workVars, life>>

(* range g.subs, without the mutex, and cancel what is registered. *)
CancelAll ==
  /\ stopper = "ranging"
  /\ ctxDone' = TRUE
  /\ dead' = dead \cup {d \in mine : phase[d] \in Waiting}
  /\ stopper' = "returned"
  /\ UNCHANGED <<opts, consent, server, loop, dispatch, phase, mine, workVars, shutdown,
                 life>>

-----------------------------------------------------------------------------
(* The service.  It goes on when the process has ended. *)

LeaseExpires(m) ==
  /\ server[m] = "leased"
  /\ server' = [server EXCEPT ![m] = "queued"]
  /\ UNCHANGED <<opts, consent, loop, dispatch, phase, mine, ctxDone, dead, workVars,
                 shutdown, stopper, life>>

-----------------------------------------------------------------------------
(* The process ends, with all it holds in memory. *)
ProcessEnds(how) ==
  /\ life'     = how
  /\ loop'     = "setup"
  /\ dispatch' = "none"
  /\ mine'     = {}
  /\ ctxDone'  = FALSE
  /\ dead'     = {}
  /\ tokens'   = Concurrency
  /\ err'      = "nil"
  /\ shutdown' = FALSE
  /\ stopper'  = "idle"
  /\ phase' = [d \in Deliveries |->
       IF phase[d] \in Waiting \cup Holding THEN "over" ELSE phase[d]]
  /\ UNCHANGED <<opts, server, consent>>

Kill == ProcessEnds("killed")

(* Setup fails: log.Fatalf or logrus.Panicf. *)
SetupFails ==
  /\ loop = "setup"
  /\ ProcessEnds("panicked")

(* "fatal error: concurrent map iteration and map write" *)
ConcurrentMapAccess ==
  /\ stopper = "ranging"
  /\ loop = "writing"
  /\ ProcessEnds("fatal")

(* It is started again, and finds the subscription as it was left.  A      *)
(* unique one is not found again: its name is made up at each start.       *)
Restart ==
  /\ life # "up"
  /\ ~Unique
  /\ life' = "up"
  /\ UNCHANGED <<opts, server, consent, loop, dispatch, phase, mine, ctxDone, dead,
                 workVars, shutdown, stopper>>

-----------------------------------------------------------------------------
Init ==
  /\ opts \in Options
  /\ server   = [m \in Messages |-> "queued"]
  /\ consent  = {}
  /\ loop     = "setup"
  /\ dispatch = "none"
  /\ phase    = [d \in Deliveries |-> "none"]
  /\ mine     = {}
  /\ ctxDone  = FALSE
  /\ dead     = {}
  /\ tokens   = Concurrency
  /\ err      = "nil"
  /\ shutdown = FALSE
  /\ stopper  = "idle"
  /\ life     = "up"

PullLoop ==
  \/ NewContext \/ Register \/ PullMessages \/ PullNothing \/ Quit
  \/ \E d \in Deliveries : HandOver(d)

Dispatcher ==
  \/ \E d \in Deliveries : AcquireFails(d) \/ Acquire(d)
  \/ DispatcherEnds

Worker(d) == LookAtErr(d) \/ Leave(d)

Process ==
  \/ Setup
  \/ SetupFails
  \/ PullLoop
  \/ Dispatcher
  \/ \E d \in Deliveries :
       HandlerAcks(d) \/ HandlerReturns(d) \/ Worker(d)
  \/ SetFlag
  \/ CancelAll
  \/ ConcurrentMapAccess

Next ==
  \/ life = "up" /\ (Process \/ Kill)
  \/ Restart
  \/ \E m \in Messages : LeaseExpires(m)

Spec == Init /\ [][Next]_vars

(* The scheduler runs every goroutine that can run; Pull returns, if only  *)
(* with nothing or an error; a semaphore that stays taken is given up at   *)
(* opts.Deadline; an RPC ends.  Nothing is assumed of handlers here. *)
Fairness ==
  /\ WF_vars(life = "up" /\ (Setup \/ SetupFails))
  /\ WF_vars(life = "up" /\ PullLoop)
  /\ WF_vars(life = "up" /\ Dispatcher)
  /\ \A d \in Deliveries : WF_vars(life = "up" /\ Worker(d))
  /\ WF_vars(life = "up" /\ CancelAll)

FairSpec == Spec /\ Fairness

-----------------------------------------------------------------------------
(* Type invariant. *)
TypeOK ==
  /\ opts     \in Options
  /\ server   \in [Messages -> {"queued", "leased", "acked", "gone"}]
  /\ consent  \in SUBSET Messages
  /\ loop     \in {"setup", "check", "writing", "pulling", "sending", "done"}
  /\ dispatch \in {"none", "idle", "acquiring", "done"}
  /\ phase    \in [Deliveries -> Phases]
  /\ mine     \in SUBSET Deliveries
  /\ ctxDone  \in BOOLEAN
  /\ dead     \in SUBSET Deliveries
  /\ tokens   \in 0..Concurrency
  /\ err      \in {"nil", "error"}
  /\ shutdown \in BOOLEAN
  /\ stopper  \in {"idle", "ranging", "returned"}
  /\ life     \in {"up", "killed", "panicked", "fatal"}

(* The semaphore: a token is out for exactly the workers that run, on      *)
(* every path out of the worker, so that at most Concurrency handlers run  *)
(* at once and none of the tokens is lost for good.                        *)
TokensExact == tokens + Cardinality(Holders) = Concurrency

(* The dispatcher holds a delivery exactly while it acquires, and the loop *)
(* leaves its batch only when it handed everything over: nothing that was  *)
(* pulled is forgotten in the process.                                     *)
NothingForgotten ==
  /\ Cardinality(In("offered")) = IF dispatch = "acquiring" THEN 1 ELSE 0
  /\ In("pulled") # {} <=> loop = "sending"

(* "Auto Ack the message automatically if return err == nil": a message is *)
(* acked only if a handler returned nil for it, or acked it, in this life  *)
(* of the process or an earlier one.                                       *)
AckedWithConsent == \A m \in Messages : server[m] = "acked" => m \in consent

(* After Shutdown the loop ends, even when no handler ever returns, unless *)
(* the process does. *)
ShutdownEndsLoop == shutdown ~> (loop = "done" \/ ~shutdown)

(* Everything pulled is settled or dropped, when handlers return. *)
EveryDeliveryLeaves ==
  (\A d \in Deliveries : []<>(phase[d] # "running")) =>
    \A d \in Deliveries :
      phase[d] = "pulled" ~> phase[d] = "over"

-----------------------------------------------------------------------------
(* The abstract promise: at-least-once delivery. *)

FateOf(m) ==
  CASE server[m] = "acked" -> "settled"
    [] server[m] = "gone"  -> "expired"
    [] OTHER               -> "open"

(* A unique subscription goes at Shutdown, under workers that still run    *)
(* and ack, but with no message that the loop has yet to hand over.        *)
MayGo ==
  {m \in Messages : Unique /\ shutdown /\ \A d \in In("pulled") : Msg(d) # m}

Promise == INSTANCE AtLeastOnce WITH
  Unreadable <- {},
  expiring   <- MayGo,
  fate       <- [m \in Messages |-> FateOf(m)],
  handled    <- consent

(* No crash, restart, lost RPC or expired lease takes a message away that  *)
(* no handler was done with.  What goes with a unique subscription does so *)
(* only when it may, and no late ack of a worker counts for it any more.   *)
DeliversAtLeastOnce == Promise!Spec
=============================================================================
