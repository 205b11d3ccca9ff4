------------------------------ MODULE CloudRun ------------------------------
(***************************************************************************)
(* providers/googlecloudrun/googlecloudrun.go: the service pushes messages *)
(* over HTTP to the processes that set up their subscription as TopicSetup *)
(* says.  The HTTP handler looks the subscription's handler up in g.subs,  *)
(* which Subscribe writes without a lock, and answers with the first       *)
(* status that was written; only a 200 takes the message from the queue.   *)
(* A message that has failed too often goes to the dead letter topic.      *)
(*                                                                         *)
(* Shutdown sets a flag that nothing reads, and is left out.               *)
(***************************************************************************)
EXTENDS TopicSetup

CONSTANTS
  Slots,       \* HTTP requests that are open at one time
  MaxAttempts  \* MaxDeliveryAttempts of the dead letter policy

ASSUME SlotsAssumption    == None \notin Slots
ASSUME AttemptsAssumption == MaxAttempts \in Nat \ {0}

VARIABLES
  queue,     \* each message: "none" published yet, "unheard" when it came
             \* before the subscription, "queued", "pushed", "acked", "dead"
  attempts,  \* how often each message has failed
  current,   \* the request the service waits for, for each message
  request,   \* what each request is about, and where it is
  consent    \* history: the messages that a handler was done with

pushVars == <<queue, attempts, current, request, consent>>
vars     == <<setupVars, pushVars>>

-----------------------------------------------------------------------------
(* The service. *)

Free == [phase |-> "free", msg |-> None, proc |-> None, status |-> None]

Requests == [phase : {"arrived", "running", "answered"}, msg : Messages,
             proc : Procs, status : {None, "200", "400", "500", "aborted"}]

(* A message reaches the topic. *)
Land(m) ==
  /\ queue' = [queue EXCEPT ![m] = IF subscription THEN "queued" ELSE "unheard"]
  /\ UNCHANGED <<attempts, current, request, consent>>

(* A push has failed, or was not answered in time. *)
Failed(m) ==
  /\ attempts' = [attempts EXCEPT ![m] = @ + 1]
  /\ queue' = [queue EXCEPT ![m] = IF attempts[m] + 1 < MaxAttempts THEN "queued" ELSE "dead"]
  /\ current' = [current EXCEPT ![m] = None]

Push(m, p, i) ==
  /\ ~Google
  /\ queue[m] = "queued"
  /\ life[p] = "up"
  /\ request[i] = Free
  /\ queue' = [queue EXCEPT ![m] = "pushed"]
  /\ current' = [current EXCEPT ![m] = i]
  /\ request' = [request EXCEPT ![i] =
       [phase |-> "arrived", msg |-> m, proc |-> p, status |-> None]]
  /\ UNCHANGED <<setupVars, attempts, consent>>

(* The process it would go to is down, or the request takes too long; a    *)
(* request that was given up goes on in the process.                       *)
PushFails(m) ==
  /\ ~Google
  /\ \/ queue[m] = "queued" /\ \E p \in Procs : life[p] = "down"
     \/ queue[m] = "pushed"
  /\ Failed(m)
  /\ UNCHANGED <<setupVars, request, consent>>

(* The status of the answer decides; nobody waits for the answer of a      *)
(* request that was given up.                                              *)
Answer(i) ==
  /\ request[i].phase = "answered"
  /\ request' = [request EXCEPT ![i] = Free]
  /\ LET m == request[i].msg
     IN  CASE current[m] # i -> UNCHANGED <<queue, attempts, current>>
           [] current[m] = i /\ request[i].status = "200" ->
                /\ queue' = [queue EXCEPT ![m] = "acked"]
                /\ current' = [current EXCEPT ![m] = None]
                /\ UNCHANGED attempts
           [] OTHER -> Failed(m)
  /\ UNCHANGED <<setupVars, consent>>

-----------------------------------------------------------------------------
(* The HTTP handler. *)

(* Whether g.subs may have the handler, and whether it may not have it. *)
MayFind(p) == at[p] \in {"storing", "ready"}
MayMiss(p) == at[p] # "ready"

Wrote_Last(r, status) == [r EXCEPT !.status = status]

(* The first status written is the one that is sent. *)
Wrote(r, status) == [r EXCEPT !.status = IF @ = None THEN status ELSE @]

LookUpHandler(i) ==
  /\ request[i].phase = "arrived"
  /\ \/ /\ MayFind(request[i].proc)
        /\ request' = [request EXCEPT ![i].phase = "running"]
     \/ /\ MayMiss(request[i].proc)
        /\ request' = [request EXCEPT ![i] = [Wrote(@, "500") EXCEPT !.phase = "answered"]]
  /\ UNCHANGED <<setupVars, queue, attempts, current, consent>>

(* The handler calls msg.Nack; its msg.Ack does nothing. *)
HandlerNacks(i) ==
  /\ request[i].phase = "running"
  /\ request' = [request EXCEPT ![i] = Wrote(@, "500")]
  /\ UNCHANGED <<setupVars, queue, attempts, current, consent>>

(* h returns nil, which is what it has to say unless it has nacked, or an  *)
(* error. *)
HandlerReturns(i) ==
  /\ request[i].phase = "running"
  /\ \/ /\ request' = [request EXCEPT ![i] = [Wrote(@, "200") EXCEPT !.phase = "answered"]]
        /\ consent' = IF request[i].status = None
                      THEN consent \cup {request[i].msg} ELSE consent
     \/ /\ request' = [request EXCEPT ![i] = [Wrote(@, "400") EXCEPT !.phase = "answered"]]
        /\ UNCHANGED consent
  /\ UNCHANGED <<setupVars, queue, attempts, current>>

(* net/http recovers, and closes the connection. *)
HandlerPanics(i) ==
  /\ request[i].phase = "running"
  /\ request' = [request EXCEPT ![i] =
       [[@ EXCEPT !.status = "aborted"] EXCEPT !.phase = "answered"]]
  /\ UNCHANGED <<setupVars, queue, attempts, current, consent>>

(* The requests of a process that ends are gone. *)
RequestsEnd(p) ==
  /\ request' = [i \in Slots |-> IF request[i].proc = p THEN Free ELSE request[i]]
  /\ UNCHANGED <<queue, attempts, current, consent>>

(* "fatal error: concurrent map read and map write" *)
ConcurrentMapAccess(p) ==
  /\ at[p] = "storing"
  /\ \E i \in Slots : request[i].proc = p /\ request[i].phase = "arrived"
  /\ Die(p)
  /\ RequestsEnd(p)
  /\ UNCHANGED <<flavour, things, trouble>>

-----------------------------------------------------------------------------
Init ==
  /\ SetupInit
  /\ queue    = [m \in Messages |-> "none"]
  /\ attempts = [m \in Messages |-> 0]
  /\ current  = [m \in Messages |-> None]
  /\ request  = [i \in Slots |-> Free]
  /\ consent  = {}

(* An error ends a call of Publish, whose message may have landed, or the  *)
(* process of a call of Subscribe. *)
CallEnds(c) ==
  /\ CallRefused(c) \/ CallFails(c)
  /\ \/ c \in Procs /\ RequestsEnd(c)
     \/ c \in Messages /\ UNCHANGED pushVars
     \/ c \in Messages /\ at[c] = "publishing" /\ Land(c)

Publish(m) ==
  \/ (PublishCalled(m) \/ GetTopic(m)) /\ UNCHANGED pushVars
  \/ Confirmed(m) /\ Land(m)

Step(c) ==
  \/ c \in Procs /\ Subscribe(c) /\ UNCHANGED pushVars
  \/ c \in Messages /\ Publish(c)
  \/ CallEnds(c)

Handler(i) == LookUpHandler(i) \/ HandlerNacks(i) \/ HandlerReturns(i) \/ HandlerPanics(i)

Next ==
  \/ \E c \in Calls : Step(c)
  \/ \E p \in Procs :
       \/ Kill(p) /\ RequestsEnd(p)
       \/ ConcurrentMapAccess(p)
       \/ Restart(p) /\ UNCHANGED pushVars
  \/ \E m \in Messages :
       \/ \E p \in Procs, i \in Slots : Push(m, p, i)
       \/ PushFails(m)
  \/ \E i \in Slots : Handler(i) \/ Answer(i)

Spec == Init /\ [][Next]_vars

(* Every goroutine that can run does, the service answers or a call fails, *)
(* and a process that has ended is started again.  Handlers need not       *)
(* return, and the service need not push.                                  *)
Fairness ==
  /\ \A c \in Calls : WF_vars(Step(c))
  /\ \A p \in Procs : WF_vars(Restart(p) /\ UNCHANGED pushVars)

FairSpec == Spec /\ Fairness

-----------------------------------------------------------------------------
TypeOK ==
  /\ SetupTypeOK
  /\ queue    \in [Messages -> {"none", "unheard", "queued", "pushed", "acked", "dead"}]
  /\ attempts \in [Messages -> 0..MaxAttempts]
  /\ current  \in [Messages -> Slots \cup {None}]
  /\ request  \in [Slots -> Requests \cup {Free}]
  /\ consent  \in SUBSET Messages

-----------------------------------------------------------------------------
(* The abstract promise: at-least-once delivery.  The dead letter topic    *)
(* takes messages, too. *)

FateOf(m) ==
  CASE queue[m] = "acked" -> "settled"
    [] queue[m] = "dead"  -> "expired"
    [] OTHER              -> "open"

Promise == INSTANCE AtLeastOnce WITH
  Unreadable <- {},
  expiring   <- Messages,
  fate       <- [m \in Messages |-> FateOf(m)],
  handled    <- consent

(* A push that was given up, answered late, aborted, nacked or failed, or  *)
(* that met a process without the handler, never takes the message away.   *)
DeliversAtLeastOnce == Promise!Spec
=============================================================================
