----------------------------- MODULE TopicSetup -----------------------------
(***************************************************************************)
(* How providers/google/google.go and providers/googlecloudrun set up a    *)
(* topic and a subscription to it: everything is looked up at the service  *)
(* and made when it is not there, while other goroutines of the process,   *)
(* and other processes of the same service, do the same.  getTopic runs    *)
(* under a mutex of the package and remembers the topic in g.topics; the   *)
(* googlecloudrun package makes a dead letter topic along with the topic.  *)
(*                                                                         *)
(* Each process calls Subscribe once, under the same names; Publish calls  *)
(* go to the same topic.  Nothing removes a topic or the subscription.     *)
(*                                                                         *)
(* A name with an underscore (Section_KeptOnError) is the definition       *)
(* before the underscore with a bug put in; nothing refers to it.          *)
(***************************************************************************)
EXTENDS Integers, FiniteSets

CONSTANTS
  Procs,      \* processes that run the service, each with a call of Subscribe
  Messages,   \* messages that are published, one by each call of Publish
  Home,       \* the process each Publish is called in
  Flavours,   \* the packages: "google" and "cloudrun"
  MaxTrouble  \* bound on calls to the service that fail and processes killed

ASSUME CallsAssumption    == Procs \cap Messages = {}
ASSUME HomeAssumption     == Home \in [Messages -> Procs]
ASSUME FlavoursAssumption == Flavours \subseteq {"google", "cloudrun"}
ASSUME TroubleAssumption  == MaxTrouble \in Nat

VARIABLES
  flavour,       \* the package in use
  topic,         \* the service has the topic
  deadTopic,     \* the service has the dead letter topic
  subscription,  \* the service has the subscription
  at,            \* where each call is
  exists,        \* the variable exists of each Subscribe
  cached,        \* the processes that have the topic in g.topics
  maker,         \* history: the process whose current life made each topic
  life,          \* each process: "up" or "down"
  trouble        \* how much has gone wrong

things    == <<topic, deadTopic, subscription>>
setupVars == <<flavour, things, at, exists, cached, maker, life, trouble>>

-----------------------------------------------------------------------------
(* Calls. *)

None      == "none"
Calls     == Procs \cup Messages
ProcOf(c) == IF c \in Procs THEN c ELSE Home[c]
Google    == flavour = "google"

ASSUME NoneAssumption == None \notin Procs

(* "finding" the subscription; "wanting" the mutex; "asking" for the topic *)
(* and "creating" it under the mutex; "attaching": the subscription is     *)
(* created, or updated; "storing": the write to g.subs.                    *)
Section_KeptOnError ==
  {c \in Calls : at[c] \in {"asking", "creating", "creatingDead", "failed"}}

(* The calls that hold the mutex of their process. *)
Section == {c \in Calls : at[c] \in {"asking", "creating", "creatingDead"}}

(* The calls that wait for an answer of the service. *)
Asking == Section \cup
  {c \in Calls : at[c] \in {"finding", "attaching", "publishing"}}

Go(c, place) == at' = [at EXCEPT ![c] = place]

(* What follows getTopic. *)
AfterTopic(c) ==
  IF c \in Messages THEN "publishing"
  ELSE IF Google THEN "attaching" ELSE "finding"

(* g.topics[name] = t, and the mutex is released. *)
HaveTopic(c) ==
  /\ cached' = cached \cup {ProcOf(c)}
  /\ Go(c, AfterTopic(c))

-----------------------------------------------------------------------------
(* Subscribe and Publish. *)

SubscribeCalled(p) ==
  /\ life[p] = "up"
  /\ at[p] = "idle"
  /\ Go(p, IF Google THEN "finding" ELSE "wanting")
  /\ UNCHANGED <<flavour, things, exists, cached, maker, life, trouble>>

PublishCalled(m) ==
  /\ life[Home[m]] = "up"
  /\ at[m] = "idle"
  /\ Go(m, "wanting")
  /\ UNCHANGED <<flavour, things, exists, cached, maker, life, trouble>>

(* sub.Exists, before the topic in google, after it in googlecloudrun,     *)
(* where nothing but the handler is stored for one that exists.            *)
FindSubscription(p) ==
  /\ at[p] = "finding"
  /\ exists' = [exists EXCEPT ![p] = subscription]
  /\ Go(p, IF Google THEN "wanting"
           ELSE IF subscription THEN "storing" ELSE "attaching")
  /\ UNCHANGED <<flavour, things, cached, maker, life, trouble>>

Lock_Shared(c) ==
  /\ at[c] = "wanting"
  /\ Go(c, IF ProcOf(c) \in cached THEN AfterTopic(c) ELSE "asking")
  /\ UNCHANGED <<flavour, things, exists, cached, maker, life, trouble>>

(* getTopic: mutex.Lock, and the look at g.topics. *)
Lock(c) ==
  /\ at[c] = "wanting"
  /\ \A d \in Section : ProcOf(d) # ProcOf(c)
  /\ Go(c, IF ProcOf(c) \in cached THEN AfterTopic(c) ELSE "asking")
  /\ UNCHANGED <<flavour, things, exists, cached, maker, life, trouble>>

(* t.Exists *)
AskForTopic(c) ==
  /\ at[c] = "asking"
  /\ \/ topic /\ HaveTopic(c)
     \/ ~topic /\ Go(c, "creating") /\ UNCHANGED cached
  /\ UNCHANGED <<flavour, things, exists, maker, life, trouble>>

(* g.client.CreateTopic *)
CreateTopic(c) ==
  /\ at[c] = "creating"
  /\ ~topic
  /\ topic' = TRUE
  /\ maker' = [maker EXCEPT !["topic"] = ProcOf(c)]
  /\ \/ Google /\ HaveTopic(c)
     \/ ~Google /\ Go(c, "creatingDead") /\ UNCHANGED cached
  /\ UNCHANGED <<flavour, deadTopic, subscription, exists, life, trouble>>

CreateDeadTopic(c) ==
  /\ at[c] = "creatingDead"
  /\ ~deadTopic
  /\ deadTopic' = TRUE
  /\ maker' = [maker EXCEPT !["dead"] = ProcOf(c)]
  /\ HaveTopic(c)
  /\ UNCHANGED <<flavour, topic, subscription, exists, life, trouble>>

(* The service takes no subscription whose dead letter topic is not there. *)
CanAttach(p) ==
  IF Google THEN exists[p] \/ ~subscription ELSE ~subscription /\ deadTopic

(* g.client.CreateSubscription, or sub.Update. *)
Attach(p) ==
  /\ at[p] = "attaching"
  /\ CanAttach(p)
  /\ subscription' = TRUE
  /\ Go(p, IF Google THEN "ready" ELSE "storing")
  /\ UNCHANGED <<flavour, topic, deadTopic, exists, cached, maker, life, trouble>>

(* g.subs[subName] = h *)
StoreHandler(p) ==
  /\ at[p] = "storing"
  /\ Go(p, "ready")
  /\ UNCHANGED <<flavour, things, exists, cached, maker, life, trouble>>

(* t.Publish, and its confirmation. *)
Confirmed(m) ==
  /\ at[m] = "publishing"
  /\ Go(m, "sent")
  /\ UNCHANGED <<flavour, things, exists, cached, maker, life, trouble>>

-----------------------------------------------------------------------------
(* Failure. *)

(* The process is gone, with what it holds in memory. *)
Die(p) ==
  /\ life'   = [life EXCEPT ![p] = "down"]
  /\ cached' = cached \ {p}
  /\ exists' = [exists EXCEPT ![p] = FALSE]
  /\ maker'  = [t \in DOMAIN maker |-> IF maker[t] = p THEN None ELSE maker[t]]
  /\ at' = [c \in Calls |->
       IF ProcOf(c) # p \/ at[c] \in {"idle", "sent", "failed"} THEN at[c]
       ELSE IF c = p THEN "idle" ELSE "lost"]

(* An error ends the process when Subscribe meets it (Fatalf, Panicf), and *)
(* Publish returns it. *)
Fail(c) ==
  \/ c \in Procs /\ Die(c)
  \/ /\ c \in Messages
     /\ Go(c, "failed")
     /\ UNCHANGED <<exists, cached, maker, life>>

(* The service refuses to make what exists by now, in the eyes of somebody *)
(* who has asked before. *)
Refused(c) ==
  \/ at[c] = "creating" /\ topic
  \/ at[c] = "creatingDead" /\ deadTopic
  \/ at[c] = "attaching" /\ ~CanAttach(c)

CallRefused(c) ==
  /\ Refused(c)
  /\ Fail(c)
  /\ UNCHANGED <<flavour, things, trouble>>

(* A call fails, or its answer gets lost after it was obeyed. *)
CallFails(c) ==
  /\ c \in Asking
  /\ trouble < MaxTrouble
  /\ trouble' = trouble + 1
  /\ topic' \in {topic, at[c] = "creating" \/ topic}
  /\ deadTopic' \in {deadTopic, at[c] = "creatingDead" \/ deadTopic}
  /\ subscription' \in {subscription, (at[c] = "attaching" /\ CanAttach(c)) \/ subscription}
  /\ Fail(c)
  /\ UNCHANGED flavour

Kill(p) ==
  /\ life[p] = "up"
  /\ trouble < MaxTrouble
  /\ trouble' = trouble + 1
  /\ Die(p)
  /\ UNCHANGED <<flavour, things>>

Restart(p) ==
  /\ life[p] = "down"
  /\ life' = [life EXCEPT ![p] = "up"]
  /\ UNCHANGED <<flavour, things, at, exists, cached, maker, trouble>>

-----------------------------------------------------------------------------
SetupInit ==
  /\ flavour \in Flavours
  /\ topic = FALSE
  /\ deadTopic = FALSE
  /\ subscription = FALSE
  /\ at = [c \in Calls |-> "idle"]
  /\ exists = [p \in Procs |-> FALSE]
  /\ cached = {}
  /\ maker = [t \in {"topic", "dead"} |-> None]
  /\ life = [p \in Procs |-> "up"]
  /\ trouble = 0

GetTopic(c) == Lock(c) \/ AskForTopic(c) \/ CreateTopic(c) \/ CreateDeadTopic(c)

Subscribe(p) ==
  SubscribeCalled(p) \/ FindSubscription(p) \/ GetTopic(p) \/ Attach(p) \/ StoreHandler(p)

-----------------------------------------------------------------------------
SetupTypeOK ==
  /\ flavour      \in Flavours
  /\ topic        \in BOOLEAN
  /\ deadTopic    \in BOOLEAN
  /\ subscription \in BOOLEAN
  /\ at           \in [Calls -> {"idle", "finding", "wanting", "asking", "creating",
                         "creatingDead", "attaching", "storing", "ready",
                         "publishing", "sent", "failed", "lost"}]
  /\ exists       \in [Procs -> BOOLEAN]
  /\ cached       \in SUBSET Procs
  /\ maker        \in [{"topic", "dead"} -> Procs \cup {None}]
  /\ life         \in [Procs -> {"up", "down"}]
  /\ trouble      \in 0..MaxTrouble

(* Within a process the look-up of a topic and its creation are one: no    *)
(* call is about to make what another call of the process made after it    *)
(* was looked for.  Only another process can get in between.               *)
NeverBeatenByItself ==
  \A c \in Calls :
    /\ at[c] = "creating"     => maker["topic"] # ProcOf(c)
    /\ at[c] = "creatingDead" => maker["dead"] # ProcOf(c)

(* Whatever fails or dies while processes set up the same subscription, in *)
(* the end all of them are subscribed; except that the topic may be left   *)
(* for good without the dead letter topic that a subscription needs.       *)
EverySubscribeReady ==
  \/ <>[](\A p \in Procs : at[p] = "ready")
  \/ <>[](~Google /\ topic /\ ~deadTopic)
=============================================================================
