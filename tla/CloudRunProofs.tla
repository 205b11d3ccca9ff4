--------------------------- MODULE CloudRunProofs ---------------------------
(***************************************************************************)
(* Proofs about TopicSetup and CloudRun for any processes, messages, bound *)
(* on failures and number of open requests.                                *)
(*                                                                         *)
(* The argument: the mutex lets one call of a process at a time look for a *)
(* topic and make it (Serial); a message that some request still waits for *)
(* is neither queued nor settled (Queue); and a request answers 200 only   *)
(* when its handler was done (Honest), so that every step of the service   *)
(* is one that AtLeastOnce allows.  A topic that was left without its dead *)
(* letter topic (HalfMade) stays so, for only the call that makes the      *)
(* topic makes the other one.                                              *)
(***************************************************************************)
EXTENDS CloudRun, TLAPS

(* The steps of TopicSetup. *)
SetupStep ==
  \/ \E c \in Calls : GetTopic(c) \/ CallRefused(c) \/ CallFails(c)
  \/ \E p \in Procs :
       SubscribeCalled(p) \/ FindSubscription(p) \/ Attach(p) \/ StoreHandler(p) \/ Restart(p)
  \/ \E m \in Messages : PublishCalled(m) \/ Confirmed(m)
  \/ \E p \in Procs :
       Die(p) /\ UNCHANGED <<flavour, things>> /\ trouble' \in 0..MaxTrouble

LEMMA HomeOf == \A c \in Calls : ProcOf(c) \in Procs
  BY HomeAssumption DEF Calls, ProcOf

(* The end of a process keeps the types. *)
LEMMA DieType ==
  ASSUME SetupTypeOK, NEW p \in Procs, Die(p), UNCHANGED <<flavour, things>>,
         trouble' \in 0..MaxTrouble
  PROVE  SetupTypeOK'
<1>1. at' \in [Calls -> {"idle", "finding", "wanting", "asking", "creating",
                         "creatingDead", "attaching", "storing", "ready",
                         "publishing", "sent", "failed", "lost"}]
  BY DEF Die, SetupTypeOK
<1> QED
  BY <1>1 DEF Die, SetupTypeOK, things

LEMMA SetupTypeStep == SetupTypeOK /\ SetupStep => SetupTypeOK'
<1> SUFFICES ASSUME SetupTypeOK, SetupStep PROVE SetupTypeOK'
  OBVIOUS
<1> USE DEF SetupTypeOK, things, Go
<1>1. ASSUME NEW p \in Procs,
             SubscribeCalled(p) \/ FindSubscription(p) \/ Attach(p) \/ StoreHandler(p)
      PROVE  SetupTypeOK'
  BY <1>1 DEF SubscribeCalled, FindSubscription, Attach, StoreHandler, Calls
<1>2. ASSUME NEW c \in Calls, Lock(c) PROVE SetupTypeOK'
  BY <1>2 DEF Lock, AfterTopic
<1>3. ASSUME NEW c \in Calls, AskForTopic(c) PROVE SetupTypeOK'
  BY <1>3, HomeOf DEF AskForTopic, HaveTopic, AfterTopic
<1>4. ASSUME NEW c \in Calls, CreateTopic(c) PROVE SetupTypeOK'
  BY <1>4, HomeOf DEF CreateTopic, HaveTopic, AfterTopic
<1>5. ASSUME NEW c \in Calls, CreateDeadTopic(c) PROVE SetupTypeOK'
  BY <1>5, HomeOf DEF CreateDeadTopic, HaveTopic, AfterTopic
<1>6. ASSUME NEW m \in Messages, PublishCalled(m) \/ Confirmed(m) PROVE SetupTypeOK'
  BY <1>6 DEF PublishCalled, Confirmed, Calls
<1>7. ASSUME NEW c \in Calls, CallRefused(c) PROVE SetupTypeOK'
  BY <1>7, DieType DEF CallRefused, Fail
<1>8. ASSUME NEW c \in Calls, CallFails(c) PROVE SetupTypeOK'
  <2>1. /\ topic' \in BOOLEAN /\ deadTopic' \in BOOLEAN /\ subscription' \in BOOLEAN
        /\ flavour' \in Flavours
        /\ trouble' \in 0..MaxTrouble
    <3>1. \A a, b \in BOOLEAN : (a \/ b) \in BOOLEAN
      OBVIOUS
    <3>2. topic' \in BOOLEAN
      BY <1>8, <3>1 DEF CallFails
    <3>3. deadTopic' \in BOOLEAN
      BY <1>8, <3>1 DEF CallFails
    <3>4. subscription' \in BOOLEAN
      BY <1>8, <3>1 DEF CallFails
    <3>5. flavour' \in Flavours /\ trouble' \in 0..MaxTrouble
      BY <1>8, TroubleAssumption DEF CallFails
    <3> QED
      BY <3>2, <3>3, <3>4, <3>5
  <2>2. CASE c \in Messages /\ Go(c, "failed") /\ UNCHANGED <<exists, cached, maker, life>>
    BY <2>1, <2>2 DEF Calls
  <2>3. CASE c \in Procs /\ Die(c)
    <3>1. at' \in [Calls -> {"idle", "finding", "wanting", "asking", "creating",
                             "creatingDead", "attaching", "storing", "ready",
                             "publishing", "sent", "failed", "lost"}]
      BY <2>3 DEF Die
    <3> QED
      BY <2>1, <2>3, <3>1 DEF Die
  <2> QED
    BY <1>8, <2>2, <2>3 DEF CallFails, Fail
<1>9. ASSUME NEW p \in Procs, Restart(p) PROVE SetupTypeOK'
  BY <1>9 DEF Restart
<1> QED
  BY <1>1, <1>2, <1>3, <1>4, <1>5, <1>6, <1>7, <1>8, <1>9, DieType DEF SetupStep, GetTopic

-----------------------------------------------------------------------------
(* One call of a process at a time looks for the topic and makes it; what  *)
(* a live process has made is there, and the dead letter topic comes after *)
(* the topic.                                                              *)
Serial ==
  /\ \A c, d \in Section : ProcOf(c) = ProcOf(d) => c = d
  /\ maker["topic"] # None => topic
  /\ maker["dead"] # None => deadTopic
  /\ deadTopic => topic
  /\ \A c \in Calls : at[c] = "creatingDead" => topic
  /\ NeverBeatenByItself

(* A step in which calls only leave the section, and makers are only       *)
(* forgotten.                                                              *)
LEMMA SerialLeave ==
  ASSUME Serial, SetupTypeOK,
         \A c \in Calls : at'[c] = at[c] \/ at'[c] \notin {"asking", "creating", "creatingDead"},
         \A t \in {"topic", "dead"} : maker'[t] \in {maker[t], None},
         topic => topic', deadTopic => deadTopic', deadTopic' => topic'
  PROVE  Serial'
<1>1. \A p \in Procs : p # None
  BY NoneAssumption
<1>2. \A c \in Section' : c \in Section
  BY DEF Section
<1>3. NeverBeatenByItself'
  BY <1>1, HomeOf DEF Serial, NeverBeatenByItself, ProcOf
<1> QED
  BY <1>2, <1>3 DEF Serial, ProcOf

LEMMA SerialStep == SetupTypeOK /\ Serial /\ SetupStep => Serial'
<1> SUFFICES ASSUME SetupTypeOK, Serial, SetupStep PROVE Serial'
  OBVIOUS
<1> USE DEF SetupTypeOK, things, Go
<1>1. ASSUME NEW p \in Procs,
             SubscribeCalled(p) \/ FindSubscription(p) \/ Attach(p) \/ StoreHandler(p)
      PROVE  Serial'
  <2>1. UNCHANGED <<maker, topic, deadTopic>>
    BY <1>1 DEF SubscribeCalled, FindSubscription, Attach, StoreHandler
  <2>2. \A c \in Calls : at'[c] = at[c] \/ at'[c] \notin {"asking", "creating", "creatingDead"}
    BY <1>1 DEF SubscribeCalled, FindSubscription, Attach, StoreHandler
  <2>3. \A t \in {"topic", "dead"} : maker'[t] \in {maker[t], None}
    BY <2>1
  <2>4. deadTopic' => topic'
    BY <2>1 DEF Serial
  <2> QED
    BY <2>1, <2>2, <2>3, <2>4, SerialLeave
<1>2. ASSUME NEW c \in Calls, Lock(c) PROVE Serial'
  <2>1. at' = [at EXCEPT ![c] = IF ProcOf(c) \in cached THEN AfterTopic(c) ELSE "asking"]
    BY <1>2 DEF Lock
  <2>2. AfterTopic(c) \notin {"asking", "creating", "creatingDead"}
    BY DEF AfterTopic
  <2>3. \A d \in Section' : d = c \/ d \in Section
    BY <2>1 DEF Section
  <2>4. \A d \in Section : ProcOf(d) # ProcOf(c)
    BY <1>2 DEF Lock
  <2>5. \A d, e \in Section' : ProcOf(d) = ProcOf(e) => d = e
    BY <2>3, <2>4 DEF Serial
  <2>6. \A d \in Calls : at'[d] \in {"creating", "creatingDead"} => at'[d] = at[d]
    BY <2>1, <2>2
  <2>7. UNCHANGED <<maker, topic, deadTopic>>
    BY <1>2 DEF Lock
  <2> QED
    BY <2>5, <2>6, <2>7 DEF Serial, NeverBeatenByItself, ProcOf
<1>3. ASSUME NEW c \in Calls, AskForTopic(c) PROVE Serial'
  <2>1. UNCHANGED <<maker, topic, deadTopic>>
    BY <1>3 DEF AskForTopic
  <2>2. CASE topic /\ HaveTopic(c)
    <3>1. \A d \in Calls : at'[d] = at[d] \/ at'[d] \notin {"asking", "creating", "creatingDead"}
      BY <2>2 DEF HaveTopic, AfterTopic
    <3>2. /\ \A t \in {"topic", "dead"} : maker'[t] \in {maker[t], None}
          /\ deadTopic' => topic'
      BY <2>1 DEF Serial
    <3> QED
      BY <2>1, <3>1, <3>2, SerialLeave
  <2>3. CASE ~topic /\ Go(c, "creating")
    <3>1. Section' = Section
      BY <1>3, <2>3 DEF Section, AskForTopic
    <3>2. maker["topic"] # ProcOf(c)
      BY <2>3, HomeOf, NoneAssumption DEF Serial
    <3> QED
      BY <2>1, <2>3, <3>1, <3>2 DEF Serial, NeverBeatenByItself, ProcOf
  <2> QED
    BY <1>3, <2>2, <2>3 DEF AskForTopic
<1>4. ASSUME NEW c \in Calls, CreateTopic(c) PROVE Serial'
  <2>1. /\ c \in Section /\ at[c] = "creating" /\ ~topic /\ topic' /\ UNCHANGED deadTopic
        /\ maker' = [maker EXCEPT !["topic"] = ProcOf(c)]
        /\ at' = [at EXCEPT ![c] = at'[c]]
        /\ at'[c] \notin {"asking", "creating"}
    BY <1>4 DEF CreateTopic, Section, HaveTopic, AfterTopic
  <2>2. \A d \in Section' : d \in Section
    BY <2>1 DEF Section
  <2>3. ~deadTopic /\ maker["dead"] = None
    BY <2>1 DEF Serial
  <2>4. \A d \in Calls : at'[d] = "creating" =>
          d # c /\ at[d] = "creating" /\ maker'["topic"] # ProcOf(d)
    BY <2>1 DEF Serial, Section
  <2>5. \A d \in Calls : maker'["dead"] # ProcOf(d)
    BY <2>1, <2>3, HomeOf, NoneAssumption
  <2>6. NeverBeatenByItself'
    BY <2>4, <2>5 DEF NeverBeatenByItself, ProcOf
  <2> QED
    BY <2>1, <2>2, <2>3, <2>6 DEF Serial, ProcOf
<1>5. ASSUME NEW c \in Calls, CreateDeadTopic(c) PROVE Serial'
  <2>1. /\ c \in Section /\ at[c] = "creatingDead" /\ deadTopic' /\ UNCHANGED topic
        /\ maker' = [maker EXCEPT !["dead"] = ProcOf(c)]
        /\ at' = [at EXCEPT ![c] = at'[c]]
        /\ at'[c] \notin {"asking", "creating", "creatingDead"}
    BY <1>5 DEF CreateDeadTopic, Section, HaveTopic, AfterTopic
  <2>2. \A d \in Section' : d \in Section
    BY <2>1 DEF Section
  <2>3. \A d \in Calls : at'[d] = "creatingDead" =>
          d # c /\ at[d] = "creatingDead" /\ maker'["dead"] # ProcOf(d)
    BY <2>1 DEF Serial, Section
  <2>4. \A d \in Calls : at'[d] = "creating" => maker'["topic"] # ProcOf(d)
    BY <2>1 DEF Serial, NeverBeatenByItself
  <2>5. NeverBeatenByItself'
    BY <2>3, <2>4 DEF NeverBeatenByItself, ProcOf
  <2> QED
    BY <2>1, <2>2, <2>5 DEF Serial, ProcOf
<1>6. ASSUME NEW m \in Messages, PublishCalled(m) \/ Confirmed(m) PROVE Serial'
  <2>1. UNCHANGED <<maker, topic, deadTopic>>
    BY <1>6 DEF PublishCalled, Confirmed
  <2>2. \A c \in Calls : at'[c] = at[c] \/ at'[c] \notin {"asking", "creating", "creatingDead"}
    BY <1>6 DEF PublishCalled, Confirmed
  <2>3. /\ \A t \in {"topic", "dead"} : maker'[t] \in {maker[t], None}
        /\ deadTopic' => topic'
    BY <2>1 DEF Serial
  <2> QED
    BY <2>1, <2>2, <2>3, SerialLeave
<1>7. ASSUME NEW c \in Calls, Fail(c)
      PROVE  /\ \A d \in Calls : at'[d] = at[d] \/ at'[d] \notin {"asking", "creating", "creatingDead"}
             /\ \A t \in {"topic", "dead"} : maker'[t] \in {maker[t], None}
  BY <1>7 DEF Fail, Die
<1>8. ASSUME NEW c \in Calls, CallRefused(c) PROVE Serial'
  <2>1. Fail(c) /\ UNCHANGED <<topic, deadTopic>> /\ (deadTopic' => topic')
    BY <1>8 DEF CallRefused, Serial
  <2> QED
    BY <1>7, <2>1, SerialLeave
<1>9. ASSUME NEW c \in Calls, CallFails(c) PROVE Serial'
  <2>1. /\ Fail(c)
        /\ topic => topic'
        /\ deadTopic => deadTopic'
        /\ deadTopic' => topic'
    BY <1>9 DEF CallFails, Serial
  <2> QED
    BY <1>7, <2>1, SerialLeave
<1>10. ASSUME NEW p \in Procs, Die(p), UNCHANGED things PROVE Serial'
  <2>1. /\ \A d \in Calls : at'[d] = at[d] \/ at'[d] \notin {"asking", "creating", "creatingDead"}
        /\ \A t \in {"topic", "dead"} : maker'[t] \in {maker[t], None}
    BY <1>10 DEF Die
  <2> QED
    BY <1>10, <2>1, SerialLeave DEF Serial
<1>11. ASSUME NEW p \in Procs, Restart(p) PROVE Serial'
  BY <1>11 DEF Restart, Serial, NeverBeatenByItself, Section, ProcOf
<1> QED
  BY <1>1, <1>2, <1>3, <1>4, <1>5, <1>6, <1>8, <1>9, <1>10, <1>11 DEF SetupStep, GetTopic

-----------------------------------------------------------------------------
(* What a step of CloudRun is to TopicSetup. *)
LEMMA CloudRunSetupStep == TypeOK /\ [Next]_vars => SetupStep \/ UNCHANGED setupVars
<1> SUFFICES ASSUME TypeOK, [Next]_vars PROVE SetupStep \/ UNCHANGED setupVars
  OBVIOUS
<1> USE DEF SetupStep
<1>1. ASSUME NEW c \in Calls, Step(c) PROVE SetupStep
  BY <1>1 DEF Step, Subscribe, Publish, CallEnds, Calls
<1>2. ASSUME NEW p \in Procs, Kill(p) \/ ConcurrentMapAccess(p) PROVE SetupStep
  <2>1. trouble \in 0..MaxTrouble
    BY DEF TypeOK, SetupTypeOK
  <2>2. Die(p) /\ UNCHANGED <<flavour, things>> /\ trouble' \in 0..MaxTrouble
    BY <1>2, <2>1, TroubleAssumption DEF Kill, ConcurrentMapAccess
  <2> QED
    BY <2>2
<1>3. ASSUME NEW p \in Procs, Restart(p) PROVE SetupStep
  BY <1>3
<1>4. ASSUME NEW m \in Messages, NEW p \in Procs, NEW i \in Slots,
             Push(m, p, i) \/ PushFails(m)
      PROVE  UNCHANGED setupVars
  BY <1>4 DEF Push, PushFails
<1>5. ASSUME NEW m \in Messages, PushFails(m) PROVE UNCHANGED setupVars
  BY <1>5 DEF PushFails
<1>6. ASSUME NEW i \in Slots, Handler(i) \/ Answer(i) PROVE UNCHANGED setupVars
  BY <1>6 DEF Handler, LookUpHandler, HandlerNacks, HandlerReturns, HandlerPanics, Answer
<1> QED
  BY <1>1, <1>2, <1>3, <1>4, <1>5, <1>6 DEF Next, vars

(* A message that is not dead has attempts left; one that a request is     *)
(* waited for is pushed; one whose Publish is not through is not there.    *)
Queue ==
  \A m \in Messages :
    /\ queue[m] # "dead" => attempts[m] < MaxAttempts
    /\ current[m] # None => queue[m] = "pushed"
    /\ at[m] \notin {"sent", "failed", "lost"} => queue[m] = "none"

(* A request that is on its way has not answered, and one that answers 200 *)
(* has had its handler's consent.                                          *)
Honest ==
  \A i \in Slots :
    /\ request[i].phase = "arrived" => request[i].status = None
    /\ request[i].phase = "running" => request[i].status \in {None, "500"}
    /\ (request[i].phase = "answered" /\ request[i].status = "200") =>
         request[i].msg \in consent

PushTypeOK ==
  /\ queue    \in [Messages -> {"none", "unheard", "queued", "pushed", "acked", "dead"}]
  /\ attempts \in [Messages -> 0..MaxAttempts]
  /\ current  \in [Messages -> Slots \cup {None}]
  /\ request  \in [Slots -> Requests \cup {Free}]
  /\ consent  \in SUBSET Messages

PushInv == PushTypeOK /\ Queue /\ Honest

(* What happens to the messages and the requests in a step: *)
PushStep ==
  \/ UNCHANGED pushVars /\ \A m \in Messages : at'[m] = at[m]
  \/ \E m \in Messages :
       \/ (Land(m) \/ UNCHANGED pushVars) /\ at[m] = "publishing"
            /\ at' = [at EXCEPT ![m] = at'[m]] /\ at'[m] \in {"sent", "failed"}
       \/ UNCHANGED pushVars /\ at' = [at EXCEPT ![m] = at'[m]] /\ queue[m] = "none"
       \/ PushFails(m) /\ UNCHANGED at
       \/ \E p \in Procs, i \in Slots : Push(m, p, i) /\ UNCHANGED at
  \/ \E p \in Procs :
       /\ RequestsEnd(p)
       /\ \A m \in Messages : at'[m] = at[m] \/ at'[m] = "lost"
  \/ \E i \in Slots : (Handler(i) \/ Answer(i)) /\ UNCHANGED at

LEMMA PushSteps == TypeOK /\ Queue /\ [Next]_vars => PushStep
<1> SUFFICES ASSUME TypeOK, Queue, [Next]_vars PROVE PushStep
  OBVIOUS
<1> USE DEF PushStep, SetupTypeOK, TypeOK
<1>1. CASE UNCHANGED vars
  BY <1>1 DEF vars, setupVars
<1>2. ASSUME NEW p \in Procs, Die(p), RequestsEnd(p) PROVE PushStep
  BY <1>2, CallsAssumption DEF Die, Calls
<1>3. ASSUME NEW c \in Calls, CallEnds(c) PROVE PushStep
  <2>1. c \in Procs \/ c \in Messages
    BY DEF Calls
  <2>2. CASE c \in Procs
    <3>1. Die(c) /\ RequestsEnd(c)
      BY <1>3, <2>2, CallsAssumption DEF CallEnds, CallRefused, CallFails, Fail
    <3> QED
      BY <1>2, <2>2, <3>1
  <2>3. CASE c \in Messages
    <3>1. c \notin Procs /\ Go(c, "failed")
      BY <1>3, <2>3, CallsAssumption DEF CallEnds, CallRefused, CallFails, Fail
    <3>2. CASE at[c] = "publishing"
      BY <1>3, <2>3, <3>1, <3>2 DEF CallEnds, Go, Calls
    <3>3. CASE at[c] # "publishing"
      <4>1. at[c] \notin {"sent", "failed", "lost"}
        BY <1>3 DEF CallEnds, CallRefused, CallFails, Refused, Asking, Section
      <4>2. UNCHANGED pushVars /\ queue[c] = "none"
        BY <1>3, <2>3, <3>1, <3>3, <4>1 DEF CallEnds, Queue
      <4> QED
        BY <2>3, <3>1, <4>2 DEF Go, Calls
    <3> QED
      BY <3>2, <3>3
  <2> QED
    BY <2>1, <2>2, <2>3
<1>4. ASSUME NEW p \in Procs, Subscribe(p), UNCHANGED pushVars PROVE PushStep
  <2>1. at' = [at EXCEPT ![p] = at'[p]]
    BY <1>4 DEF Subscribe, SubscribeCalled, FindSubscription, GetTopic, Lock, AskForTopic,
       CreateTopic, CreateDeadTopic, HaveTopic, Attach, StoreHandler, Go, Calls
  <2>2. \A m \in Messages : m # p
    BY CallsAssumption
  <2> QED
    BY <1>4, <2>1, <2>2 DEF Calls
<1>5. ASSUME NEW m \in Messages, Publish(m) PROVE PushStep
  <2>1. CASE Confirmed(m) /\ Land(m)
    BY <2>1 DEF Confirmed, Go, Calls
  <2>2. CASE (PublishCalled(m) \/ GetTopic(m)) /\ UNCHANGED pushVars
    <3>1. at[m] \notin {"sent", "failed", "lost"} /\ at' = [at EXCEPT ![m] = at'[m]]
      BY <2>2 DEF PublishCalled, GetTopic, Lock, AskForTopic, CreateTopic,
         CreateDeadTopic, HaveTopic, Go, Calls
    <3> QED
      BY <2>2, <3>1 DEF Queue
  <2> QED
    BY <1>5, <2>1, <2>2 DEF Publish
<1>6. ASSUME NEW p \in Procs, (Kill(p) /\ RequestsEnd(p)) \/ ConcurrentMapAccess(p)
      PROVE  PushStep
  BY <1>2, <1>6 DEF Kill, ConcurrentMapAccess
<1>7. ASSUME NEW p \in Procs, Restart(p), UNCHANGED pushVars PROVE PushStep
  BY <1>7 DEF Restart
<1>8. ASSUME NEW m \in Messages, NEW p \in Procs, NEW i \in Slots, Push(m, p, i)
      PROVE  PushStep
  BY <1>8 DEF Push, setupVars
<1>9. ASSUME NEW m \in Messages, PushFails(m) PROVE PushStep
  BY <1>9 DEF PushFails, setupVars
<1>10. ASSUME NEW i \in Slots, Handler(i) \/ Answer(i) PROVE PushStep
  BY <1>10 DEF Handler, LookUpHandler, HandlerNacks, HandlerReturns, HandlerPanics, Answer,
     setupVars
<1> QED
  BY <1>1, <1>3, <1>4, <1>5, <1>6, <1>7, <1>8, <1>9, <1>10 DEF Next, Step

-----------------------------------------------------------------------------
(* A failed push counts, and the message is queued again or dead. *)
LEMMA FailedType ==
  ASSUME PushTypeOK, NEW m \in Messages, attempts[m] < MaxAttempts, Failed(m)
  PROVE  /\ queue' \in [Messages -> {"none", "unheard", "queued", "pushed", "acked", "dead"}]
         /\ attempts' \in [Messages -> 0..MaxAttempts]
         /\ current' \in [Messages -> Slots \cup {None}]
         /\ queue'[m] # "dead" => attempts'[m] < MaxAttempts
  BY AttemptsAssumption DEF PushTypeOK, Failed

(* A request in a handler keeps its type, and may have answered 500.       *)
LEMMA HandlerType ==
  ASSUME PushTypeOK, Honest, NEW i \in Slots, Handler(i)
  PROVE  /\ request' \in [Slots -> Requests \cup {Free}]
         /\ consent' \in SUBSET Messages
         /\ Honest'
<1> USE DEF PushTypeOK, Requests, Free
<1>1. request[i].phase \in {"arrived", "running"} =>
        request[i] \in Requests
  OBVIOUS
<1>2. CASE LookUpHandler(i)
  <2> USE DEF LookUpHandler, Wrote
  <2>1. request[i] \in Requests /\ UNCHANGED consent
    BY <1>1, <1>2
  <2>2. \E r \in Requests : /\ request' = [request EXCEPT ![i] = r]
                            /\ r.phase = "running" => r.status = None
                            /\ r.phase \in {"running", "answered"} /\ r.status # "200"
    <3>1. CASE request' = [request EXCEPT ![i].phase = "running"]
      <4> DEFINE r == [request[i] EXCEPT !.phase = "running"]
      <4>1. request' = [request EXCEPT ![i] = r]
        BY <3>1
      <4>2. r \in Requests /\ r.phase = "running" /\ r.status = None
        BY <1>2, <2>1 DEF Honest
      <4> QED
        BY <4>1, <4>2 DEF None
    <3>2. CASE request' = [request EXCEPT ![i] = [Wrote(@, "500") EXCEPT !.phase = "answered"]]
      <4> DEFINE r == [Wrote(request[i], "500") EXCEPT !.phase = "answered"]
      <4>1. request' = [request EXCEPT ![i] = r]
        BY <3>2
      <4>2. r \in Requests /\ r.phase = "answered" /\ r.status = "500"
        BY <1>2, <2>1 DEF Honest
      <4> QED
        BY <4>1, <4>2
    <3> QED
      BY <1>2, <3>1, <3>2
  <2> QED
    BY <2>1, <2>2 DEF Honest
<1>3. CASE HandlerNacks(i)
  <2> DEFINE r == Wrote(request[i], "500")
  <2>1. request[i] \in Requests /\ request' = [request EXCEPT ![i] = r] /\ UNCHANGED consent
    BY <1>1, <1>3 DEF HandlerNacks
  <2>2. r \in Requests /\ r.phase = "running" /\ r.status = "500"
    BY <1>3, <2>1 DEF HandlerNacks, Honest, Wrote
  <2> QED
    BY <2>1, <2>2 DEF Honest
<1>4. CASE HandlerReturns(i)
  <2>1. request[i] \in Requests
    BY <1>1, <1>4 DEF HandlerReturns
  <2>2. consent \subseteq consent' /\ consent' \in SUBSET Messages
    BY <1>4, <2>1 DEF HandlerReturns
  <2>3. ASSUME NEW status \in {"200", "400"},
               request' = [request EXCEPT ![i] =
                             [Wrote(@, status) EXCEPT !.phase = "answered"]],
               (status = "200" /\ request[i].status = None) => request[i].msg \in consent'
        PROVE  request' \in [Slots -> Requests \cup {Free}] /\ Honest'
    <3> DEFINE r == [Wrote(request[i], status) EXCEPT !.phase = "answered"]
    <3>1. request' = [request EXCEPT ![i] = r]
      BY <2>3
    <3>2. r \in Requests /\ r.phase = "answered" /\ r.msg = request[i].msg
      BY <2>1 DEF Wrote
    <3>3. r.status = "200" => status = "200" /\ request[i].status = None
      BY <1>4, <2>1 DEF Wrote, Honest, HandlerReturns, None
    <3> QED
      BY <2>2, <2>3, <3>1, <3>2, <3>3 DEF Honest
  <2> QED
    BY <1>4, <2>2, <2>3 DEF HandlerReturns
<1>5. CASE HandlerPanics(i)
  <2> DEFINE r == [[request[i] EXCEPT !.status = "aborted"] EXCEPT !.phase = "answered"]
  <2>1. request[i] \in Requests /\ request' = [request EXCEPT ![i] = r] /\ UNCHANGED consent
    BY <1>1, <1>5 DEF HandlerPanics
  <2>2. r \in Requests /\ r.phase = "answered" /\ r.status = "aborted"
    BY <2>1
  <2> QED
    BY <2>1, <2>2 DEF Honest
<1> QED
  BY <1>2, <1>3, <1>4, <1>5 DEF Handler

(* Every step keeps the types and the two facts about messages and         *)
(* requests.                                                               *)
LEMMA PushInvStep == SetupTypeOK /\ PushInv /\ PushStep => PushInv'
<1> SUFFICES ASSUME SetupTypeOK, PushInv, PushStep PROVE PushInv'
  OBVIOUS
<1>a. PushTypeOK /\ Queue /\ Honest
  BY DEF PushInv
<1>b. at = [c \in Calls |-> at[c]]
  BY DEF SetupTypeOK
<1>c. Messages \subseteq Calls
  BY DEF Calls
<1>1. CASE UNCHANGED pushVars /\ \A m \in Messages : at'[m] = at[m]
  BY <1>a, <1>1 DEF PushInv, PushTypeOK, Queue, Honest, pushVars
<1>2. ASSUME NEW m \in Messages, UNCHANGED pushVars, at' = [at EXCEPT ![m] = at'[m]],
             at'[m] \in {"sent", "failed"} \/ queue[m] = "none"
      PROVE  PushInv'
  BY <1>a, <1>b, <1>c, <1>2 DEF PushInv, PushTypeOK, Queue, Honest, pushVars
<1>3. ASSUME NEW m \in Messages, Land(m), at[m] = "publishing",
             at' = [at EXCEPT ![m] = at'[m]], at'[m] \in {"sent", "failed"}
      PROVE  PushInv'
  <2>1. queue[m] = "none"
    BY <1>a, <1>3 DEF Queue
  <2> QED
    BY <1>a, <1>b, <1>c, <1>3, <2>1 DEF PushInv, PushTypeOK, Queue, Honest, Land
<1>4. ASSUME NEW m \in Messages, PushFails(m), UNCHANGED at PROVE PushInv'
  <2>1. attempts[m] < MaxAttempts /\ queue[m] \in {"queued", "pushed"} /\ Failed(m)
    BY <1>a, <1>4 DEF PushFails, Queue
  <2>2. PushTypeOK' /\ Honest'
    BY <1>a, <1>4, <2>1, FailedType DEF PushTypeOK, Honest, PushFails
  <2>3. \A n \in Messages \ {m} :
          queue'[n] = queue[n] /\ attempts'[n] = attempts[n] /\ current'[n] = current[n]
    BY <1>a, <2>1 DEF PushTypeOK, Failed
  <2>4. current'[m] = None /\ (queue'[m] # "dead" => attempts'[m] < MaxAttempts)
    BY <1>a, <2>1, FailedType DEF PushTypeOK, Failed
  <2>5. Queue'
    BY <1>a, <1>4, <2>1, <2>3, <2>4 DEF Queue
  <2> QED
    BY <2>2, <2>5 DEF PushInv
<1>5. ASSUME NEW m \in Messages, NEW p \in Procs, NEW i \in Slots, Push(m, p, i),
             UNCHANGED at
      PROVE  PushInv'
  <2> DEFINE r == [phase |-> "arrived", msg |-> m, proc |-> p, status |-> None]
  <2>1. r \in Requests
    BY DEF Requests
  <2>2. request' = [request EXCEPT ![i] = r] /\ UNCHANGED <<attempts, consent>>
    BY <1>5 DEF Push
  <2>3. PushTypeOK'
    BY <1>a, <1>5, <2>1, <2>2 DEF PushTypeOK, Push
  <2>4. Honest'
    BY <1>a, <2>2 DEF PushTypeOK, Honest
  <2>5. Queue'
    BY <1>a, <1>5 DEF PushTypeOK, Queue, Push
  <2> QED
    BY <2>3, <2>4, <2>5 DEF PushInv
<1>6. ASSUME NEW p \in Procs, RequestsEnd(p),
             \A m \in Messages : at'[m] = at[m] \/ at'[m] = "lost"
      PROVE  PushInv'
  BY <1>a, <1>6 DEF PushInv, PushTypeOK, Queue, Honest, RequestsEnd, Free
<1>7. ASSUME NEW i \in Slots, Handler(i), UNCHANGED at PROVE PushInv'
  <2>1. UNCHANGED <<queue, attempts, current>>
    BY <1>7 DEF Handler, LookUpHandler, HandlerNacks, HandlerReturns, HandlerPanics
  <2> QED
    BY <1>a, <1>7, <2>1, HandlerType DEF PushInv, PushTypeOK, Queue
<1>8. ASSUME NEW i \in Slots, Answer(i), UNCHANGED at PROVE PushInv'
  <2> DEFINE m == request[i].msg
  <2>1. m \in Messages
    BY <1>a, <1>8 DEF Answer, PushTypeOK, Requests, Free
  <2>2. /\ request' = [request EXCEPT ![i] = Free]
        /\ request' \in [Slots -> Requests \cup {Free}]
        /\ UNCHANGED consent
    BY <1>a, <1>8 DEF Answer, PushTypeOK
  <2>3. Honest'
    BY <1>a, <2>2 DEF PushTypeOK, Honest, Free
  <2>4. CASE current[m] # i
    <3>1. UNCHANGED <<queue, attempts, current>>
      BY <1>8, <2>4 DEF Answer
    <3> QED
      BY <1>a, <1>8, <2>2, <2>3, <3>1 DEF PushInv, PushTypeOK, Queue
  <2>5. CASE current[m] = i
    <3>1. queue[m] = "pushed" /\ attempts[m] < MaxAttempts
      BY <1>a, <2>1, <2>5, SlotsAssumption DEF Queue
    <3>2. CASE request[i].status = "200"
      <4>1. /\ queue' = [queue EXCEPT ![m] = "acked"]
            /\ current' = [current EXCEPT ![m] = None]
            /\ UNCHANGED attempts
        BY <1>8, <2>5, <3>2 DEF Answer
      <4> QED
        BY <1>a, <1>8, <2>1, <2>2, <2>3, <3>1, <4>1 DEF PushInv, PushTypeOK, Queue
    <3>3. CASE request[i].status # "200"
      <4>1. Failed(m)
        BY <1>8, <2>5, <3>3 DEF Answer
      <4>2. PushTypeOK'
        BY <1>a, <2>1, <2>2, <3>1, <4>1, FailedType DEF PushTypeOK
      <4>3. \A n \in Messages \ {m} :
              queue'[n] = queue[n] /\ attempts'[n] = attempts[n] /\ current'[n] = current[n]
        BY <1>a, <4>1 DEF PushTypeOK, Failed
      <4>4. current'[m] = None /\ (queue'[m] # "dead" => attempts'[m] < MaxAttempts)
        BY <1>a, <2>1, <3>1, <4>1, FailedType DEF PushTypeOK, Failed
      <4>5. Queue'
        BY <1>a, <1>8, <2>1, <3>1, <4>3, <4>4 DEF Queue
      <4> QED
        BY <2>3, <4>2, <4>5 DEF PushInv
    <3> QED
      BY <3>2, <3>3
  <2> QED
    BY <2>4, <2>5
<1> QED
  BY <1>1, <1>2, <1>3, <1>4, <1>5, <1>6, <1>7, <1>8 DEF PushStep

-----------------------------------------------------------------------------
(* What holds in every state of a process and of the service. *)
Inv == TypeOK /\ Serial /\ Queue /\ Honest

LEMMA InitInv == Init => Inv
<1> SUFFICES ASSUME Init PROVE Inv
  OBVIOUS
<1> USE DEF Init, SetupInit
<1>1. SetupTypeOK
  <2>1. flavour \in Flavours /\ cached \in SUBSET Procs /\ trouble \in 0..MaxTrouble
    BY TroubleAssumption
  <2>2. topic \in BOOLEAN /\ deadTopic \in BOOLEAN /\ subscription \in BOOLEAN
    OBVIOUS
  <2>3. /\ at \in [Calls -> {"idle", "finding", "wanting", "asking", "creating",
                            "creatingDead", "attaching", "storing", "ready",
                            "publishing", "sent", "failed", "lost"}]
        /\ exists \in [Procs -> BOOLEAN]
        /\ maker \in [{"topic", "dead"} -> Procs \cup {None}]
        /\ life \in [Procs -> {"up", "down"}]
    OBVIOUS
  <2> QED
    BY <2>1, <2>2, <2>3 DEF SetupTypeOK
<1>2. PushTypeOK
  BY AttemptsAssumption DEF PushTypeOK
<1>3. Serial
  BY DEF Serial, Section, NeverBeatenByItself
<1>4. Queue /\ Honest
  BY AttemptsAssumption DEF Queue, Honest, Free, Calls
<1> QED
  BY <1>1, <1>2, <1>3, <1>4 DEF Inv, TypeOK, PushTypeOK

LEMMA InvStep == Inv /\ [Next]_vars => Inv'
<1> SUFFICES ASSUME Inv, [Next]_vars PROVE Inv'
  OBVIOUS
<1>1. SetupTypeOK' /\ Serial'
  <2>1. CASE SetupStep
    BY <2>1, SetupTypeStep, SerialStep DEF Inv, TypeOK
  <2>2. CASE UNCHANGED setupVars
    BY <2>2 DEF Inv, TypeOK, SetupTypeOK, Serial, Section, NeverBeatenByItself, ProcOf,
       setupVars, things
  <2> QED
    BY <2>1, <2>2, CloudRunSetupStep DEF Inv
<1>2. PushInv'
  BY PushSteps, PushInvStep DEF Inv, TypeOK, PushInv, PushTypeOK
<1> QED
  BY <1>1, <1>2 DEF Inv, TypeOK, PushInv, PushTypeOK

THEOREM Invariance == Spec => []Inv
<1> QED
  BY InitInv, InvStep, PTL DEF Spec

(* Every variable of TopicSetup and CloudRun keeps its type.               *)
THEOREM TypeCorrect == Spec => []TypeOK
<1>1. Inv => TypeOK
  BY DEF Inv
<1> QED
  BY <1>1, Invariance, PTL

(* Within a process the look-up of a topic and its creation are one, for   *)
(* any number of calls in any number of processes.                         *)
THEOREM NeverBeatenByItselfHolds == Spec => []NeverBeatenByItself
<1>1. Inv => NeverBeatenByItself
  BY DEF Inv, Serial
<1> QED
  BY <1>1, Invariance, PTL

-----------------------------------------------------------------------------
(* At-least-once delivery. *)

LEMMA FateStep ==
  Inv /\ [Next]_vars => [Promise!Next]_(Promise!vars)
<1> SUFFICES ASSUME Inv, [Next]_vars PROVE [Promise!Next]_(Promise!vars)
  OBVIOUS
<1> DEFINE fate == [m \in Messages |-> FateOf(m)]
<1>1. PushStep /\ PushTypeOK /\ Queue /\ Honest
  BY PushSteps DEF Inv, TypeOK, PushTypeOK
<1>2. (fate' = fate /\ UNCHANGED consent) => UNCHANGED Promise!vars
  BY DEF Promise!vars
<1>3. (UNCHANGED <<queue, consent>>) => UNCHANGED Promise!vars
  BY <1>2 DEF FateOf
<1>4. ASSUME NEW m \in Messages, queue' = [queue EXCEPT ![m] = queue'[m]],
             queue[m] \notin {"acked", "dead"}, queue'[m] \notin {"acked", "dead"},
             UNCHANGED consent
      PROVE  UNCHANGED Promise!vars
  <2>1. \A n \in Messages : FateOf(n)' = FateOf(n)
    BY <1>1, <1>4 DEF FateOf, PushTypeOK
  <2> QED
    BY <1>2, <1>4, <2>1
<1>5. ASSUME NEW m \in Messages, Failed(m), queue[m] \in {"queued", "pushed"},
             UNCHANGED consent
      PROVE  [Promise!Next]_(Promise!vars)
  <2>1. queue' = [queue EXCEPT ![m] = queue'[m]] /\ queue'[m] \in {"queued", "dead"}
    BY <1>1, <1>5 DEF Failed, PushTypeOK
  <2>2. CASE queue'[m] = "queued"
    BY <1>4, <1>5, <2>1, <2>2
  <2>3. CASE queue'[m] = "dead"
    <3>1. /\ fate[m] = "open"
          /\ fate' = [n \in Messages |-> IF n \in {m} THEN "expired" ELSE fate[n]]
      BY <1>1, <1>5, <2>1, <2>3 DEF FateOf, PushTypeOK
    <3>2. Promise!Expire({m})
      BY <1>5, <3>1 DEF Promise!Expire
    <3> QED
      BY <3>2 DEF Promise!Next
  <2> QED
    BY <2>1, <2>2, <2>3
<1>6. ASSUME NEW i \in Slots, Handler(i) PROVE [Promise!Next]_(Promise!vars)
  <2>1. UNCHANGED queue /\ fate' = fate
    BY <1>6 DEF Handler, LookUpHandler, HandlerNacks, HandlerReturns, HandlerPanics, FateOf
  <2>2. CASE UNCHANGED consent
    BY <1>2, <2>1, <2>2
  <2>3. CASE consent' = consent \cup {request[i].msg} /\ HandlerReturns(i)
    <3>1. request[i].msg \in Messages
      BY <1>1, <2>3 DEF HandlerReturns, PushTypeOK, Requests, Free
    <3>2. Promise!Handle(request[i].msg)
      BY <2>1, <2>3 DEF Promise!Handle
    <3> QED
      BY <3>1, <3>2 DEF Promise!Next
  <2> QED
    BY <1>6, <2>2, <2>3
       DEF Handler, LookUpHandler, HandlerNacks, HandlerReturns, HandlerPanics
<1>7. ASSUME NEW i \in Slots, Answer(i) PROVE [Promise!Next]_(Promise!vars)
  <2> DEFINE m == request[i].msg
  <2>1. m \in Messages /\ UNCHANGED consent
    BY <1>1, <1>7 DEF Answer, PushTypeOK, Requests, Free
  <2>2. CASE current[m] # i
    BY <1>3, <1>7, <2>1, <2>2 DEF Answer
  <2>3. CASE current[m] = i /\ request[i].status # "200"
    <3>1. Failed(m) /\ queue[m] = "pushed"
      BY <1>1, <1>7, <2>1, <2>3, SlotsAssumption DEF Answer, Queue
    <3> QED
      BY <1>5, <2>1, <3>1
  <2>4. CASE current[m] = i /\ request[i].status = "200"
    <3>1. queue' = [queue EXCEPT ![m] = "acked"] /\ queue[m] = "pushed" /\ m \in consent
      BY <1>1, <1>7, <2>1, <2>4, SlotsAssumption DEF Answer, Queue, Honest
    <3>2. fate[m] = "open" /\ fate' = [fate EXCEPT ![m] = "settled"]
      BY <1>1, <2>1, <3>1 DEF FateOf, PushTypeOK
    <3>3. Promise!Settle(m)
      BY <2>1, <3>1, <3>2 DEF Promise!Settle
    <3> QED
      BY <2>1, <3>3 DEF Promise!Next
  <2> QED
    BY <2>2, <2>3, <2>4
<1>8. ASSUME NEW m \in Messages, PushFails(m) PROVE [Promise!Next]_(Promise!vars)
  BY <1>5, <1>8 DEF PushFails
<1>9. ASSUME NEW m \in Messages, Land(m), at[m] = "publishing"
      PROVE  [Promise!Next]_(Promise!vars)
  <2>1. queue[m] = "none"
    BY <1>1, <1>9 DEF Queue
  <2> QED
    BY <1>1, <1>4, <1>9, <2>1 DEF Land, PushTypeOK
<1>10. ASSUME NEW m \in Messages, NEW p \in Procs, NEW i \in Slots, Push(m, p, i)
       PROVE  [Promise!Next]_(Promise!vars)
  BY <1>1, <1>4, <1>10 DEF Push, PushTypeOK
<1> QED
  BY <1>1, <1>3, <1>6, <1>7, <1>8, <1>9, <1>10 DEF PushStep, pushVars, RequestsEnd

(* Whatever pushes, answers, processes and failures do, a message leaves   *)
(* the queue only for the dead letter topic or after a handler was done    *)
(* with it: CloudRun implements AtLeastOnce.                               *)
THEOREM DeliversAtLeastOnceHolds == Spec => DeliversAtLeastOnce
<1>1. Init => Promise!Init
  BY DEF Init, Promise!Init, FateOf
<1>2. Inv /\ [Next]_vars => [Promise!Next]_(Promise!vars)
  BY FateStep
<1> QED
  BY <1>1, <1>2, Invariance, PTL DEF Spec, DeliversAtLeastOnce, Promise!Spec

-----------------------------------------------------------------------------
(* A topic that was left without its dead letter topic. *)

(* The topic of googlecloudrun is there, so that getTopic makes nothing    *)
(* any more, the dead letter topic is not, and nobody is about to make it. *)
HalfMade ==
  /\ ~Google
  /\ topic
  /\ ~deadTopic
  /\ \A c \in Calls : at[c] # "creatingDead"

(* No process is subscribed or about to be, and no message has a queue.    *)
Deaf ==
  /\ ~subscription
  /\ \A p \in Procs : at[p] \notin {"storing", "ready"}
  /\ \A m \in Messages : queue[m] \in {"none", "unheard"}

(* In googlecloudrun a subscription comes after the dead letter topic, and *)
(* handlers and queues come after a subscription.                          *)
InOrder == IF subscription THEN deadTopic ELSE Deaf

(* A step of TopicSetup takes no topic or subscription away, makes a dead  *)
(* letter topic only in the call that is about to, and gets a call there   *)
(* only by making the topic.                                               *)
LEMMA ThingsStep ==
  ASSUME SetupTypeOK, SetupStep
  PROVE  /\ flavour' = flavour
         /\ topic => topic'
         /\ deadTopic => deadTopic'
         /\ subscription => subscription'
         /\ (deadTopic' /\ ~deadTopic) => \E c \in Calls : at[c] = "creatingDead"
         /\ \A c \in Calls : at'[c] = "creatingDead" => at[c] = "creatingDead" \/ ~topic
<1> USE DEF SetupTypeOK, things, Go
<1>1. ASSUME NEW p \in Procs, Die(p)
      PROVE  \A c \in Calls : at'[c] = "creatingDead" => at[c] = "creatingDead"
  BY <1>1 DEF Die
<1>2. ASSUME NEW c \in Calls, Fail(c)
      PROVE  \A d \in Calls : at'[d] = "creatingDead" => at[d] = "creatingDead"
  BY <1>1, <1>2 DEF Fail
<1>3. ASSUME NEW p \in Procs,
             SubscribeCalled(p) \/ FindSubscription(p) \/ StoreHandler(p) \/ Restart(p)
      PROVE  /\ UNCHANGED <<flavour, things>>
             /\ \A c \in Calls : at'[c] = "creatingDead" => at[c] = "creatingDead"
  BY <1>3 DEF SubscribeCalled, FindSubscription, StoreHandler, Restart
<1>4. ASSUME NEW p \in Procs, Attach(p)
      PROVE  /\ UNCHANGED <<flavour, topic, deadTopic>> /\ subscription'
             /\ \A c \in Calls : at'[c] = "creatingDead" => at[c] = "creatingDead"
  BY <1>4 DEF Attach
<1>5. ASSUME NEW m \in Messages, PublishCalled(m) \/ Confirmed(m)
      PROVE  /\ UNCHANGED <<flavour, things>>
             /\ \A c \in Calls : at'[c] = "creatingDead" => at[c] = "creatingDead"
  BY <1>5 DEF PublishCalled, Confirmed
<1>6. ASSUME NEW c \in Calls, Lock(c) \/ AskForTopic(c)
      PROVE  /\ UNCHANGED <<flavour, things>>
             /\ \A d \in Calls : at'[d] = "creatingDead" => at[d] = "creatingDead"
  BY <1>6 DEF Lock, AskForTopic, HaveTopic, AfterTopic
<1>7. ASSUME NEW c \in Calls, CreateTopic(c)
      PROVE  UNCHANGED <<flavour, deadTopic, subscription>> /\ ~topic /\ topic'
  BY <1>7 DEF CreateTopic
<1>8. ASSUME NEW c \in Calls, CreateDeadTopic(c)
      PROVE  /\ UNCHANGED <<flavour, topic, subscription>>
             /\ deadTopic' /\ at[c] = "creatingDead"
             /\ \A d \in Calls : at'[d] = "creatingDead" => at[d] = "creatingDead"
  BY <1>8 DEF CreateDeadTopic, HaveTopic, AfterTopic
<1>9. ASSUME NEW c \in Calls, CallRefused(c)
      PROVE  UNCHANGED <<flavour, things>> /\ Fail(c)
  BY <1>9 DEF CallRefused
<1>10. ASSUME NEW c \in Calls, CallFails(c)
       PROVE  /\ Fail(c) /\ UNCHANGED flavour
              /\ topic => topic'
              /\ deadTopic => deadTopic'
              /\ subscription => subscription'
              /\ (deadTopic' /\ ~deadTopic) => at[c] = "creatingDead"
  BY <1>10 DEF CallFails
<1> QED
  BY <1>1, <1>2, <1>3, <1>4, <1>5, <1>6, <1>7, <1>8, <1>9, <1>10 DEF SetupStep, GetTopic

(* The subscription comes after the dead letter topic, and the handlers    *)
(* come after the subscription.                                            *)
LEMMA AttachedInOrder ==
  ASSUME SetupTypeOK, SetupStep, ~Google, subscription => deadTopic,
         ~subscription => \A p \in Procs : at[p] \notin {"storing", "ready"}
  PROVE  /\ subscription' => deadTopic'
         /\ ~subscription' => \A p \in Procs : at'[p] \notin {"storing", "ready"}
<1> USE DEF SetupTypeOK, things, Go
<1> DEFINE Nobody == \A p \in Procs : at'[p] \notin {"storing", "ready"} \/ at'[p] = at[p]
<1>1. /\ flavour' = flavour
      /\ deadTopic => deadTopic'
      /\ subscription => subscription'
  BY ThingsStep
<1>2. ASSUME subscription \/ ~subscription', Nobody
      PROVE  /\ subscription' => deadTopic'
             /\ ~subscription' => \A p \in Procs : at'[p] \notin {"storing", "ready"}
  BY <1>1, <1>2
<1>3. ASSUME NEW p \in Procs, SubscribeCalled(p) \/ FindSubscription(p) \/ StoreHandler(p)
      PROVE  /\ subscription' = subscription
             /\ subscription \/ Nobody
  <2>1. CASE SubscribeCalled(p)
    BY <2>1 DEF SubscribeCalled
  <2>2. CASE FindSubscription(p)
    BY <2>2 DEF FindSubscription
  <2>3. CASE StoreHandler(p)
    BY <2>3 DEF StoreHandler
  <2> QED
    BY <1>3, <2>1, <2>2, <2>3
<1>4. ASSUME NEW p \in Procs, Restart(p) \/ Die(p) PROVE Nobody
  BY <1>4, CallsAssumption DEF Restart, Die, Calls
<1>5. ASSUME NEW p \in Procs, Attach(p) PROVE subscription' /\ deadTopic'
  BY <1>5 DEF Attach, CanAttach
<1>6. ASSUME NEW m \in Messages, PublishCalled(m) \/ Confirmed(m)
      PROVE  subscription' = subscription /\ Nobody
  BY <1>6, CallsAssumption DEF PublishCalled, Confirmed, Calls
<1>7. ASSUME NEW c \in Calls, GetTopic(c)
      PROVE  subscription' = subscription /\ Nobody
  <2>1. AfterTopic(c) \notin {"storing", "ready"}
    BY DEF AfterTopic
  <2>a. ASSUME NEW place, place \notin {"storing", "ready"}, Go(c, place) PROVE Nobody
    BY <2>a
  <2> HIDE DEF Nobody, Go
  <2>2. HaveTopic(c) => Nobody
    BY <2>1, <2>a DEF HaveTopic
  <2>3. CASE Lock(c)
    <3>1. (IF ProcOf(c) \in cached THEN AfterTopic(c) ELSE "asking") \notin {"storing", "ready"}
      BY <2>1
    <3> QED
      BY <2>3, <2>a, <3>1 DEF Lock
  <2>4. CASE AskForTopic(c)
    BY <2>2, <2>4, <2>a DEF AskForTopic
  <2>5. CASE CreateTopic(c)
    BY <2>2, <2>5, <2>a DEF CreateTopic
  <2>6. CASE CreateDeadTopic(c)
    BY <2>2, <2>6 DEF CreateDeadTopic
  <2> QED
    BY <1>7, <2>3, <2>4, <2>5, <2>6 DEF GetTopic
<1>8. ASSUME NEW c \in Calls, Fail(c) PROVE Nobody
  BY <1>4, <1>8, CallsAssumption DEF Fail, Calls
<1>9. ASSUME NEW c \in Calls, CallRefused(c) PROVE subscription' = subscription /\ Nobody
  BY <1>8, <1>9 DEF CallRefused
<1>10. ASSUME NEW c \in Calls, CallFails(c)
       PROVE  /\ Nobody
              /\ (subscription' /\ ~subscription) => deadTopic'
  <2>1. Nobody
    BY <1>8, <1>10 DEF CallFails
  <2>2. subscription' \in {subscription, (at[c] = "attaching" /\ CanAttach(c)) \/ subscription}
    BY <1>10 DEF CallFails
  <2>3. (subscription' /\ ~subscription) => deadTopic
    BY <2>2 DEF CanAttach
  <2> QED
    BY <1>1, <2>1, <2>3
<1> HIDE DEF Nobody
<1>11. ASSUME NEW p \in Procs, Die(p), UNCHANGED things
       PROVE  subscription' = subscription /\ Nobody
  BY <1>4, <1>11
<1>12. ASSUME NEW p \in Procs, Restart(p)
       PROVE  subscription' = subscription /\ Nobody
  BY <1>4, <1>12 DEF Restart
<1> QED
  BY <1>1, <1>2, <1>3, <1>5, <1>6, <1>7, <1>9, <1>10, <1>11, <1>12 DEF SetupStep

(* A message has a queue only after the subscription.                      *)
LEMMA QueuedInOrder ==
  ASSUME Inv, [Next]_vars, ~subscription,
         \A m \in Messages : queue[m] \in {"none", "unheard"}
  PROVE  \A m \in Messages : queue'[m] \in {"none", "unheard"}
<1>1. PushStep /\ PushTypeOK /\ Queue
  BY PushSteps DEF Inv, TypeOK, PushTypeOK
<1>2. ASSUME NEW m \in Messages, Land(m)
      PROVE  \A n \in Messages : queue'[n] \in {"none", "unheard"}
  BY <1>1, <1>2 DEF Land, PushTypeOK
<1>3. ASSUME NEW m \in Messages, NEW p \in Procs, NEW i \in Slots,
             PushFails(m) \/ Push(m, p, i)
      PROVE  FALSE
  BY <1>3 DEF PushFails, Push
<1>4. ASSUME NEW m \in Messages, PushFails(m) PROVE FALSE
  BY <1>4 DEF PushFails
<1>5. ASSUME NEW i \in Slots, Handler(i) PROVE UNCHANGED queue
  BY <1>5 DEF Handler, LookUpHandler, HandlerNacks, HandlerReturns, HandlerPanics
<1>6. ASSUME NEW i \in Slots, Answer(i) PROVE UNCHANGED queue
  <2> DEFINE m == request[i].msg
  <2>1. m \in Messages
    BY <1>1, <1>6 DEF Answer, PushTypeOK, Requests, Free
  <2>2. current[m] # i
    BY <1>1, <2>1, <1>6, SlotsAssumption DEF Queue, Answer
  <2> QED
    BY <1>6, <2>2 DEF Answer
<1> QED
  BY <1>1, <1>2, <1>3, <1>4, <1>5, <1>6 DEF PushStep, pushVars, RequestsEnd

LEMMA InOrderStep == Inv /\ (~Google => InOrder) /\ [Next]_vars => (~Google => InOrder)'
<1> SUFFICES ASSUME Inv, ~Google => InOrder, [Next]_vars, ~Google' PROVE InOrder'
  OBVIOUS
<1>1. SetupTypeOK /\ (SetupStep \/ UNCHANGED setupVars)
  BY CloudRunSetupStep DEF Inv, TypeOK
<1>2. ~Google /\ InOrder /\ (subscription => subscription')
  <2>1. flavour' = flavour /\ (subscription => subscription')
    BY <1>1, ThingsStep DEF setupVars, things
  <2> QED
    BY <2>1 DEF Google
<1>3. /\ subscription' => deadTopic'
      /\ ~subscription' => \A p \in Procs : at'[p] \notin {"storing", "ready"}
  <2>1. /\ subscription => deadTopic
        /\ ~subscription => \A p \in Procs : at[p] \notin {"storing", "ready"}
    BY <1>2 DEF InOrder, Deaf
  <2>2. CASE SetupStep
    BY <1>1, <1>2, <2>1, <2>2, AttachedInOrder
  <2>3. CASE UNCHANGED setupVars
    BY <2>1, <2>3 DEF setupVars, things
  <2> QED
    BY <1>1, <2>2, <2>3
<1>4. ~subscription' => \A m \in Messages : queue'[m] \in {"none", "unheard"}
  BY <1>2, QueuedInOrder DEF InOrder, Deaf
<1> QED
  BY <1>3, <1>4 DEF InOrder, Deaf

(* When the process dies, or the service fails, between the two calls of   *)
(* getTopic that make a topic and its dead letter topic, nothing ever      *)
(* repairs it.  Every later getTopic finds the topic and makes nothing, so *)
(* that no Subscribe gets through and no message is queued, in any         *)
(* process, for good.                                                      *)
THEOREM HalfMadeIsForever == Spec => [](HalfMade => [](HalfMade /\ Deaf))
<1>1. Init => (~Google => InOrder)
  BY CallsAssumption DEF Init, SetupInit, InOrder, Deaf, Calls
<1>2. Inv /\ HalfMade /\ [Next]_vars => HalfMade'
  <2> SUFFICES ASSUME Inv, HalfMade, [Next]_vars PROVE HalfMade'
    OBVIOUS
  <2>1. CASE SetupStep
    BY <2>1, ThingsStep DEF Inv, TypeOK, HalfMade, Google, SetupTypeOK
  <2>2. CASE UNCHANGED setupVars
    BY <2>2 DEF setupVars, things, HalfMade, Google
  <2> QED
    BY <2>1, <2>2, CloudRunSetupStep DEF Inv
<1>3. (~Google => InOrder) /\ HalfMade => Deaf
  BY DEF HalfMade, InOrder
<1> QED
  BY <1>1, <1>2, <1>3, InOrderStep, Invariance, PTL DEF Spec
=============================================================================
