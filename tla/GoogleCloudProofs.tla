-------------------------- MODULE GoogleCloudProofs --------------------------
(***************************************************************************)
(* Proofs about GoogleCloud for any finite set of messages, any number of  *)
(* deliveries and any options of the subscription.                         *)
(*                                                                         *)
(* The argument: a token is out for exactly the workers that run           *)
(* (TokensExact); the dispatcher has a delivery in hand exactly when it    *)
(* waits for a token, the loop a batch exactly when it hands one over      *)
(* (InHand); and with a single worker the variable err is that worker's    *)
(* own, so that it acks only what its handler was done with (Justified).   *)
(* The loop hands a batch over before it pulls another (Buffered), which   *)
(* bounds what the process holds; and after Shutdown the steps that are    *)
(* left to the loop and the dispatcher count down (StepsLeft).             *)
(***************************************************************************)
EXTENDS GoogleCloud, FiniteSetTheorems, TLAPS

LEMMA OptsType ==
  ASSUME TypeOK
  PROVE  Concurrency \in Nat \ {0} /\ AutoAck \in BOOLEAN /\ Unique \in BOOLEAN
  BY OptionsAssumption DEF TypeOK, Concurrency, AutoAck, Unique

LEMMA DeliveriesFinite == IsFiniteSet(Deliveries)
<1>1. IsFiniteSet(1..MaxDeliveries)
  BY DeliveriesAssumption, FS_Interval
<1> QED
  BY <1>1, MessagesAssumption, FS_Product DEF Deliveries

LEMMA HoldersFinite == IsFiniteSet(Holders) /\ \A p : IsFiniteSet(In(p))
  BY DeliveriesFinite, FS_Subset DEF Holders, In

(* What moving one delivery does to the sets of deliveries. *)
LEMMA Moved ==
  ASSUME TypeOK, NEW d \in Deliveries, NEW p, Move(d, p)
  PROVE  /\ p \in Holding => Holders' = Holders \cup {d}
         /\ p \notin Holding => Holders' = Holders \ {d}
         /\ \A q \in Phases : In(q)' = IF p = q THEN In(q) \cup {d} ELSE In(q) \ {d}
<1>1. \A e \in Deliveries : phase'[e] = IF e = d THEN p ELSE phase[e]
  BY DEF TypeOK, Move
<1> QED
  BY <1>1 DEF Holders, In

(* A pull touches deliveries that were not there. *)
LEMMA Pulled ==
  ASSUME TypeOK, NEW ms \in SUBSET {m \in Messages : server[m] = "queued" /\ Fresh(m) # {}},
         Cardinality(ms) \in 1..MaxMessages,
         mine' = UNION {Fresh(m) : m \in ms},
         phase' = [d \in Deliveries |-> IF d \in mine' THEN "pulled" ELSE phase[d]]
  PROVE  /\ mine' \in SUBSET Deliveries
         /\ phase' \in [Deliveries -> Phases]
         /\ Holders' = Holders
         /\ In("offered")' = In("offered")
         /\ In("pulled")' # {}
<1>1. mine' \in SUBSET Deliveries /\ \A d \in mine' : phase[d] = "none"
  BY DEF Fresh
<1>2. phase' \in [Deliveries -> Phases]
  BY <1>1 DEF TypeOK, Phases, Waiting
<1>3. Holders' = Holders /\ In("offered")' = In("offered")
  BY <1>1 DEF Holders, Holding, In
<1>4. ms # {}
  BY FS_EmptySet
<1>5. mine' # {}
  BY <1>4
<1>6. In("pulled")' # {}
  BY <1>1, <1>5 DEF In
<1> QED
  BY <1>1, <1>2, <1>3, <1>6

-----------------------------------------------------------------------------
(* The dispatcher and the loop, and what they have in hand. *)
InHand ==
  /\ loop = "setup" <=> dispatch = "none"
  /\ dispatch = "acquiring" => \E d \in Deliveries : In("offered") = {d}
  /\ dispatch # "acquiring" => In("offered") = {}
  /\ In("pulled") # {} <=> loop = "sending"

(* A step that leaves all deliveries where they are. *)
Still == UNCHANGED phase

LEMMA StillSets ==
  ASSUME Still PROVE Holders' = Holders /\ \A p : In(p)' = In(p)
  BY DEF Still, Holders, In

(* The process ends with all it holds. *)
LEMMA EndSets ==
  ASSUME TypeOK, NEW how, ProcessEnds(how)
  PROVE  /\ phase' \in [Deliveries -> Phases]
         /\ Holders' = {} /\ In("offered")' = {} /\ In("pulled")' = {}
         /\ \A d \in Deliveries : phase'[d] \notin Holding
<1>1. \A d \in Deliveries : phase'[d] =
        IF phase[d] \in Waiting \cup Holding THEN "over" ELSE phase[d]
  BY DEF ProcessEnds
<1>2. "over" \notin Holding /\ "over" \notin Waiting
  BY DEF Holding, Waiting
<1>3. \A d \in Deliveries : phase'[d] \notin Waiting \cup Holding
  BY <1>1, <1>2
<1>4. phase' \in [Deliveries -> Phases]
  BY DEF ProcessEnds, TypeOK, Phases
<1> QED
  BY <1>3, <1>4 DEF Holders, In, Waiting

(* A worker that leaves gives its token back to a semaphore that is not    *)
(* full. *)
LEMMA TokenBack ==
  ASSUME TypeOK, TokensExact, NEW d \in Holders
  PROVE  /\ tokens + 1 \in 0..Concurrency
         /\ tokens + 1 + Cardinality(Holders \ {d}) = Concurrency
<1>1. Cardinality(Holders \ {d}) = Cardinality(Holders) - 1 /\ Cardinality(Holders) \in Nat
      /\ Cardinality(Holders \ {d}) \in Nat
  BY HoldersFinite, FS_RemoveElement, FS_CardinalityType, FS_Subset
<1> QED
  BY <1>1, OptsType DEF TokensExact, TypeOK

-----------------------------------------------------------------------------
(* Types, the semaphore and what is in hand are kept together. *)
Sound == TypeOK /\ TokensExact /\ InHand

LEMMA InitSound == Init => Sound
<1> SUFFICES ASSUME Init PROVE Sound
  OBVIOUS
<1> USE DEF Init
<1>1. opts.concurrency \in Nat \ {0}
  BY OptionsAssumption
<1>2. TypeOK
  <2>1. opts \in Options /\ tokens \in 0..Concurrency
    BY <1>1 DEF Concurrency
  <2>2. phase \in [Deliveries -> Phases] /\ server \in [Messages -> {"queued", "leased", "acked", "gone"}]
    BY DEF Phases
  <2> QED
    BY <2>1, <2>2 DEF TypeOK
<1>3. Holders = {} /\ \A p \in {"offered", "pulled"} : In(p) = {}
  BY DEF Holders, Holding, In
<1>4. TokensExact
  BY <1>1, <1>3, FS_EmptySet DEF TokensExact, Concurrency
<1> QED
  BY <1>2, <1>3, <1>4 DEF Sound, InHand

(* Steps that move no delivery and no token. *)
LEMMA StillStep ==
  ASSUME Sound, Still, UNCHANGED <<opts, tokens>>, TypeOK',
         (loop' = "setup") <=> (dispatch' = "none"),
         (loop' = "sending") <=> (loop = "sending"),
         (dispatch' = "acquiring") <=> (dispatch = "acquiring")
  PROVE  Sound'
<1>1. Holders' = Holders /\ \A p : In(p)' = In(p)
  BY StillSets
<1>2. TokensExact'
  BY <1>1 DEF Sound, TokensExact, Concurrency
<1>3. InHand'
  BY <1>1 DEF Sound, InHand
<1> QED
  BY <1>2, <1>3 DEF Sound

LEMMA SoundStep == Sound /\ [Next]_vars => Sound'
<1> SUFFICES ASSUME Sound, [Next]_vars PROVE Sound'
  OBVIOUS
<1>a. TypeOK /\ TokensExact /\ InHand
  BY DEF Sound
<1>b. Concurrency \in Nat \ {0} /\ opts' = opts => Concurrency' = Concurrency
  BY <1>a, OptsType DEF Concurrency
<1> USE DEF TypeOK
<1>1. CASE UNCHANGED vars
  BY <1>a, <1>1, StillStep DEF vars, workVars, Still, Concurrency, InHand
<1>2. ASSUME NEW d \in Deliveries, NEW p \in Phases \ Waiting, Move(d, p),
             phase[d] \in Holding, p \in Holding,
             UNCHANGED <<opts, tokens, loop, dispatch>>, TypeOK'
      PROVE  Sound'
  <2>1. Holders' = Holders
    BY <1>a, <1>2, Moved DEF Holders
  <2>2. In("offered")' = In("offered") /\ In("pulled")' = In("pulled")
    BY <1>a, <1>2, Moved DEF In, Waiting, Holding, Phases
  <2> QED
    BY <1>a, <1>2, <2>1, <2>2 DEF Sound, TokensExact, InHand, Concurrency
<1>3. CASE Setup
  BY <1>a, <1>3, StillStep DEF Setup, Still, workVars, InHand, Concurrency
<1>4. CASE NewContext
  BY <1>a, <1>4, StillStep DEF NewContext, Still, workVars, InHand, Concurrency
<1>5. CASE Register
  BY <1>a, <1>5, StillStep DEF Register, Still, workVars, InHand, Concurrency
<1>6. CASE PullMessages
  <2>1. PICK ms \in SUBSET {m \in Messages : server[m] = "queued" /\ Fresh(m) # {}} :
          /\ Cardinality(ms) \in 1..MaxMessages
          /\ mine' = UNION {Fresh(m) : m \in ms}
          /\ phase' = [d \in Deliveries |-> IF d \in mine' THEN "pulled" ELSE phase[d]]
          /\ server' = [m \in Messages |-> IF m \in ms THEN "leased" ELSE server[m]]
    BY <1>6 DEF PullMessages
  <2>2. /\ mine' \in SUBSET Deliveries /\ phase' \in [Deliveries -> Phases]
        /\ Holders' = Holders /\ In("offered")' = In("offered") /\ In("pulled")' # {}
    BY <1>a, <2>1, Pulled
  <2>3. TypeOK'
    BY <1>a, <1>6, <2>1, <2>2 DEF PullMessages, workVars, Concurrency
  <2>4. TokensExact' /\ InHand'
    BY <1>a, <1>6, <2>2 DEF PullMessages, workVars, TokensExact, InHand, Concurrency
  <2> QED
    BY <2>3, <2>4 DEF Sound
<1>7. CASE PullNothing
  BY <1>a, <1>7, StillStep DEF PullNothing, Still, workVars, InHand, Concurrency
<1>8. ASSUME NEW d \in Deliveries, HandOver(d) PROVE Sound'
  <2>1. TypeOK'
    BY <1>a, <1>8 DEF HandOver, Move, Phases, Waiting, workVars, Concurrency
  <2>2. /\ Holders' = Holders \ {d}
        /\ In("offered")' = In("offered") \cup {d}
        /\ In("pulled")' = In("pulled") \ {d}
    BY <1>a, <1>8, Moved DEF HandOver, Holding, Waiting, Phases
  <2>3. Holders' = Holders
    BY <1>8, <2>2 DEF HandOver, Holders, Holding
  <2>4. d \in In("pulled")
    BY <1>8 DEF HandOver, In
  <2>5. InHand'
    BY <1>a, <1>8, <2>2, <2>4 DEF HandOver, InHand
  <2>6. TokensExact'
    BY <1>a, <1>8, <2>3 DEF HandOver, TokensExact, workVars, Concurrency
  <2> QED
    BY <2>1, <2>5, <2>6 DEF Sound
<1>9. CASE Quit
  <2>1. TypeOK'
    BY <1>a, <1>9 DEF Quit, Concurrency
  <2> QED
    BY <1>a, <1>9, <2>1, StillStep DEF Quit, Still, InHand
<1>10. ASSUME NEW d \in Deliveries, phase[d] = "offered",
              \E p : Move(d, p) /\ p \notin Waiting, dispatch' = "idle", loop' = loop
       PROVE  InHand'
  <2>1. d \in In("offered") /\ d \notin In("pulled")
    BY <1>10 DEF In
  <2>2. In("offered") = {d}
    BY <1>a, <2>1 DEF InHand
  <2>3. In("offered")' = {} /\ In("pulled")' = In("pulled")
    <3>1. PICK p : Move(d, p) /\ p \notin Waiting
      BY <1>10
    <3>2. p # "offered" /\ p # "pulled" /\ "offered" \in Phases /\ "pulled" \in Phases
      BY <3>1 DEF Waiting, Phases
    <3> QED
      BY <1>a, <2>1, <2>2, <3>1, <3>2, Moved
  <2>4. dispatch # "none"
    BY <1>a, <2>1 DEF InHand
  <2> QED
    BY <1>a, <1>10, <2>3, <2>4 DEF InHand
<1>11. ASSUME NEW d \in Deliveries, AcquireFails(d) PROVE Sound'
  <2>1. TypeOK'
    BY <1>a, <1>11 DEF AcquireFails, Move, Phases, workVars, Concurrency
  <2>2. Holders' = Holders
    BY <1>a, <1>11, Moved DEF AcquireFails, Holders, Holding
  <2>3. InHand'
    BY <1>10, <1>11 DEF AcquireFails, Waiting
  <2> QED
    BY <1>a, <1>11, <2>1, <2>2, <2>3
       DEF Sound, AcquireFails, TokensExact, workVars, Concurrency
<1>12. ASSUME NEW d \in Deliveries, Acquire(d) PROVE Sound'
  <2>1. tokens - 1 \in 0..Concurrency
    BY <1>a, <1>12, OptsType DEF Acquire
  <2>2. TypeOK'
    BY <1>a, <1>12, <2>1 DEF Acquire, Move, Phases, Holding, Concurrency
  <2>3. d \notin Holders /\ Holders' = Holders \cup {d}
    BY <1>a, <1>12, Moved DEF Acquire, Holders, Holding
  <2>4. Cardinality(Holders') = Cardinality(Holders) + 1 /\ Cardinality(Holders) \in Nat
    BY <2>3, HoldersFinite, FS_AddElement, FS_CardinalityType
  <2>5. TokensExact'
    BY <1>a, <1>12, <2>4 DEF Acquire, TokensExact, Concurrency
  <2>6. InHand'
    BY <1>10, <1>12 DEF Acquire, Waiting
  <2> QED
    BY <2>2, <2>5, <2>6 DEF Sound
<1>13. CASE DispatcherEnds
  BY <1>a, <1>13, StillStep DEF DispatcherEnds, Still, workVars, InHand, Concurrency
<1>14. ASSUME NEW d \in Deliveries, HandlerAcks(d) PROVE Sound'
  <2>1. TypeOK'
    BY <1>a, <1>14 DEF HandlerAcks, ServerAcks, Msg, Deliveries, workVars, Concurrency
  <2> QED
    BY <1>a, <1>14, <2>1, StillStep DEF HandlerAcks, Still, workVars, InHand
<1>15. ASSUME NEW d \in Deliveries, HandlerReturns(d) PROVE Sound'
  <2>1. PICK p \in {"succeeded", "failed"} : Move(d, p)
    BY <1>15 DEF HandlerReturns
  <2>2. phase' \in [Deliveries -> Phases]
    BY <1>a, <2>1 DEF Move, Phases, Holding
  <2>3. Msg(d) \in Messages
    BY DEF Msg, Deliveries
  <2>4. TypeOK'
    BY <1>a, <1>15, <2>2, <2>3 DEF HandlerReturns, Concurrency
  <2> QED
    BY <1>2, <1>15, <2>1, <2>4 DEF HandlerReturns, Holding, Phases, Waiting
<1>16. ASSUME NEW d \in Deliveries, LookAtErr(d) PROVE Sound'
  <2>1. PICK p \in {"acking", "nacking", "leaving"} : Move(d, p)
    BY <1>16 DEF LookAtErr
  <2>2. TypeOK'
    BY <1>a, <1>16, <2>1 DEF LookAtErr, Move, Phases, Holding, workVars, Concurrency
  <2> QED
    BY <1>2, <1>16, <2>1, <2>2 DEF LookAtErr, Holding, Phases, Waiting, workVars
<1>17. ASSUME NEW d \in Deliveries, Leave(d) PROVE Sound'
  <2>1. d \in Holders
    BY <1>17 DEF Leave, Holders, Holding
  <2>2. /\ tokens + 1 \in 0..Concurrency
        /\ tokens + 1 + Cardinality(Holders \ {d}) = Concurrency
    BY <1>a, <2>1, TokenBack
  <2>3. TypeOK'
    BY <1>a, <1>17, <2>2 DEF Leave, ServerAcks, Move, Phases, Msg, Deliveries, Concurrency
  <2>4. Holders' = Holders \ {d}
    BY <1>a, <1>17, Moved DEF Leave, Holding
  <2>5. In("offered")' = In("offered") /\ In("pulled")' = In("pulled")
    BY <1>a, <1>17, <2>1, Moved DEF Leave, In, Phases, Waiting
  <2>6. TokensExact' /\ InHand'
    BY <1>a, <1>17, <2>2, <2>4, <2>5 DEF Leave, TokensExact, InHand, Concurrency
  <2> QED
    BY <2>3, <2>6 DEF Sound
<1>18. CASE SetFlag
  BY <1>a, <1>18, StillStep DEF SetFlag, Still, workVars, InHand, Concurrency
<1>19. CASE CancelAll
  BY <1>a, <1>19, StillStep DEF CancelAll, Still, workVars, InHand, Concurrency
<1>20. ASSUME NEW m \in Messages, LeaseExpires(m) PROVE Sound'
  BY <1>a, <1>20, StillStep DEF LeaseExpires, Still, workVars, InHand, Concurrency
<1>21. ASSUME NEW how \in {"killed", "panicked", "fatal"}, ProcessEnds(how) PROVE Sound'
  <2>1. /\ phase' \in [Deliveries -> Phases]
        /\ Holders' = {} /\ In("offered")' = {} /\ In("pulled")' = {}
    BY <1>a, <1>21, EndSets
  <2>2. TypeOK'
    <3>1. opts' \in Options /\ tokens' \in 0..Concurrency'
      BY <1>a, <1>21, OptsType DEF ProcessEnds, Concurrency
    <3> QED
      BY <1>a, <1>21, <2>1, <3>1 DEF ProcessEnds
  <2>3. TokensExact' /\ InHand'
    BY <1>a, <1>21, <2>1, OptsType, FS_EmptySet DEF ProcessEnds, TokensExact, InHand, Concurrency
  <2> QED
    BY <2>2, <2>3 DEF Sound
<1>22. CASE Kill \/ SetupFails \/ ConcurrentMapAccess
  BY <1>21, <1>22 DEF Kill, SetupFails, ConcurrentMapAccess
<1>23. CASE Restart
  BY <1>a, <1>23, StillStep DEF Restart, Still, workVars, InHand, Concurrency
<1> QED
  BY <1>1, <1>3, <1>4, <1>5, <1>6, <1>7, <1>8, <1>9, <1>11, <1>12, <1>13, <1>14, <1>15,
     <1>16, <1>17, <1>18, <1>19, <1>20, <1>22, <1>23
     DEF Next, Process, PullLoop, Dispatcher, Worker

THEOREM Soundness == Spec => []Sound
<1> QED
  BY InitSound, SoundStep, PTL DEF Spec

(* Every variable of GoogleCloud keeps its type.                           *)
THEOREM TypeCorrect == Spec => []TypeOK
<1>1. Sound => TypeOK
  BY DEF Sound
<1> QED
  BY <1>1, Soundness, PTL

(* A token is out for exactly the workers that run, for any Concurrency.   *)
THEOREM TokensExactHolds == Spec => []TokensExact
<1>1. Sound => TokensExact
  BY DEF Sound
<1> QED
  BY <1>1, Soundness, PTL

(* Nothing that was pulled is forgotten between the loop, the dispatcher   *)
(* and the workers.                                                        *)
THEOREM NothingForgottenHolds == Spec => []NothingForgotten
<1>1. Sound => NothingForgotten
  <2> SUFFICES ASSUME InHand PROVE NothingForgotten
    BY DEF Sound
  <2>1. CASE dispatch = "acquiring"
    <3>1. PICK d \in Deliveries : In("offered") = {d}
      BY <2>1 DEF InHand
    <3>2. Cardinality(In("offered")) = 1
      BY <3>1, FS_Singleton
    <3> QED
      BY <2>1, <3>2 DEF InHand, NothingForgotten
  <2>2. CASE dispatch # "acquiring"
    <3>1. Cardinality(In("offered")) = 0
      BY <2>2, FS_EmptySet DEF InHand
    <3> QED
      BY <2>2, <3>1 DEF InHand, NothingForgotten
  <2> QED
    BY <2>1, <2>2
<1> QED
  BY <1>1, Soundness, PTL

-----------------------------------------------------------------------------
(* At-least-once delivery, for subscriptions with AutoAck and one worker,  *)
(* or without AutoAck.  Two workers that share err may ack a message whose *)
(* handler has failed.                                                     *)

OneWorkerIfAutoAck == \A o \in Options : o.autoAck => o.concurrency = 1

Consumed(d) == server[Msg(d)] \in {"acked", "gone"}

Justified ==
  /\ AutoAck => \A d \in Deliveries :
       /\ phase[d] = "succeeded" => Msg(d) \in consent
       /\ phase[d] = "failed" => err = "error" \/ Consumed(d)
       /\ phase[d] = "acking" => Msg(d) \in consent \/ Consumed(d)
  /\ ~AutoAck => \A d \in Deliveries : phase[d] # "acking"

(* A single worker is alone. *)
LEMMA Alone ==
  ASSUME OneWorkerIfAutoAck, Sound, AutoAck, NEW d \in Holders, NEW e \in Holders
  PROVE  d = e
<1>1. Concurrency = 1
  BY DEF OneWorkerIfAutoAck, Sound, TypeOK, AutoAck, Concurrency
<1>2. TypeOK /\ TokensExact
  BY DEF Sound
<1>3. tokens + 1 + Cardinality(Holders \ {d}) = 1 /\ tokens \in Nat
  BY <1>1, <1>2, TokenBack DEF TypeOK
<1>4. IsFiniteSet(Holders \ {d}) /\ Cardinality(Holders \ {d}) \in Nat
  BY HoldersFinite, FS_Subset, FS_CardinalityType
<1>5. Cardinality(Holders \ {d}) = 0
  BY <1>3, <1>4
<1>6. Holders \ {d} = {}
  BY <1>4, <1>5, FS_EmptySet
<1> QED
  BY <1>6

(* What is settled or gone stays so. *)
LEMMA ConsumedStays ==
  ASSUME TypeOK, [Next]_vars, NEW d \in Deliveries, Consumed(d)
  PROVE  Consumed(d)'
<1>1. Msg(d) \in Messages
  BY DEF Msg, Deliveries
<1>2. server \in [Messages -> {"queued", "leased", "acked", "gone"}]
  BY DEF TypeOK
<1>3. ASSUME NEW m \in Messages, ServerAcks(m) PROVE Consumed(d)'
  BY <1>1, <1>2, <1>3 DEF ServerAcks, Consumed
<1>4. CASE UNCHANGED server
  BY <1>4 DEF Consumed
<1>5. CASE PullMessages \/ PullNothing \/ Quit
  BY <1>1, <1>2, <1>5 DEF PullMessages, PullNothing, Quit, Consumed
<1>6. ASSUME NEW m \in Messages, LeaseExpires(m) PROVE Consumed(d)'
  BY <1>1, <1>2, <1>6 DEF LeaseExpires, Consumed
<1>7. ASSUME NEW e \in Deliveries, HandlerAcks(e) \/ Leave(e) PROVE Consumed(d)'
  <2>1. Msg(e) \in Messages
    BY DEF Msg, Deliveries
  <2> QED
    BY <1>3, <1>4, <1>7, <2>1 DEF HandlerAcks, Leave
<1>8. UNCHANGED server \/ PullMessages \/ PullNothing \/ Quit
      \/ (\E m \in Messages : LeaseExpires(m))
      \/ (\E e \in Deliveries : HandlerAcks(e) \/ Leave(e))
  BY DEF Next, Process, PullLoop, Dispatcher, Worker, vars, Setup, SetupFails, NewContext,
     Register, HandOver, AcquireFails, Acquire, DispatcherEnds, HandlerReturns, LookAtErr,
     SetFlag, CancelAll, ConcurrentMapAccess, Kill, ProcessEnds, Restart
<1> QED
  BY <1>4, <1>5, <1>6, <1>7, <1>8

(* A step in which no delivery gets to where its fate is decided, and err  *)
(* stays. *)
LEMMA JustifiedStays ==
  ASSUME Sound, Justified, [Next]_vars, UNCHANGED <<opts, err>>, consent \subseteq consent',
         \A d \in Deliveries : phase'[d] = phase[d]
           \/ phase'[d] \notin {"succeeded", "failed", "acking"}
  PROVE  Justified'
<1>1. \A d \in Deliveries : Consumed(d) => Consumed(d)'
  BY ConsumedStays DEF Sound
<1> QED
  BY <1>1 DEF Justified, AutoAck

LEMMA JustifiedStep ==
  ASSUME OneWorkerIfAutoAck, Sound, Justified, [Next]_vars PROVE Justified'
<1>a. TypeOK /\ \A d \in Deliveries : Consumed(d) => Consumed(d)'
  BY ConsumedStays DEF Sound
<1>b. \A p : \A d \in Deliveries : Move(d, p) =>
        \A e \in Deliveries : phase'[e] = IF e = d THEN p ELSE phase[e]
  BY <1>a DEF TypeOK, Move
<1>1. CASE UNCHANGED vars
  BY <1>1, JustifiedStays DEF vars, workVars
<1>2. CASE Setup \/ NewContext \/ Register \/ PullNothing \/ DispatcherEnds \/ SetFlag \/ CancelAll
  BY <1>2, JustifiedStays DEF Setup, NewContext, Register, PullNothing, DispatcherEnds,
     SetFlag, CancelAll, workVars
<1>3. CASE PullMessages
  <2>1. \A d \in Deliveries : phase'[d] = phase[d] \/ phase'[d] = "pulled"
    BY <1>3 DEF PullMessages
  <2> QED
    BY <1>3, <2>1, JustifiedStays DEF PullMessages, workVars
<1>4. ASSUME NEW d \in Deliveries, HandOver(d) \/ AcquireFails(d) \/ Acquire(d)
      PROVE  Justified'
  <2>1. \A e \in Deliveries : phase'[e] = phase[e] \/ phase'[e] \in {"offered", "over", "running"}
    BY <1>4, <1>b DEF HandOver, AcquireFails, Acquire
  <2> QED
    BY <1>4, <2>1, JustifiedStays DEF HandOver, AcquireFails, Acquire, workVars
<1>5. CASE Quit
  <2>1. UNCHANGED <<opts, phase, consent>>
    BY <1>5 DEF Quit
  <2>2. CASE err' = err \/ err' = "error"
    BY <1>a, <2>1, <2>2 DEF Justified, AutoAck
  <2>3. CASE server' = [m \in Messages |-> IF server[m] = "acked" THEN "acked" ELSE "gone"]
    <3>1. \A d \in Deliveries : Consumed(d)'
      BY <2>3 DEF Consumed, Msg, Deliveries
    <3> QED
      BY <2>1, <3>1 DEF Justified, AutoAck
  <2> QED
    BY <1>5, <2>2, <2>3 DEF Quit
<1>6. ASSUME NEW d \in Deliveries, HandlerAcks(d) PROVE Justified'
  BY <1>6, JustifiedStays DEF HandlerAcks, workVars
<1>7. ASSUME NEW d \in Deliveries, HandlerReturns(d) PROVE Justified'
  <2>1. UNCHANGED <<opts, server>> /\ consent \subseteq consent'
    BY <1>7 DEF HandlerReturns
  <2>2. CASE ~AutoAck
    <3>1. \A e \in Deliveries : phase'[e] # "acking"
      BY <1>7, <1>b, <2>2 DEF HandlerReturns, Justified
    <3> QED
      BY <2>1, <2>2, <3>1 DEF Justified, AutoAck
  <2>3. CASE AutoAck
    <3>1. \A e \in Deliveries : phase[e] \in Holding => e = d
      BY <1>7, <2>3, Alone DEF HandlerReturns, Holders, Holding
    <3>2. \A e \in Deliveries : phase'[e] \in {"succeeded", "failed", "acking"} => e = d
      BY <1>7, <1>b, <3>1 DEF HandlerReturns, Holding
    <3>3. CASE err' = "nil" /\ Move(d, "succeeded") /\ Msg(d) \in consent'
      BY <1>b, <2>1, <2>3, <3>2, <3>3 DEF Justified, AutoAck
    <3>4. CASE err' = "error" /\ Move(d, "failed")
      BY <1>b, <2>1, <2>3, <3>2, <3>4 DEF Justified, AutoAck
    <3> QED
      BY <1>7, <2>3, <3>3, <3>4 DEF HandlerReturns
  <2> QED
    BY <2>2, <2>3
<1>8. ASSUME NEW d \in Deliveries, LookAtErr(d) PROVE Justified'
  <2>1. UNCHANGED <<opts, server, consent, err>>
    BY <1>8 DEF LookAtErr, workVars
  <2>2. PICK p : /\ Move(d, p)
                 /\ p \in {"acking", "nacking", "leaving"}
                 /\ p = "acking" => AutoAck /\ "nil" \in Seen(d)
    BY <1>8 DEF LookAtErr
  <2>3. p = "acking" => Msg(d) \in consent \/ Consumed(d)
    BY <1>8, <2>2 DEF LookAtErr, Seen, Justified
  <2>4. \A e \in Deliveries : Consumed(e)' = Consumed(e)
    BY <2>1 DEF Consumed
  <2>5. \A e \in Deliveries : phase'[e] = IF e = d THEN p ELSE phase[e]
    BY <1>b, <2>2
  <2> QED
    BY <2>1, <2>2, <2>3, <2>4, <2>5 DEF Justified, AutoAck
<1>9. ASSUME NEW d \in Deliveries, Leave(d) PROVE Justified'
  <2>1. \A e \in Deliveries : phase'[e] = phase[e] \/ phase'[e] = "over"
    BY <1>9, <1>b DEF Leave
  <2> QED
    BY <1>9, <2>1, JustifiedStays DEF Leave
<1>10. ASSUME NEW m \in Messages, LeaseExpires(m) PROVE Justified'
  BY <1>10, JustifiedStays DEF LeaseExpires, workVars
<1>11. ASSUME NEW how, ProcessEnds(how) PROVE Justified'
  <2>1. \A d \in Deliveries : phase'[d] \notin Holding
    BY <1>a, <1>11, EndSets
  <2> QED
    BY <2>1 DEF Justified, Holding
<1>12. CASE Kill \/ SetupFails \/ ConcurrentMapAccess
  BY <1>11, <1>12 DEF Kill, SetupFails, ConcurrentMapAccess
<1>13. CASE Restart
  BY <1>13, JustifiedStays DEF Restart, workVars
<1> QED
  BY <1>1, <1>2, <1>3, <1>4, <1>5, <1>6, <1>7, <1>8, <1>9, <1>10, <1>12, <1>13
     DEF Next, Process, PullLoop, Dispatcher, Worker

-----------------------------------------------------------------------------
(* Every step is one that AtLeastOnce allows.                              *)
LEMMA FateStep == Sound /\ Justified /\ [Next]_vars => [Promise!Next]_(Promise!vars)
<1> SUFFICES ASSUME Sound, Justified, [Next]_vars PROVE [Promise!Next]_(Promise!vars)
  OBVIOUS
<1> DEFINE fate == [m \in Messages |-> FateOf(m)]
<1>a. /\ server \in [Messages -> {"queued", "leased", "acked", "gone"}]
      /\ \A d \in Deliveries : Msg(d) \in Messages
  BY DEF Sound, TypeOK, Msg, Deliveries
<1>b. UNCHANGED opts
  BY DEF Next, Process, PullLoop, Dispatcher, Worker, vars, Setup, SetupFails, NewContext,
     Register, PullMessages, PullNothing, HandOver, Quit, AcquireFails, Acquire,
     DispatcherEnds, HandlerAcks, HandlerReturns, LookAtErr, Leave, SetFlag, CancelAll,
     LeaseExpires, ConcurrentMapAccess, Kill, ProcessEnds, Restart
<1>c. MayGo \in SUBSET Messages /\ MayGo' \in SUBSET Messages
  BY DEF MayGo
<1>d. ASSUME fate' = fate, UNCHANGED consent PROVE [Promise!Next]_(Promise!vars)
  <2>1. PICK none \in SUBSET Messages : none = {}
    OBVIOUS
  <2>2. fate' = [m \in Messages |-> IF m \in none THEN "expired" ELSE fate[m]]
    BY <1>d, <2>1
  <2>3. Promise!Expire(none)
    BY <1>d, <2>1, <2>2 DEF Promise!Expire
  <2> QED
    BY <1>c, <2>3 DEF Promise!Next
<1>1. CASE UNCHANGED <<server, consent>>
  BY <1>1, <1>d DEF FateOf
<1>2. CASE PullMessages \/ PullNothing
  <2>1. \A m \in Messages : FateOf(m)' = FateOf(m)
    BY <1>2, <1>a DEF PullMessages, PullNothing, FateOf
  <2> QED
    BY <1>2, <1>d, <2>1 DEF PullMessages, PullNothing
<1>3. ASSUME NEW m \in Messages, LeaseExpires(m) PROVE [Promise!Next]_(Promise!vars)
  <2>1. \A n \in Messages : FateOf(n)' = FateOf(n)
    BY <1>3, <1>a DEF LeaseExpires, FateOf
  <2> QED
    BY <1>3, <1>d, <2>1 DEF LeaseExpires
<1>4. CASE Quit
  <2>1. CASE UNCHANGED server
    BY <1>1, <1>4, <2>1 DEF Quit
  <2>2. CASE /\ Unique
             /\ server' = [m \in Messages |-> IF server[m] = "acked" THEN "acked" ELSE "gone"]
    <3> DEFINE open == {m \in Messages : fate[m] = "open"}
    <3>1. fate' = [m \in Messages |-> IF m \in open THEN "expired" ELSE fate[m]]
      BY <1>a, <2>2 DEF FateOf
    <3>2. \A d \in Deliveries : phase[d] # "pulled"
      BY <1>4 DEF Quit, Sound, InHand, In
    <3>3. open \subseteq MayGo
      BY <1>4, <2>2, <3>2 DEF Quit, MayGo, In
    <3>4. Promise!Expire(open)
      BY <1>4, <3>1, <3>3 DEF Promise!Expire, Quit
    <3> QED
      BY <1>c, <3>4 DEF Promise!Next
  <2> QED
    BY <1>4, <2>1, <2>2 DEF Quit
<1>5. ASSUME NEW m \in Messages, consent' = consent \cup {m}, UNCHANGED server
      PROVE  [Promise!Next]_(Promise!vars)
  <2>1. Promise!Handle(m)
    BY <1>5 DEF Promise!Handle, FateOf
  <2> QED
    BY <1>c, <2>1 DEF Promise!Next
<1>6. ASSUME NEW m \in Messages, ServerAcks(m), consent' = consent \cup {m}
      PROVE  [Promise!Next]_(Promise!vars)
  <2>1. CASE fate[m] = "open"
    <3>1. fate' = [fate EXCEPT ![m] = "settled"]
      BY <1>6, <1>a DEF ServerAcks, FateOf
    <3>2. Promise!Settle(m)
      BY <1>6, <2>1, <3>1 DEF Promise!Settle
    <3> QED
      BY <1>c, <3>2 DEF Promise!Next
  <2>2. CASE fate[m] # "open"
    <3>1. server' = server
      BY <1>6, <1>a, <2>2 DEF ServerAcks, FateOf
    <3> QED
      BY <1>5, <1>6, <3>1
  <2> QED
    BY <2>1, <2>2
<1>7. ASSUME NEW d \in Deliveries, HandlerAcks(d) PROVE [Promise!Next]_(Promise!vars)
  BY <1>5, <1>6, <1>7, <1>a DEF HandlerAcks
<1>8. ASSUME NEW d \in Deliveries, HandlerReturns(d) PROVE [Promise!Next]_(Promise!vars)
  <2>1. UNCHANGED consent \/ consent' = consent \cup {Msg(d)}
    BY <1>8 DEF HandlerReturns
  <2> QED
    BY <1>1, <1>5, <1>8, <1>a, <2>1 DEF HandlerReturns
<1>9. ASSUME NEW d \in Deliveries, Leave(d) PROVE [Promise!Next]_(Promise!vars)
  <2>1. CASE UNCHANGED server
    BY <1>1, <1>9, <2>1 DEF Leave
  <2>2. CASE phase[d] = "acking" /\ ServerAcks(Msg(d))
    <3>1. Msg(d) \in consent \/ server[Msg(d)] \in {"acked", "gone"}
      BY <2>2 DEF Justified, Consumed
    <3>2. CASE Msg(d) \in consent
      BY <1>6, <1>9, <1>a, <2>2, <3>2 DEF Leave
    <3>3. CASE server[Msg(d)] \in {"acked", "gone"}
      <4>1. UNCHANGED server
        BY <1>a, <2>2, <3>3 DEF ServerAcks
      <4> QED
        BY <2>1, <4>1
    <3> QED
      BY <3>1, <3>2, <3>3
  <2> QED
    BY <1>9, <2>1, <2>2 DEF Leave
<1>10. \/ UNCHANGED <<server, consent>> \/ PullMessages \/ PullNothing \/ Quit
       \/ \E m \in Messages : LeaseExpires(m)
       \/ \E d \in Deliveries : HandlerAcks(d) \/ HandlerReturns(d) \/ Leave(d)
  BY DEF Next, Process, PullLoop, Dispatcher, Worker, vars, Setup, SetupFails, NewContext,
     Register, HandOver, AcquireFails, Acquire, DispatcherEnds, LookAtErr,
     SetFlag, CancelAll, ConcurrentMapAccess, Kill, ProcessEnds, Restart
<1> QED
  BY <1>1, <1>2, <1>3, <1>4, <1>7, <1>8, <1>9, <1>10

(* GoogleCloud implements AtLeastOnce when no two workers share err under  *)
(* AutoAck: a message leaves the subscription only with it, or after a     *)
(* handler was done with it, whatever crashes, expires or gets lost.       *)
THEOREM DeliversAtLeastOnceHolds ==
  ASSUME OneWorkerIfAutoAck PROVE Spec => DeliversAtLeastOnce
<1>1. Init => Promise!Init
  BY DEF Init, Promise!Init, FateOf, MayGo
<1>2. Init => Justified
  BY DEF Init, Justified
<1>3. Sound /\ Justified /\ [Next]_vars => Justified'
  BY JustifiedStep
<1>4. Sound /\ Justified /\ [Next]_vars => [Promise!Next]_(Promise!vars)
  BY FateStep
<1> QED
  BY <1>1, <1>2, <1>3, <1>4, Soundness, PTL DEF Spec, DeliversAtLeastOnce, Promise!Spec

-----------------------------------------------------------------------------
(* What a process has in memory, and how much the loop has yet to do. *)

InProcess == In("pulled") \cup In("offered") \cup Holders

(* What a process holds is bounded: a batch, what the dispatcher has in    *)
(* hand and a delivery for each token.                                     *)
BoundedMemory == Cardinality(InProcess) <= MaxMessages + 1 + Concurrency

(* The loop waits with the next pull until it has handed the batch over,   *)
(* and the dispatcher is there as long as the loop is.                     *)
Buffered ==
  /\ Cardinality(In("pulled")) <= MaxMessages
  /\ dispatch = "done" => loop = "done"

(* The service delivers a message again only under a new number.           *)
LEMMA FreshOnce ==
  ASSUME NEW m \in Messages, NEW d \in Fresh(m), NEW e \in Fresh(m)
  PROVE  d = e
<1>1. /\ d = <<m, d[2]>> /\ e = <<m, e[2]>>
      /\ d[2] \in Nat \ {0} /\ e[2] \in Nat \ {0}
  BY DeliveriesAssumption DEF Fresh, Deliveries, Msg
<1>2. /\ phase[d] = "none" /\ \A k \in 1..(d[2] - 1) : phase[<<m, k>>] # "none"
      /\ phase[e] = "none" /\ \A k \in 1..(e[2] - 1) : phase[<<m, k>>] # "none"
  BY DEF Fresh
<1>3. ~(d[2] < e[2])
  <2> SUFFICES ASSUME d[2] < e[2] PROVE FALSE
    OBVIOUS
  <2>1. d[2] \in 1..(e[2] - 1)
    BY <1>1
  <2> QED
    BY <1>1, <1>2, <2>1
<1>4. ~(e[2] < d[2])
  <2> SUFFICES ASSUME e[2] < d[2] PROVE FALSE
    OBVIOUS
  <2>1. e[2] \in 1..(d[2] - 1)
    BY <1>1
  <2> QED
    BY <1>1, <1>2, <2>1
<1>5. d[2] = e[2]
  BY <1>1, <1>3, <1>4
<1> QED
  BY <1>1, <1>5

(* A batch has one delivery of each of its messages.                       *)
LEMMA BatchSize ==
  ASSUME NEW ms \in SUBSET Messages, NEW batch, batch = UNION {Fresh(m) : m \in ms}
  PROVE  Cardinality(batch) <= Cardinality(ms)
<1> DEFINE f == [d \in batch |-> Msg(d)]
<1>1. \A d \in batch : Msg(d) \in ms /\ d \in Fresh(Msg(d))
  BY DEF Fresh
<1>2. f \in [batch -> ms]
  BY <1>1
<1>3. \A d, e \in batch : f[d] = f[e] => d = e
  BY <1>1, FreshOnce
<1>4. f \in Injection(batch, ms)
  BY <1>2, <1>3 DEF Injection, IsInjective
<1>5. IsFiniteSet(ms)
  BY MessagesAssumption, FS_Subset
<1> QED
  BY <1>4, <1>5, FS_Injection

LEMMA MaxMessagesType ==
  ASSUME TypeOK PROVE MaxMessages \in Nat
  BY OptsType DEF MaxMessages

(* What a step does to the batch and to the loop's and the dispatcher's    *)
(* places.                                                                 *)
LEMMA BufferedStep == Sound /\ Buffered /\ [Next]_vars => Buffered'
<1> SUFFICES ASSUME Sound, Buffered, [Next]_vars PROVE Buffered'
  OBVIOUS
<1>a. TypeOK /\ InHand /\ TypeOK' /\ InHand'
  BY SoundStep DEF Sound
<1>b. Cardinality(In("pulled")) \in Nat /\ Cardinality(In("pulled")) <= MaxMessages
  BY HoldersFinite, FS_CardinalityType DEF Buffered
<1>c. MaxMessages \in Nat /\ (opts' = opts => MaxMessages' = MaxMessages)
  BY <1>a, MaxMessagesType DEF MaxMessages, Concurrency
<1>1. ASSUME UNCHANGED <<opts, phase>>, dispatch' = "done" => loop' = "done" PROVE Buffered'
  BY <1>1, <1>b, <1>c, StillSets DEF Buffered, Still
<1>2. ASSUME NEW d \in Deliveries, NEW p \in Phases, Move(d, p), p # "pulled",
             UNCHANGED opts, dispatch' # "done" \/ UNCHANGED <<dispatch, loop>>
      PROVE  Buffered'
  <2>1. In("pulled")' = In("pulled") \ {d}
    BY <1>2, <1>a, Moved DEF Phases, Waiting
  <2>2. Cardinality(In("pulled") \ {d}) <= Cardinality(In("pulled"))
        /\ Cardinality(In("pulled") \ {d}) \in Nat
    BY HoldersFinite, FS_RemoveElement, FS_CardinalityType, FS_Subset
  <2> QED
    BY <1>2, <1>b, <1>c, <2>1, <2>2 DEF Buffered
<1>3. CASE PullMessages
  <2>1. PICK ms \in SUBSET {m \in Messages : server[m] = "queued" /\ Fresh(m) # {}} :
          /\ Cardinality(ms) \in 1..MaxMessages
          /\ mine' = UNION {Fresh(m) : m \in ms}
          /\ phase' = [d \in Deliveries |-> IF d \in mine' THEN "pulled" ELSE phase[d]]
    BY <1>3 DEF PullMessages
  <2>2. In("pulled") = {}
    BY <1>3, <1>a DEF PullMessages, InHand
  <2>3. In("pulled")' = mine'
    BY <2>1, <2>2 DEF In, Fresh
  <2>4. ms \in SUBSET Messages
    OBVIOUS
  <2>5. Cardinality(mine') <= Cardinality(ms)
    BY <2>1, <2>4, BatchSize
  <2>6. Cardinality(mine') \in Nat
    BY <1>a, DeliveriesFinite, FS_Subset, FS_CardinalityType DEF TypeOK
  <2>7. dispatch' # "done" /\ MaxMessages' = MaxMessages
    BY <1>3, <1>c DEF PullMessages, Buffered
  <2>8. Cardinality(mine') <= MaxMessages
    BY <1>c, <2>1, <2>5, <2>6
  <2> QED
    BY <2>3, <2>7, <2>8 DEF Buffered
<1>4. ASSUME NEW how, ProcessEnds(how) PROVE Buffered'
  <2>1. In("pulled")' = {} /\ dispatch' # "done" /\ opts' = opts
    BY <1>4, <1>a, EndSets DEF ProcessEnds
  <2> QED
    BY <1>c, <2>1, FS_EmptySet DEF Buffered
<1>5. CASE UNCHANGED vars
  BY <1>1, <1>5 DEF vars, Buffered
<1>6. CASE Setup \/ NewContext \/ Register \/ PullNothing \/ Quit \/ SetFlag \/ CancelAll
           \/ DispatcherEnds \/ Restart
  BY <1>1, <1>6 DEF Setup, NewContext, Register, PullNothing, Quit, SetFlag, CancelAll,
     DispatcherEnds, Restart, Buffered
<1>7. ASSUME NEW m \in Messages, LeaseExpires(m) PROVE Buffered'
  BY <1>1, <1>7 DEF LeaseExpires, Buffered
<1>8. ASSUME NEW d \in Deliveries, HandlerAcks(d) PROVE Buffered'
  BY <1>1, <1>8 DEF HandlerAcks, Buffered
<1>9. ASSUME NEW d \in Deliveries, HandOver(d) \/ AcquireFails(d) \/ Acquire(d)
      PROVE  Buffered'
  <2>1. \E p \in {"offered", "over", "running"} : Move(d, p)
    BY <1>9 DEF HandOver, AcquireFails, Acquire
  <2>2. UNCHANGED opts /\ dispatch' # "done"
    BY <1>9 DEF HandOver, AcquireFails, Acquire
  <2> QED
    BY <1>2, <2>1, <2>2 DEF Phases, Waiting, Holding
<1>10. ASSUME NEW d \in Deliveries, HandlerReturns(d) \/ Worker(d) PROVE Buffered'
  <2>1. \E p \in Holding \cup {"over"} : Move(d, p)
    BY <1>10 DEF HandlerReturns, Worker, LookAtErr, Leave, Holding
  <2>2. UNCHANGED <<opts, dispatch, loop>>
    BY <1>10 DEF HandlerReturns, Worker, LookAtErr, Leave
  <2> QED
    BY <1>2, <2>1, <2>2 DEF Phases, Holding
<1>11. CASE Kill \/ SetupFails \/ ConcurrentMapAccess
  BY <1>4, <1>11 DEF Kill, SetupFails, ConcurrentMapAccess
<1> QED
  BY <1>3, <1>5, <1>6, <1>7, <1>8, <1>9, <1>10, <1>11
     DEF Next, Process, PullLoop, Dispatcher

LEMMA Buffering == Spec => []Buffered
<1>1. Init => Buffered
  <2> SUFFICES ASSUME Init PROVE Buffered
    OBVIOUS
  <2>1. In("pulled") = {}
    BY DEF Init, In
  <2>2. MaxMessages \in Nat
    BY InitSound, MaxMessagesType DEF Sound
  <2> QED
    BY <2>1, <2>2, FS_EmptySet DEF Init, Buffered
<1> QED
  BY <1>1, BufferedStep, Soundness, PTL DEF Spec

(* However many messages there are and however slow the handlers, a        *)
(* process never has more in memory than one batch, one message that waits *)
(* for a token and the messages of the running handlers.                   *)
THEOREM BoundedMemoryHolds == Spec => []BoundedMemory
<1>1. Sound /\ Buffered => BoundedMemory
  <2> SUFFICES ASSUME Sound, Buffered PROVE BoundedMemory
    OBVIOUS
  <2> DEFINE P == In("pulled")
             O == In("offered")
  <2>1. IsFiniteSet(P) /\ IsFiniteSet(O) /\ IsFiniteSet(Holders)
    BY HoldersFinite
  <2>2. /\ IsFiniteSet(P \cup O)
        /\ Cardinality(P \cup O) = Cardinality(P) + Cardinality(O) - Cardinality(P \cap O)
    BY <2>1, FS_Union
  <2>3. Cardinality(InProcess) = Cardinality(P \cup O) + Cardinality(Holders)
                                   - Cardinality((P \cup O) \cap Holders)
    BY <2>1, <2>2, FS_Union DEF InProcess
  <2>4. /\ Cardinality(P) \in Nat /\ Cardinality(O) \in Nat /\ Cardinality(Holders) \in Nat
        /\ Cardinality(P \cap O) \in Nat /\ Cardinality((P \cup O) \cap Holders) \in Nat
    BY <2>1, <2>2, FS_CardinalityType, FS_Intersection
  <2>5. Cardinality(O) <= 1
    <3>1. O = {} \/ \E d : O = {d}
      BY DEF Sound, InHand
    <3>2. CASE O = {}
      BY <3>2, FS_EmptySet
    <3>3. ASSUME NEW d, O = {d} PROVE Cardinality(O) <= 1
      <4>1. Cardinality({d}) = 1
        BY FS_Singleton
      <4>2. Cardinality(O) = 1
        BY <3>3, <4>1
      <4> QED
        BY <4>2
    <3> QED
      BY <3>1, <3>2, <3>3
  <2>6. Cardinality(Holders) <= Concurrency /\ Concurrency \in Nat
    BY <2>4, OptsType DEF Sound, TokensExact, TypeOK
  <2>7. Cardinality(P) <= MaxMessages /\ MaxMessages \in Nat
    BY MaxMessagesType DEF Buffered, Sound
  <2> HIDE DEF P, O
  <2> QED
    BY <2>2, <2>3, <2>4, <2>5, <2>6, <2>7 DEF BoundedMemory
<1> QED
  BY <1>1, Buffering, Soundness, PTL

-----------------------------------------------------------------------------
(* The end of the loop.  That ShutdownEndsLoop holds under fairness rests  *)
(* on two facts that need none: the loop and the dispatcher have a bounded *)
(* number of steps left after the shutdown, and until the loop is done one *)
(* of them can take a step, whatever the handlers do.                      *)

LoopLeft ==
  CASE loop = "setup"   -> 2 * MaxMessages + 4
    [] loop = "writing" -> 2 * MaxMessages + 3
    [] loop = "pulling" -> 2 * MaxMessages + 2
    [] loop = "sending" -> 2 * Cardinality(In("pulled")) + 1
    [] loop = "check"   -> 1
    [] loop = "done"    -> 0

DispatcherLeft == IF dispatch = "acquiring" THEN 2 ELSE IF dispatch = "done" THEN 0 ELSE 1

(* How many steps the loop and the dispatcher have left once g.shutdown is *)
(* set. *)
StepsLeft == LoopLeft + DispatcherLeft

(* As long as the loop is not done, it can take a step that needs nobody   *)
(* else, or hand a message to the dispatcher; or the dispatcher has one in *)
(* hand, which it takes a token for or drops.                              *)
LoopAdvances ==
  \/ loop \in {"setup", "check", "writing", "pulling"}
  \/ loop = "sending" /\ dispatch = "idle" /\ \E d \in Deliveries : phase[d] = "pulled"
  \/ dispatch = "acquiring" /\ \E d \in Deliveries : phase[d] = "offered"

StepsTyped ==
  /\ MaxMessages \in Nat
  /\ Cardinality(In("pulled")) \in Nat
  /\ LoopLeft \in 0..(2 * MaxMessages + 4)
  /\ DispatcherLeft \in 0..2

LEMMA StepsLeftType == Sound /\ Buffered => StepsTyped
<1> SUFFICES ASSUME Sound, Buffered PROVE StepsTyped
  OBVIOUS
<1>1. MaxMessages \in Nat /\ Cardinality(In("pulled")) \in 0..MaxMessages
  BY MaxMessagesType, HoldersFinite, FS_CardinalityType DEF Sound, Buffered
<1>2. loop \in {"setup", "check", "writing", "pulling", "sending", "done"}
  BY DEF Sound, TypeOK
<1>3. LoopLeft \in 0..(2 * MaxMessages + 4)
  BY <1>1, <1>2 DEF LoopLeft
<1> QED
  BY <1>1, <1>3 DEF StepsTyped, DispatcherLeft

LEMMA StepsLeftTypeNext == Sound' /\ Buffered' => StepsTyped'
  BY StepsLeftType, PTL

(* After the shutdown each step of the loop and of the dispatcher leaves   *)
(* fewer of them, and no other step of the process or the service adds     *)
(* any. *)
LEMMA StepsLeftStep ==
  ASSUME Sound, Buffered, [Next]_vars, shutdown, shutdown'
  PROVE  /\ StepsLeft' <= StepsLeft
         /\ Setup \/ PullLoop \/ Dispatcher => StepsLeft' < StepsLeft
<1> DEFINE n == Cardinality(In("pulled"))
<1>a. Sound' /\ Buffered'
  BY SoundStep, BufferedStep
<1>b. /\ MaxMessages \in Nat /\ n \in Nat /\ n' \in Nat /\ n' <= MaxMessages'
      /\ LoopLeft \in Nat /\ DispatcherLeft \in Nat
  BY <1>a, StepsLeftType, StepsLeftTypeNext DEF Buffered, StepsTyped
<1>c. /\ TypeOK /\ (phase' = phase => n' = n)
      /\ (opts' = opts => MaxMessages' = MaxMessages)
  BY StillSets DEF Sound, Still, MaxMessages, Concurrency
<1> HIDE DEF n
<1> DEFINE Fewer == LoopLeft' + DispatcherLeft' < LoopLeft + DispatcherLeft
<1>d. LoopLeft =
        CASE loop = "setup"   -> 2 * MaxMessages + 4
          [] loop = "writing" -> 2 * MaxMessages + 3
          [] loop = "pulling" -> 2 * MaxMessages + 2
          [] loop = "sending" -> 2 * n + 1
          [] loop = "check"   -> 1
          [] loop = "done"    -> 0
  BY DEF LoopLeft, n
<1>e. LoopLeft' =
        CASE loop' = "setup"   -> 2 * MaxMessages' + 4
          [] loop' = "writing" -> 2 * MaxMessages' + 3
          [] loop' = "pulling" -> 2 * MaxMessages' + 2
          [] loop' = "sending" -> 2 * n' + 1
          [] loop' = "check"   -> 1
          [] loop' = "done"    -> 0
  BY DEF LoopLeft, n
<1>1. ASSUME Setup PROVE Fewer
  <2>1. dispatch = "none" /\ dispatch' = "idle" /\ loop = "setup" /\ loop' = "check"
    BY <1>1 DEF Setup, Sound, InHand
  <2> QED
    BY <1>b, <1>d, <1>e, <2>1 DEF DispatcherLeft
<1>2. ASSUME Register PROVE Fewer
  <2>1. loop = "writing" /\ loop' = "pulling" /\ UNCHANGED <<dispatch, opts>>
    BY <1>2 DEF Register
  <2> QED
    BY <1>b, <1>c, <1>d, <1>e, <2>1 DEF DispatcherLeft
<1>3. ASSUME PullMessages PROVE Fewer
  <2>1. loop = "pulling" /\ loop' = "sending" /\ UNCHANGED <<dispatch, opts>>
    BY <1>3 DEF PullMessages
  <2> QED
    BY <1>b, <1>c, <1>d, <1>e, <2>1 DEF DispatcherLeft
<1>4. ASSUME PullNothing PROVE Fewer
  <2>1. loop = "pulling" /\ loop' = "check" /\ UNCHANGED dispatch
    BY <1>4 DEF PullNothing
  <2> QED
    BY <1>b, <1>d, <1>e, <2>1 DEF DispatcherLeft
<1>5. ASSUME Quit PROVE Fewer
  <2>1. loop = "check" /\ loop' = "done" /\ UNCHANGED dispatch
    BY <1>5 DEF Quit
  <2> QED
    BY <1>b, <1>d, <1>e, <2>1 DEF DispatcherLeft
<1>6. ASSUME NEW d \in Deliveries, HandOver(d) PROVE Fewer
  <2>1. /\ loop = "sending" /\ dispatch = "idle" /\ dispatch' = "acquiring"
        /\ loop' = IF In("pulled") = {d} THEN "check" ELSE "sending"
        /\ d \in In("pulled")
    BY <1>6 DEF HandOver, In
  <2>2. In("pulled")' = In("pulled") \ {d}
    BY <1>6, <1>c, Moved DEF HandOver, Phases, Waiting
  <2>3. n' = n - 1
    BY <2>1, <2>2, HoldersFinite, FS_RemoveElement DEF n
  <2>4. n >= 1
    BY <1>b, <2>3
  <2> QED
    BY <1>b, <1>d, <1>e, <2>1, <2>3, <2>4 DEF DispatcherLeft
<1>7. ASSUME NEW d \in Deliveries, AcquireFails(d) \/ Acquire(d) PROVE Fewer
  <2>1. /\ UNCHANGED <<opts, loop>> /\ dispatch' = "idle"
        /\ phase[d] = "offered" /\ \E p \in {"over", "running"} : Move(d, p)
    BY <1>7 DEF AcquireFails, Acquire
  <2>2. dispatch = "acquiring"
    BY <2>1 DEF Sound, InHand, In
  <2>3. In("pulled")' = In("pulled")
    <3>1. In("pulled")' = In("pulled") \ {d}
      BY <1>c, <2>1, Moved DEF Phases, Waiting
    <3> QED
      BY <2>1, <3>1 DEF In
  <2>4. LoopLeft' = LoopLeft
    BY <1>c, <2>1, <2>3 DEF LoopLeft
  <2> QED
    BY <1>b, <2>1, <2>2, <2>4 DEF DispatcherLeft
<1>8. ASSUME DispatcherEnds PROVE Fewer
  <2>1. UNCHANGED <<opts, loop, phase>> /\ dispatch = "idle" /\ dispatch' = "done"
    BY <1>8 DEF DispatcherEnds
  <2>2. LoopLeft' = LoopLeft
    BY <1>c, <2>1 DEF LoopLeft, n
  <2> QED
    BY <1>b, <2>1, <2>2 DEF DispatcherLeft
<1>9. Setup \/ PullLoop \/ Dispatcher => Fewer
  BY <1>1, <1>2, <1>3, <1>4, <1>5, <1>6, <1>7, <1>8 DEF PullLoop, Dispatcher, NewContext
<1>10. ASSUME UNCHANGED <<opts, loop, dispatch>>, In("pulled")' = In("pulled")
       PROVE  StepsLeft' = StepsLeft
  <2>1. LoopLeft' = LoopLeft
    BY <1>c, <1>10 DEF LoopLeft
  <2> QED
    BY <1>10, <2>1 DEF StepsLeft, DispatcherLeft
<1>11. ASSUME UNCHANGED vars \/ SetFlag \/ CancelAll \/ Restart
              \/ (\E m \in Messages : LeaseExpires(m))
              \/ (\E d \in Deliveries : HandlerAcks(d))
       PROVE  StepsLeft' = StepsLeft
  <2>1. UNCHANGED <<opts, loop, dispatch, phase>>
    BY <1>11 DEF vars, SetFlag, CancelAll, Restart, LeaseExpires, HandlerAcks
  <2> QED
    BY <1>10, <2>1 DEF In
<1>12. ASSUME NEW d \in Deliveries, HandlerReturns(d) \/ Worker(d)
       PROVE  StepsLeft' = StepsLeft
  <2>1. /\ UNCHANGED <<opts, loop, dispatch>>
        /\ phase[d] # "pulled" /\ \E p \in Phases \ {"pulled"} : Move(d, p)
    BY <1>12 DEF HandlerReturns, Worker, LookAtErr, Leave, Phases, Holding
  <2>2. In("pulled")' = In("pulled") \ {d}
    BY <1>c, <2>1, Moved DEF Phases, Waiting
  <2>3. In("pulled")' = In("pulled")
    BY <2>1, <2>2 DEF In
  <2> QED
    BY <1>10, <2>1, <2>3
<1>13. ~(Kill \/ SetupFails \/ ConcurrentMapAccess)
  BY DEF Kill, SetupFails, ConcurrentMapAccess, ProcessEnds
<1>14. Setup \/ PullLoop \/ Dispatcher \/ StepsLeft' = StepsLeft
  BY <1>11, <1>12, <1>13 DEF Next, Process
<1>15. StepsLeft \in Nat
  BY <1>b DEF StepsLeft
<1> HIDE DEF Fewer
<1>16. Fewer => StepsLeft' < StepsLeft
  BY DEF Fewer, StepsLeft
<1>17. StepsLeft' \in Nat
  BY <1>a, StepsLeftTypeNext DEF StepsLeft, StepsTyped
<1>18. StepsLeft' < StepsLeft \/ StepsLeft' = StepsLeft
  BY <1>9, <1>14, <1>16
<1> QED
  BY <1>9, <1>15, <1>16, <1>17, <1>18

(* Once Shutdown has set its flag, the loop and the dispatcher take at     *)
(* most 2 * MaxMessages + 6 steps more in this life of the process: one    *)
(* last pull, and what it takes to hand over and let go of that batch.     *)
THEOREM ShutdownCountsDown ==
  Spec => /\ [](StepsLeft \in 0..(2 * MaxMessages + 6))
          /\ [][shutdown /\ shutdown' =>
                  /\ StepsLeft' <= StepsLeft
                  /\ Setup \/ PullLoop \/ Dispatcher => StepsLeft' < StepsLeft]_vars
<1>1. Sound /\ Buffered => StepsLeft \in 0..(2 * MaxMessages + 6)
  BY StepsLeftType DEF StepsLeft, StepsTyped
<1>2. Sound /\ Buffered /\ [Next]_vars =>
        [shutdown /\ shutdown' =>
           /\ StepsLeft' <= StepsLeft
           /\ Setup \/ PullLoop \/ Dispatcher => StepsLeft' < StepsLeft]_vars
  BY StepsLeftStep
<1> QED
  BY <1>1, <1>2, Buffering, Soundness, PTL DEF Spec

(* The loop never waits for a handler: until it is done, it or the         *)
(* dispatcher can take a step, even when no handler ever returns.          *)
THEOREM LoopNeverStuck == Spec => [](loop # "done" => LoopAdvances)
<1>1. Sound /\ Buffered /\ loop # "done" => LoopAdvances
  <2> SUFFICES ASSUME Sound, Buffered, loop = "sending", dispatch # "acquiring"
               PROVE  dispatch = "idle" /\ \E d \in Deliveries : phase[d] = "pulled"
    <3>1. Sound => loop \in {"setup", "check", "writing", "pulling", "sending", "done"}
      BY DEF Sound, TypeOK
    <3>2. Sound /\ dispatch = "acquiring" => \E d \in Deliveries : phase[d] = "offered"
      BY DEF Sound, InHand, In
    <3> QED
      BY <3>1, <3>2 DEF LoopAdvances
  <2>1. dispatch = "idle"
    BY DEF Sound, TypeOK, InHand, Buffered
  <2>2. In("pulled") # {}
    BY DEF Sound, InHand
  <2> QED
    BY <2>1, <2>2 DEF In
<1> QED
  BY <1>1, Buffering, Soundness, PTL
=============================================================================
