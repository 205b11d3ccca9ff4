------------------------------- MODULE Kafka -------------------------------
(***************************************************************************)
(* providers/kafka/kafka.go: each Subscribe makes a Reader of a consumer   *)
(* group and starts a loop that fetches a message, calls the handler and   *)
(* commits the offset.  The provider has one field Reader, which every     *)
(* Subscribe overwrites and every loop and acknowledgement reads again.    *)
(*                                                                         *)
(* All subscriptions are to one topic of one partition, whose messages are *)
(* numbered from 1.  A commit of a number is a commit of all up to it.     *)
(* Readers (kafka-go) buffer what they fetch and commit once a second what *)
(* was acknowledged since; the broker assigns the partition to one reader  *)
(* of each group at a time, and may change its mind.                       *)
(*                                                                         *)
(* A name with an underscore (Ack_Next) is the definition before the       *)
(* underscore with a bug put in; nothing refers to it.                     *)
(***************************************************************************)
EXTENDS Integers

CONSTANTS
  Procs,    \* processes, each with one Provider
  Groups,   \* consumer groups: ServiceName.Name
  Subs,     \* calls of Subscribe
  ProcOf,   \* the process a subscription is made in
  GroupOf,  \* its group
  MaxLog,   \* bound on the number of messages
  AutoAck   \* HandlerOptions.AutoAck

ASSUME SubsAssumption    == ProcOf \in [Subs -> Procs] /\ GroupOf \in [Subs -> Groups]
ASSUME LogAssumption     == MaxLog \in Nat
ASSUME AutoAckAssumption == AutoAck \in BOOLEAN

None == "none"

ASSUME NoneAssumption == None \notin Subs

VARIABLES
  log,        \* how many messages the topic has
  committed,  \* the last message committed for each group
  owner,      \* the reader the partition is assigned to, for each group
  writer,     \* the processes with a writer for the topic in p.writers
  reader,     \* p.Reader: the subscription that made it
  state,      \* each subscription's Reader: "none", "open" or "closed"
  next,       \* the message that it hands out next
  fetched,    \* the last message that it has in its buffer
  stash,      \* the last message acknowledged, to be committed, or 0
  loop,       \* where each subscription's loop is
  on,         \* the reader that its FetchMessage was called on
  msg,        \* the message in its hands, 0 for none or an empty one
  handled     \* history: what each group's handlers are done with

brokerVars == <<log, committed, owner, writer>>
readerVars == <<state, next, fetched, stash>>
vars == <<brokerVars, reader, readerVars, loop, on, msg, handled>>

Offsets  == 0..MaxLog
Max2(a, b) == IF a > b THEN a ELSE b

-----------------------------------------------------------------------------
(* Publish. *)

(* writerForTopic creates the topic and a writer on the first use; any     *)
(* step may fail. *)
Publish(p) ==
  /\ writer' \in {writer, writer \cup {p}}
  /\ \/ UNCHANGED log
     \/ /\ p \in writer'
        /\ log < MaxLog
        /\ log' = log + 1
  /\ UNCHANGED <<committed, owner, reader, readerVars, loop, on, msg, handled>>

-----------------------------------------------------------------------------
(* The readers and the broker. *)

(* The broker assigns a group's partition to one of its readers, or takes  *)
(* it away.  The reader starts behind the last commit. *)
Assign(g, s) ==
  /\ GroupOf[s] = g
  /\ state[s] = "open"
  /\ owner'   = [owner EXCEPT ![g] = s]
  /\ next'    = [next EXCEPT ![s] = committed[g] + 1]
  /\ fetched' = [fetched EXCEPT ![s] = committed[g]]
  /\ UNCHANGED <<log, committed, writer, reader, state, stash, loop, on, msg, handled>>

Fetch(s) ==
  /\ owner[GroupOf[s]] = s
  /\ fetched[s] < log
  /\ fetched' = [fetched EXCEPT ![s] = @ + 1]
  /\ UNCHANGED <<brokerVars, reader, state, next, stash, loop, on, msg, handled>>

(* A reader that has lost the partition finds out and drops its buffer.    *)
DropBuffer(s) ==
  /\ state[s] = "open"
  /\ owner[GroupOf[s]] # s
  /\ next' = [next EXCEPT ![s] = fetched[s] + 1]
  /\ UNCHANGED <<brokerVars, reader, state, fetched, stash, loop, on, msg, handled>>

(* CommitInterval.  The broker takes a commit of any member of the group,  *)
(* also one that has lost the partition, and one that is behind. *)
Commit(s) ==
  /\ stash[s] # 0
  /\ committed' = [committed EXCEPT ![GroupOf[s]] = stash[s]]
  /\ stash' = [stash EXCEPT ![s] = 0]
  /\ UNCHANGED <<log, owner, writer, reader, state, next, fetched, loop, on, msg, handled>>

CommitLost(s) ==
  /\ stash[s] # 0
  /\ stash' = [stash EXCEPT ![s] = 0]
  /\ UNCHANGED <<brokerVars, reader, state, next, fetched, loop, on, msg, handled>>

-----------------------------------------------------------------------------
(* Subscribe. *)

Subscribe(s) ==
  /\ loop[s] = "none"
  /\ loop'   = [loop EXCEPT ![s] = "top"]
  /\ state'  = [state EXCEPT ![s] = "open"]
  /\ reader' = [reader EXCEPT ![ProcOf[s]] = s]
  /\ UNCHANGED <<brokerVars, next, fetched, stash, on, msg, handled>>

(* The reader that p.Reader is when a loop or an acknowledgement reads it. *)
Reader(s) == reader[ProcOf[s]]

CallFetch(s) ==
  /\ loop[s] = "top"
  /\ loop' = [loop EXCEPT ![s] = "fetching"]
  /\ on'   = [on EXCEPT ![s] = Reader(s)]
  /\ UNCHANGED <<brokerVars, reader, readerVars, msg, handled>>

FetchMessage(s) ==
  LET r == on[s]
  IN  /\ loop[s] = "fetching"
      /\ next[r] <= fetched[r]
      /\ msg'  = [msg EXCEPT ![s] = next[r]]
      /\ next' = [next EXCEPT ![r] = @ + 1]
      /\ loop' = [loop EXCEPT ![s] = "handling"]
      /\ on'   = [on EXCEPT ![s] = None]
      /\ UNCHANGED <<brokerVars, reader, state, fetched, stash, handled>>

(* FetchMessage fails, as it does when the reader is closed and its buffer *)
(* is empty; the loop sleeps, and goes on with the empty message.          *)
FetchFails(s) ==
  LET r == on[s]
  IN  /\ loop[s] = "fetching"
      /\ state[r] = "open" \/ next[r] > fetched[r]
      /\ msg'  = [msg EXCEPT ![s] = 0]
      /\ loop' = [loop EXCEPT ![s] = "handling"]
      /\ on'   = [on EXCEPT ![s] = None]
      /\ UNCHANGED <<brokerVars, reader, readerVars, handled>>

Ack_Next(s) ==
  LET r == Reader(s)
  IN  stash' = IF state[r] = "open" /\ msg[s] # 0
               THEN [stash EXCEPT ![r] = Max2(@, next[r])]
               ELSE stash

(* CommitMessages, which does nothing on a reader that is closed, or to an *)
(* empty message but to make a commit fail. *)
Ack(s) ==
  LET r == Reader(s)
  IN  stash' = IF state[r] = "open" /\ msg[s] # 0
               THEN [stash EXCEPT ![r] = Max2(@, msg[s])]
               ELSE stash

Done(s) ==
  handled' = IF msg[s] = 0 THEN handled ELSE handled \cup {<<GroupOf[s], msg[s]>>}

(* The handler calls msg.Ack itself. *)
HandlerAcks(s) ==
  /\ loop[s] = "handling"
  /\ Ack(s)
  /\ Done(s)
  /\ UNCHANGED <<brokerVars, reader, state, next, fetched, loop, on, msg>>

HandlerSucceeds(s) ==
  /\ loop[s] = "handling"
  /\ IF AutoAck THEN Ack(s) ELSE UNCHANGED stash
  /\ Done(s)
  /\ loop' = [loop EXCEPT ![s] = "top"]
  /\ msg'  = [msg EXCEPT ![s] = 0]
  /\ UNCHANGED <<brokerVars, reader, state, next, fetched, on>>

HandlerFails_GoesOn(s) ==
  /\ loop[s] = "handling"
  /\ loop' = [loop EXCEPT ![s] = "top"]
  /\ msg'  = [msg EXCEPT ![s] = 0]
  /\ UNCHANGED <<brokerVars, reader, readerVars, on, handled>>

(* break: the loop ends, and the reader stays. *)
HandlerFails(s) ==
  /\ loop[s] = "handling"
  /\ loop' = [loop EXCEPT ![s] = "done"]
  /\ msg'  = [msg EXCEPT ![s] = 0]
  /\ UNCHANGED <<brokerVars, reader, readerVars, on, handled>>

-----------------------------------------------------------------------------
(* Shutdown, and the end of a process. *)

(* Close commits what it still has, if it can, and leaves the group.  What *)
(* is in the buffer can still be fetched. *)
Shutdown(p) ==
  LET r == reader[p]
  IN  /\ r # None
      /\ state[r] = "open"
      /\ state' = [state EXCEPT ![r] = "closed"]
      /\ stash' = [stash EXCEPT ![r] = 0]
      /\ owner' = [g \in Groups |-> IF owner[g] = r THEN None ELSE owner[g]]
      /\ \/ UNCHANGED committed
         \/ /\ stash[r] # 0
            /\ committed' = [committed EXCEPT ![GroupOf[r]] = stash[r]]
      /\ UNCHANGED <<log, writer, reader, next, fetched, loop, on, msg, handled>>

ProcessEnds(p) ==
  LET mine == {s \in Subs : ProcOf[s] = p}
      Reset(f, value) == [s \in Subs |-> IF s \in mine THEN value ELSE f[s]]
  IN  /\ writer'  = writer \ {p}
      /\ reader'  = [reader EXCEPT ![p] = None]
      /\ state'   = Reset(state, "none")
      /\ next'    = Reset(next, 1)
      /\ fetched' = Reset(fetched, 0)
      /\ stash'   = Reset(stash, 0)
      /\ loop'    = Reset(loop, "none")
      /\ on'      = Reset(on, None)
      /\ msg'     = Reset(msg, 0)
      /\ owner'   = [g \in Groups |-> IF owner[g] \in mine THEN None ELSE owner[g]]
      /\ UNCHANGED <<log, committed, handled>>

(* Close on a nil Reader panics. *)
ShutdownPanics(p) ==
  /\ reader[p] = None
  /\ ProcessEnds(p)

Kill(p) == ProcessEnds(p)

-----------------------------------------------------------------------------
Init ==
  /\ log       = 0
  /\ committed = [g \in Groups |-> 0]
  /\ owner     = [g \in Groups |-> None]
  /\ writer    = {}
  /\ reader    = [p \in Procs |-> None]
  /\ state     = [s \in Subs |-> "none"]
  /\ next      = [s \in Subs |-> 1]
  /\ fetched   = [s \in Subs |-> 0]
  /\ stash     = [s \in Subs |-> 0]
  /\ loop      = [s \in Subs |-> "none"]
  /\ on        = [s \in Subs |-> None]
  /\ msg       = [s \in Subs |-> 0]
  /\ handled   = {}

Loop(s) == CallFetch(s) \/ FetchMessage(s) \/ FetchFails(s)

Handler(s) == HandlerAcks(s) \/ HandlerSucceeds(s) \/ HandlerFails(s)

Broker ==
  \/ \E g \in Groups, s \in Subs : Assign(g, s)
  \/ \E s \in Subs : Fetch(s) \/ DropBuffer(s) \/ Commit(s) \/ CommitLost(s)

Next ==
  \/ \E p \in Procs : Publish(p) \/ Shutdown(p) \/ ShutdownPanics(p) \/ Kill(p)
  \/ \E s \in Subs : Subscribe(s) \/ Loop(s) \/ Handler(s)
  \/ Broker

Spec == Init /\ [][Next]_vars

-----------------------------------------------------------------------------
(* Type invariant: readers and loops are at places that kafka.go has, a    *)
(* loop runs on a reader, and a partition belongs to an open reader of its *)
(* group. *)
TypeOK ==
  /\ log       \in Offsets
  /\ committed \in [Groups -> Offsets]
  /\ owner     \in [Groups -> Subs \cup {None}]
  /\ \A g \in Groups : owner[g] # None =>
       state[owner[g]] = "open" /\ GroupOf[owner[g]] = g
  /\ writer    \in SUBSET Procs
  /\ reader    \in [Procs -> Subs \cup {None}]
  /\ state     \in [Subs -> {"none", "open", "closed"}]
  /\ next      \in [Subs -> 1..(MaxLog + 1)]
  /\ fetched   \in [Subs -> Offsets]
  /\ stash     \in [Subs -> Offsets]
  /\ loop      \in [Subs -> {"none", "top", "fetching", "handling", "done"}]
  /\ on        \in [Subs -> Subs \cup {None}]
  /\ \A s \in Subs :
       /\ loop[s] # "none" => Reader(s) # None
       /\ loop[s] = "fetching" <=> on[s] # None
  /\ msg       \in [Subs -> Offsets]
  /\ handled   \in SUBSET (Groups \X (1..MaxLog))

(* With a Provider that subscribes once, no offset is ever committed past  *)
(* a message that some handler of the group was not done with, whichever   *)
(* process had it: commits are delayed, lost and overtaken by each other,  *)
(* and the partition wanders, while processes come and go.                 *)
NothingSkipped ==
  \A g \in Groups : \A o \in 1..committed[g] : <<g, o>> \in handled

(* A handler gets a message only after its group is done with all before:  *)
(* a message that fails stops its loop, and the next reader starts with it *)
(* again. *)
NoOvertaking ==
  \A s \in Subs : loop[s] = "handling" =>
    \A o \in 1..(msg[s] - 1) : <<GroupOf[s], o>> \in handled
=============================================================================
