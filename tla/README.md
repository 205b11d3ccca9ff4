# Verification of lileio-pubsub

TLA+ models of the Go library `github.com/lileio/pubsub/v2`, checked with TLC, and
proofs about them checked with TLAPS. Paths below are relative to the repository.

## The system

The library publishes messages to, and handles messages from, a message broker
behind the interface `Provider` (`pubsub.go:39-43`). An application registers
clients, publishes with package functions, and subscribes handlers.

| Component | State | Operations | What is hard | What makes it correct |
|---|---|---|---|---|
| Publishing (`publish.go`, `pubsub.go`) | the slice `clients`, the `sync.WaitGroup` all calls share, a `PublishResult` per call | `Publish`, `PublishJSON`, `PublishResult.Error`, `WaitForAllPublishing`, `SetClient`, `AddPublisherClient` | a goroutine per call and per client, with no lock; errors from several at once; waits that start in the middle | a result tells of every client, once and finally; a wait covers what was in flight; nothing hangs or panics |
| Subscribing (`subscribe.go`) | the unbuffered channel `wait` | `Subscribe`, `Shutdown`, `Client.On` | a rendezvous of two callers who may come alone; clients that change; options that `On` refuses | one shutdown releases one subscriber, and the program ends only when the providers are shut down |
| Google (`providers/google`) | per subscription a pull loop, a dispatcher, a semaphore, workers; the map `subs` of cancel functions | `Publish`, `Subscribe`, `Shutdown` | four kinds of goroutines, deadlines, redelivery, a variable they share | a message is acked only when its handler succeeded; the semaphore is exact; shutdown ends the loop |
| RabbitMQ (`providers/rabbitmq`) | a connection, a channel for publishers and one per subscription, `sync.RWMutex` | the same | connections that break, prefetch, acks on dead channels, the lock | as above, and no deadlock on the lock |
| Google v2 (`providers/google2`) | publishers, subscribers and cancel functions under a mutex, a client | the same | `Subscribe` racing `Shutdown` and other calls of the same name | every subscription ends; a unique one is deleted only when drained |
| Cloud Run (`providers/googlecloudrun`) | the map `subs` of handlers, the topics it knows under a mutex | the HTTP handler, the same | processes that set up the same topic; push requests during set-up, given up, answered late; topics half created | a process never races itself; every Subscribe gets there; only a 200 of a handler that was done takes a message |
| Kafka (`providers/kafka`) | one reader, writers by topic | the same | offsets, rebalances, failing fetches, a reader that is replaced | no offset is committed past a message that was not handled |
| NATS (`providers/nats`) | subscriptions by topic | the same | redelivery, flow control, subscriptions that failed, shutdown | as Google, and every message is handled in the end |
| Memory (`providers/memory`) | messages by topic, `RWMutex` | the same | handlers run under the lock, and may publish | no deadlock; a loop sees all that is published before it ends |
| Noop (`noop.go`) | none | the same | nothing | its `Publish` never fails (part of Publisher) |
| Middleware (`middleware/*`) | none | wrappers around publish and handle | order, panics | a panic becomes an error, and the metrics tell what happened |

They interact by calls: a package function calls every registered client, a
client its middleware and then its provider; the provider's goroutines call the
middleware and then the handler. `Shutdown` of the package calls every
provider's. Handlers may publish.

`PROJECT.json` lists the places where this code can go wrong ("hazards"), each
with the properties that would show it.

## Modules

| Module | What it is |
|---|---|
| `Publisher` | `publish.go` and the registration of clients in `pubsub.go`, one action per step of a goroutine that others can see |
| `PublishPromise` | what a call of `Publish` or `PublishJSON` promises its caller; `Publisher` implements it |
| `TopicSetup` | how `google.go` and `googlecloudrun.go` look up and make topics and subscriptions, by several processes |
| `CloudRun` | extends `TopicSetup` with the HTTP handler of `googlecloudrun.go` and the service that pushes to it |
| `GoogleCloud` | one subscription of `google.go` and `Shutdown`, with the Pub/Sub service's leases, and the process killed and started again |
| `RabbitMQ` | all of `rabbitmq.go` for subscriptions of one topic, with the broker, lost connections and restarts |
| `Google2` | all of `google2.go` for one topic: several `Subscribe` and `Publish` calls, and `Shutdown`, on one client |
| `Kafka` | all of `kafka.go` for one topic of one partition: several processes and consumer groups |
| `Nats` | all of `nats.go`: the subscriptions of one process, with the streaming server |
| `Lifecycle` | `Subscribe` and `Shutdown` of `subscribe.go`, the registered clients, and how the program ends |
| `Middleware` | what each member of a chain of middleware makes of the outcome of what it wraps |
| `Memory` | composes `Lifecycle` and `Middleware` with `memory.go`: a whole program on that provider |
| `AtLeastOnce` | what a provider promises about a message; `GoogleCloud`, `CloudRun`, `RabbitMQ`, `Google2` and `Nats` implement it |
| `PublisherProofs`, `GoogleCloudProofs`, `CloudRunProofs`, `RabbitMQProofs`, `Google2Proofs`, `KafkaProofs`, `NatsProofs`, `MemoryProofs` | the proofs about the module they are named for |
| `MCPublisher`, `MCGoogleCloud`, `MCCloudRun`, `MCRabbitMQ`, `MCGoogle2`, `MCKafka`, `MCNats`, `MCMemory` | the symmetry sets and the constants of the runs |

Definitions named `X_Y` are the definition `X` with a bug put in (`WgAdd_Dropped`
is `WgAdd` without the addition). Nothing in a module refers to them; replacing `X`
by one makes TLC find the property violated that `PROJECT.json` names with it,
which shows that the property depends on the code.

### Publisher

A call (`pc`) is idle, `"spawned"` (Publish has returned, its goroutine has not
run), in its loop (`"fanout"`) and `"ready"`. A client goroutine (`sub`) is in
`Client.Publish`, has returned, and then does what its two deferred calls and the
errgroup do, in their order; this differs between `Publish` and `PublishJSON`.

* The errgroup is a field that keeps the first error. The unsynchronised
  `pr.Err = err` of `PublishJSON` is two writes, because an interface value is two
  machine words; `AssignErrType` is the first, `LocalDone` the second with the
  `wg.Done` after it.
* `sync.WaitGroup` is Go's: `Done` at zero wakes the waiters in the same step; a
  woken waiter that finds the counter in use panics. That also stands for the
  runtime's check for an `Add` at the very moment a waiter parks.
* A panic ends the process (`crashed`); nothing happens after it.
* `clients` is a slice that is written without a lock. A reader could see a slice
  header of mixed words. The model leaves that out: where a mix could arise, the
  writer waits until no goroutine is about to read. No client is registered twice.
* What a client returns: an error of marshalling, for all clients of the call
  alike; its provider's error; or nil. Middleware is inside that call.

`covered` and `owed` are history variables for the properties.

### TopicSetup and CloudRun

Each process calls Subscribe once, each message is a call of Publish, and `at` is
where a call is: `"finding"` the subscription, `"wanting"` the mutex of `getTopic`,
`"asking"` whether the topic exists, `"creating"` it, `"creatingDead"` (the topic for
dead letters), `"attaching"` the subscription, `"storing"` the handler in the map,
`"ready"`; or `"publishing"` and `"sent"`. `Section` is who holds the mutex. The two
packages differ in the order of these and in the dead letter topic (`flavour`).

* Between a question to the service and the call that makes something, other
  processes run: the loser's call is refused (`Refused`). An error ends the process in
  Subscribe and is returned by Publish (`Fail`).
* `CallFails` is a call that fails, obeyed or not; `Kill` ends a process anywhere. Both
  count as `trouble`, up to `MaxTrouble`. `Restart` begins again with empty maps.
* `maker` is the process whose current life made a topic, for `NeverBeatenByItself`.

`CloudRun` adds the requests (`request`, one for each slot) and the state of a message
at the service (`queue`). The service gives a request up when it likes (`PushFails`),
and the request goes on in the process; its answer then counts for nothing
(`current`). The first status that a handler's Nack or return writes is the answer (`Wrote`);
its Ack writes none. A message that failed `MaxAttempts` times goes to the dead letter topic. The
map of handlers is read by requests while Subscribe writes it (`MayFind`, `MayMiss`,
`ConcurrentMapAccess`).

### GoogleCloud

`opts` are the options of the subscription and the number of deliveries of each
message, so that one run covers several sets of options. A delivery is one receipt
of a message, so that a message that is delivered twice can be with two workers. Its
`phase` goes from `"pulled"` (in the answer of Pull) over `"offered"` (with the
dispatcher) to `"running"`, `"succeeded"` or `"failed"`, and then to what the worker
decides when it looks at `err`; it ends `"over"`. `loop`, `dispatch` and `phase` are the
program counters of the pull loop, the dispatcher and the workers. The unbuffered `workQueue` is a
step of loop and dispatcher together (`HandOver`).

* `sem.Acquire` fails if the context is done: cancelled by Shutdown (`dead`), or
  past `opts.Deadline` while it waits for a token. With x/sync 0.16 a done context
  never acquires.
* `err` (`google.go:133`) is assigned by all workers and by the deletion of a
  unique subscription, without synchronisation. `LookAtErr` sees either the value
  that the worker wrote or the one the variable holds, the outcomes a build can have.
* Shutdown sets the flag, and ranges over `g.subs` while the loop may be writing to
  it (`ConcurrentMapAccess`): Go ends the process.
* The service takes late acks. A nack extends the lease by 300 seconds, so the
  message stays leased until the lease ends.
* `SetupFails` stands for any failure of the five calls before the loop, which
  `TopicSetup` takes apart.
* A handler that does not return holds its token for good. A handler's panic ends
  the process, which is `Kill`. What ends the process (`ProcessEnds`) loses all that
  is in memory and leaves the service as it is; `Restart` sets up again, except for a
  unique subscription, whose name is made up at each start.
* An answer of Pull may be lost: its messages stay leased, and nobody has them.

### RabbitMQ

`program` says which calls a program makes, with which options. `consumer` is where
a call of Subscribe, and then its goroutine, is. `Readers`, `CanRead` and `CanWrite` are the `sync.RWMutex`, a waiting writer keeping new readers
out. Publish keeps the read lock over its calls to the broker; a consumer takes it
for the look at `r.shutdown` only; Subscribe and Shutdown run under the write lock
in a step each, since nothing they do shows to others before they are through.

The broker (`Deliver`, `Expire`, `Requeued`) and the client library (`buffer`,
`ChannelEnds`) are modelled from their use: prefetch, messages that go back to the
queue when a channel closes, a channel that the broker closes when a delivery is
settled twice. Queues and their bindings outlive the process (`Restart`).

### Google2

`at` is where each call of Subscribe and of Publish is. Both begin with `ensureTopic`
(`GetTopic`, `CreateTopic`), whose two requests are two steps, so that two callers can
both find the topic missing; the loser's Publish returns an error, the loser's
Subscribe ends the process (`SetupPanics`). `program` says which calls a program
makes and with which options, so that one run covers several programs.

* `cancels` is `g.cancels`, by name: a second Subscribe of a name replaces the entry,
  and its Receive fails (`InProgress`), since both have one `Subscriber`.
* Shutdown copies the map (`Shutdown`), calls the cancel functions (`Cancel`), stops
  the publisher while it holds `g.mu` (`StopPublishers`, `PublishersStopped`; `MuFree`
  is what others wait for), and closes the client. It waits for no Receive.
* A Receive ends when it is cancelled, when the client is closed, or by an error; it
  returns when its callbacks have (`Drained`), as the client library documents it.
* Answers go out asynchronously and may get lost; the first one of a delivery counts.
* The semaphore is released, and the last answer given, in one step with the return
  of the handler: no other goroutine can tell.

### Kafka

`reader` is the field `p.Reader`. A loop reads it when it calls FetchMessage
(`CallFetch` keeps it in `on`), and an acknowledgement reads it again (`Reader`).
The Reader of kafka-go is modelled from its use and its configuration in `kafka.go`:
it fetches ahead (`fetched`), hands out in order (`next`), keeps the highest offset
that was acknowledged (`stash`) and commits once a second (`Commit`), if it can; a
closed one still hands out what it has. The broker assigns the partition to a reader
of the group, and to another one at any time (`Assign`); a reader that lost it learns
that late (`DropBuffer`), and its commits still count. A failing fetch hands the
handler an empty message, as the code does.

### Nats

A durable queue group has the messages that are not acked (`unacked`), and each
member those in flight to it, at most MaxInflight. They stay in flight, and are sent
again after AckWait, until they are acked or the member is gone. `topics` is the map
`n.topics`; `Store` writes it also for a subscription that failed (`"nil"`). Connections
that stan gives up are lost for good (`ConnectionLost`), as the code never connects
again. `ConcurrentMapAccess` is Go's fatal error for a map that is written and ranged
over at once.

### Lifecycle, Middleware and Memory

`Lifecycle` has the calls of `Subscribe` and `Shutdown`. A send on the unbuffered `wait`
and the receive are one step of both (`Meet`). Then Shutdown ranges over the clients
registered at that moment (`RangeClients`), one provider after the other. The main
goroutine makes one of the calls (`Mains`); when that returns the program ends
(`MainReturns`). `On` panics about options it refuses (`OnRefuses`). `swapped` tells that
SetClient replaced the clients, and with them the one to shut down.

`Middleware` has no state. A handler or a provider ends in an outcome, nil, an error or a
panic; `ThroughSubscribers` and `ThroughPublishers` take it through the chain, from the
inside out, with what the prometheus middleware counts. Writing to metadata that is nil
panics (`AuditPanics`): a message that `Client.Publish` makes has none until a tracing
middleware, further out, gives it some.

`Memory` puts the two around the provider. `Writers` are calls of Publish that wait for
the lock and keep new readers out; `Readers` are loops of Subscribe, which run the
handlers under the read lock on the slice they saw when they began (`slice`). A handler
may publish and wait for the result (`HandlerPublishes`); then it waits for itself.
A call of the package's `Subscribe` is here one call of `On`; for clients that are
not the memory provider's, it returns at once.

## Runs

Two to four kinds of actors with one or two members each are enough for the
hazards listed: all of them are races between two steps of two actors. The safety
properties are proved without these bounds (see Proofs); so is each `TypeOK`, which is
therefore in no configuration. The liveness properties hold on these instances.

| Run | Instance | What it shows |
|---|---|---|
| `publish` | 2 calls, 3 clients (one Noop, two that may fail), 2 registered at most | the result tells of every client, and its error is one of the call's own, also when its two words come from two clients; it is final; `PublishPromise` is implemented |
| `publish_wait` | 2 calls, 1 client at a time, 1 waiter, fair | the counter is exact, a wait covers what was counted; every result becomes ready and every wait returns |
| `google` | three subscriptions: one worker, AutoAck, 2 messages of 2 deliveries; a unique one with 2 workers and 2 messages; 2 workers on 2 deliveries of one message; fair | the semaphore is exact and nothing pulled is forgotten; at-least-once, but for what goes with the unique subscription, when it may; the loop ends after Shutdown, and every delivery is settled or dropped |
| `rabbit` | three programs: one subscription with a message and one that does not decode, and a Shutdown; one whose prefetch window of 2 is full; two subscriptions with AutoAck, a publisher and 2 Shutdowns; fair | acks only with consent and at-least-once; with AutoAck nothing is handled twice; nothing undecodable clogs the window; the lock keeps Publish off closed channels; Shutdown returns though handlers hang and closes every channel; consumers end |
| `cloudrun` | 2 processes, 1 message published by one of them, both packages, up to 2 failures or kills, 2 open requests, 2 attempts, fair | a process never loses a topic to itself; all get subscribed, except when the dead letter topic was left out; at-least-once under pushes that are given up and answered late |
| `memory` | 2 clients, 2 calls of Subscribe of which one may be refused, 2 Shutdowns, main in either, a message and one that cannot be read, three chains of middleware, fair | one Shutdown ends one Subscribe; a program that ends in Shutdown has shut down what it set up; a loop sees all messages; metrics and panics; nothing hangs but what has nobody to meet |
| `google2` | a program with 2 subscriptions of one name; one with a unique subscription and a publisher; 1 message of up to 2 deliveries, concurrency 1, fair | callbacks stay inside their Receive and the semaphore is exact; only a drained, unique subscription is deleted; at-least-once, but for what goes with it; Shutdown returns and every Subscribe ends after it |
| `kafka_deliver` | 2 processes with 1 reader each in one group, 2 messages, AutoAck | no commit past an unhandled message, no message out of turn, through rebalances, lost commits and kills |
| `nats` | 2 members of one group with 2 and 1 messages in flight, 1 message and 1 that cannot be read, AutoAck, fair | at-least-once; after Shutdown nothing receives, in the map or not; a member that stays up gets every message handled if it may have more in flight than are unreadable |

Bounds: `MaxFanout` on registered clients; `MaxDeliveries` and `MaxDelivered` on
how often a broker delivers a message; `MaxTrouble` on failing calls and kills in
`cloudrun`; `MaxLog` on the messages of `kafka_deliver`. Concurrency 1 makes the
semaphore run out with two messages; with 2, the batch is two messages long and the
workers race. Two deliveries give a redelivery after a failure, a drop or a crash. In
`google2` two deliveries of one message are with two callbacks at once, of which one
waits for the semaphore. Two failures in `cloudrun` make two calls fail, or lose an
answer and then kill a process; two slots let a push that was given up answer after
the next one. `MaxLog` 2 lets one message overtake another; it shows skips by one
offset, and a commit that goes back. `nats` needs no bound but the number of messages.
One client at a time is enough in `publish_wait`: two calls already take the WaitGroup
up to two, down to zero and up again. In `publish` the two clients beside the
Noop client fail with different errors, so that the error of a `PublishJSON` may have a
word of each. `publish` leaves out registrations after the last call has chosen its
clients (`ClientsMatter`): nothing reads the list any more, so this loses no behaviour
of a call. In `memory` two calls of each kind let a Shutdown
and a Subscribe come too early, too late and alone.

Deadlock is not checked in four cases, where the program may stop by right: in the
`MCPublisher` runs (all calls are made, or a panic), in `google` (a killed process
does not find its unique subscription again), in `cloudrun` (all calls are made and
no trouble is left) and in `memory` (the program ends). In the others processes are
restarted and never stop.

Fairness: the Go scheduler runs every goroutine that can go on, the read and write
locks are handed on (Go's RWMutex does not starve either side), and calls to a
broker return, since the clients break connections that stay silent. Handlers
need not return: `EveryDeliveryLeaves`, `ConsumersEnd`, `SubscriptionsEnd`,
`PublishReturns` and `ShutdownMeetsSomebody` have that as a premise, and `EveryMessageHandled` the fairness `HandlersSucceed`: a message
that the handlers of a group get again and again is handled one day and its ack
arrives. Strong fairness of `Call` stands for the order in which the client library
hands messages to the callback, which the model's set `buffer` does not keep. The
other properties hold without any of this. In `CloudRun` every call of a process goes on,
with an answer or an error, and a process that ended is started again, as the platform
does. In `Memory` the steps of Publish, of the loops and of Shutdown are fair, each for
itself (`Fairness`). The application is never obliged to call anything, and the brokers
need not deliver.

## Where the code and its words differ

Runs with the expectation "violation" check a sentence of the repository that the
code does not keep:

| Run | Sentence | What happens |
|---|---|---|
| `wait_misses_calls` | `publish.go:100` | the wait misses a Publish whose goroutine has not run |
| `google_shared_err` | `subscribe.go:46` | a failed message is acked because another handler succeeded |
| `kafka_wrong_reader` | `subscribe.go:46` | a message is committed for a group that never handled it, since a second Subscribe has replaced the reader |

Others are visible in the modules' actions and have no run of their own:

* a Publish during the wake-up makes the wait panic (`WaitPanic`; `publish.go:100`);
* two failures of PublishJSON may mix into an error nobody returned, though not with
  another call's or with nil (`AssignErrType`, `PublishErrIsOwn`; `publish.go:41`);
* Publish goes to the clients registered when its goroutine runs (`EnterLoop`;
  `publish.go:48-49`);
* Shutdown and the loop of Google access a map at once, which is fatal
  (`ConcurrentMapAccess`; `google.go:108`), and so may those of NATS;
* handlers start after the Shutdown of Google and of RabbitMQ has returned (`Acquire`
  after `CancelAll`; `CheckShutdown` before `ShutdownRuns`; `google.go:108`,
  `rabbitmq.go:300`);
* with AutoAck the RabbitMQ broker settles a message when it sends it (`Deliver`;
  `subscribe.go:46`), so that `AtLeastOnce` says nothing of the programs of `rabbit` with
  AutoAck (`FateOf`): there a message is handled at most once (`AutoAckedOnce`), and lost
  if its handler fails or the process ends before;
* a Kafka loop whose reader is closed calls the handler with empty messages for ever
  (`FetchFails`; `subscribe.go:58`);
* Shutdown of Google v2 ends the process when a Subscribe is still setting up
  (`SetupPanics`; `google2.go:208`), and that of NATS when one has failed
  (`CloseNil`; `nats.go:142`);
* a topic of Cloud Run may be left for good without the dead letter topic, and then
  nobody can subscribe (`CreateDeadTopic`; `googlecloudrun.go:292`);
* `msg.Ack` does nothing with Cloud Run (`HandlerNacks`; `pubsub.go:60`);
* `Subscribe` listens to no signal, and a program whose main goroutine is in it exits
  before Shutdown has reached a provider (`Meet`, `MainReturns`; `subscribe.go:16-17`);
* two of the example publishers read `r.Err` before the result is ready (`publish.go:37`).

## Proofs

Every invariant, action property and refinement that a passing run checks is also
proved, for every value of the constants that the assumptions allow, together with
the type correctness of every module with state. Beyond these, theorems that no run
states say what a component can hold at most, how it ends, and what a chain of
middleware of any length does. Each proof has the same shape: `Init` implies the
invariant, each step keeps it (a lemma with a step per action), and the invariant
implies the property. None of the properties is inductive by itself; this is what the
invariants add.

| Module | Proved | The argument | Assumed |
|---|---|---|---|
| `PublisherProofs` | `CounterExact`, `WaitCoversCounted`, `AnswerTellsAll`, `PublishErrIsOwn`, `ReadyIsFinal`, `KeepsPromise` | `Places`: which places a call and its goroutines can be at together, without which a `Done` could come from a goroutine that was never counted. `WaitInv`: a parked waiter has something to wait for, and what it counted has let go when it is woken; no goroutine takes the WaitGroup twice (`NoReturnStep`). `Errors`: where the error of a call is on its way. `Words`: each of its two words is one that a failing client of the call returned | finitely many calls (cardinalities are counted); `MaxFanout` positive |
| `GoogleCloudProofs` | `TokensExact`, `NothingForgotten`, `DeliversAtLeastOnce`; `BoundedMemory`, `ShutdownCountsDown`, `LoopNeverStuck` | `Sound`: the tokens, and who has a batch or a delivery in hand (`InHand`). `Justified`: a worker that is about to ack has the consent of its handler. `Buffered`: no pull before the last batch is handed over. `StepsLeft`: what the loop and the dispatcher have left to do after Shutdown | finitely many messages; for `DeliversAtLeastOnce`, AutoAck only with one worker, since `google_shared_err` shows that it fails otherwise |
| `CloudRunProofs` | `NeverBeatenByItself`, `DeliversAtLeastOnce`; `HalfMadeIsForever` | `Serial`: one call of a process at a time is between the look-up of a topic and its creation. `Queue`: a message that somebody waits for is pushed. `Honest`: a request answers 200 only with consent. `InOrder`: a subscription comes after the dead letter topic, and whoever is served after the subscription | those of the modules |
| `RabbitMQProofs` | `UnackedIsWithConsumer`, `AutoAckedOnce`, `NoPublishAfterClose`, `ShutdownClosesAll`, `DeliversAtLeastOnce`; `PrefetchBounds`, `ConsumersCountDown`, `NoConsumerSleeps` | `Closing`: what the lock keeps apart. `Hands`: what a consumer has not settled is unacked, and no copy of it is in its buffer. `Once`: with AutoAck nothing is unacked, so that nothing ever goes back, and each message is in one place of the consumer at most. `Light`: what it holds is part of what the broker counts in the window. `Attached`: a consumer that runs has a channel | those of the module |
| `Google2Proofs` | `CallbacksBounded`, `DeletedWhenDrained`, `DeliversAtLeastOnce`; `SubscriptionsRunOut`, `NoSubscribeHangs`, `NoNewSenders` | `OneReceive`: Receives of one name do not overlap, and callbacks run inside one. `TokensOut`. `DeletedIsOver`, `GoneIsOver`: what goes with a subscription goes when the call that owns its name is done. `Closing`: how far Shutdown is, the publishers and the client | finitely many messages |
| `KafkaProofs` | `NothingSkipped`, `NoOvertaking`; `OneByOne` | `Own`: a loop reads from its own reader. `Behind`: a reader that may hand something out stands right behind what its group is done with, or behind the message its loop has in its hands | one subscription for each process, since `kafka_wrong_reader` shows that it fails otherwise |
| `NatsProofs` | `ShutdownStopsAll`, `DeliversAtLeastOnce`; `NothingVanishes`, `NeverClogged` | what is in flight is unacked and within the limit of a member that receives (in `TypeOK`). `Closed`: a connection that Shutdown closed stays so. `Fresh`: nothing is unacked for a group that nobody has made | finitely many messages |
| `MemoryProofs` | `OneForOne`, `ExitIsGraceful`, `LoopSeesAll`, `MetricsTellTruth`, `DefaultSurvives`; `ChainKeepsOutcome`, `ChainCounts`, `PublisherTells`, `ChainSurvives`, `WatchedTellTruth`, `NoneTooMany` | `Graceful`: until SetClient is called again every Subscribe is on the first client, which is among those that each Shutdown has yet to shut down or has. `Passes`: the equation of a chain, member by member. `Backwards`: induction from its far end | finitely many calls of Subscribe and Shutdown; a chain that counts a message once at most |

The refinements are proved by a lemma that takes every step to a step of the promise
or to a stutter (`FateStep` in most modules).

The messages that `AtLeastOnce` lets go without consent are those in `expiring`, which
each provider fills by its own rule, and at each moment anew: none with NATS; with
RabbitMQ and Cloud Run all, whose queues have a time to live or a dead letter topic;
with the two Google providers those of a unique subscription while it may be deleted
(`MayGo`): after Shutdown was called, and for `google.go` when the loop has nothing of
them left to hand over, for `google2.go` when no callback of the subscription runs.

`KeepsPromise` is `PublishPromise`, whose step that answers a call is the step that
closes `Ready`.

What the theorems without a run add:

* *Bounds.* The process of a Google subscription has at most
  `MaxMessages + 1 + Concurrency` deliveries in hand (a batch, one with the dispatcher,
  one with each worker); a RabbitMQ subscription has at most `Concurrency` that are not
  settled, also when its channel is gone.
* *Shutdown.* The halves of the liveness properties that need no fairness. After
  Shutdown each part that should end has a number of steps left that only goes down
  (`ShutdownCountsDown`, `ConsumersCountDown`, `SubscriptionsRunOut`; `NoNewSenders` for
  the publishers that Shutdown of Google v2 waits for), and is never stuck without
  being done (`LoopNeverStuck`, `NoConsumerSleeps`, `NoSubscribeHangs`, the last but for
  a handler that runs). `SubscriptionsRunOut` holds for subscriptions that Shutdown
  misses, too: closing the client ends them.
* *What is lost and what stays.* A NATS message leaves its queue group only with
  consent (`NothingVanishes`), so those that cannot be decoded stay for good; as long
  as they are fewer than a subscription's window, the window is never full of
  them (`NeverClogged`), which is the premise of `EveryMessageHandled`. A Cloud Run topic
  left without the dead letter topic stays so, and deaf (`HalfMadeIsForever`): the
  exception of `EverySubscribeReady` is not one that time heals.
* *Chains.* The runs have three chains; the theorems are about all. A panic gets out of
  a chain exactly when there is no recover in it; metrics are right when a recover is
  further in than prometheus, whatever else is there; `MetricsTellTruth` and
  `DefaultSurvives` follow, since the default chain is such a one. Induction theorems
  with a predicate for a parameter are out of the prover's reach, so `Backwards` has a
  set in its place: of the places where a fact fails, the least from the far end
  (`LeastOne`) has a next one where it holds.

Only model-checked are the liveness properties, which need fairness and ENABLED, which
the prover does not handle: `EveryCallAnswered`, `EveryWaitReturns`,
`ShutdownEndsLoop`, `EveryDeliveryLeaves`, `ShutdownReturns`, `ConsumersEnd`,
`SubscriptionsEnd`, `EverySubscribeReady`, `PublishReturns`, `ShutdownMeetsSomebody`,
`EveryMessageHandled`.

## Not modelled

* Marshalling, log lines, spans, the metrics but for the handled counter; message
  contents; the order among messages of a queue, but for Kafka.
* `deleteTopic` of both Google packages, which nothing calls; the flag that Shutdown of
  Cloud Run sets, which nothing reads; the `ErrorHandler` of the memory provider, which
  only gets to see an error; what the function given to the recover middleware does
  besides returning nil or an error.
* The slice header race on `clients`; a map that is read and written at once is
  modelled as the end of the process and as nothing else.
* More than one subscription in `GoogleCloud`, more than one topic in the provider
  modules but `Nats`, more than one partition in `Kafka`; two calls of the Shutdown of
  Google v2. The providers keep their state by topic or by subscription, so that other
  ones add nothing but the fields they share, which are modelled where the code has
  them (`err`, `Reader`, `r.channel`, the lock).
* The generated protobuf code: whether an envelope decodes is a property of a message
  (`Unreadable`). The examples: programs that use the library, which `Lifecycle` covers
  by what their main goroutine calls.

## Plan

What is left to add, in this order:

1. `Lifecycle` in front of the other providers, as it is in front of `Memory`: the
   shutdown of a Google or RabbitMQ program from the meeting on `wait` to the last ack.
2. Two subscriptions in `GoogleCloud`, which share the map `subs` and nothing else.
3. Several topics in `RabbitMQ` (one channel for all publishers) and in `TopicSetup`.
4. Larger instances where the time allows: two messages in `cloudrun`.
