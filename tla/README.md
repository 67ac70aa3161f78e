# A TLA+ model of the distributed event bus

This directory holds a specification of the event bus in `src/`: TLA+ modules
for its concurrent parts, TLC configurations that check them on small
instances, and proofs that TLAPS checks for every instance. `PROJECT.json`
maps each definition to the lines of Go it stands for and lists the runs, the
mutants, the hazards, the theorems and the findings.

## The system

Producers publish events to topics, and a broker process keeps a bounded queue
per subscription and pushes the events to consumers over TCP. A client library
reconnects to a standby broker when the current one goes away.

| Part | Source | Model |
|---|---|---|
| Broker core: topics, queues, cache, deduplication, closing | `broker/broker.go` | `Broker`, and `Stream` as its abstract specification |
| Event delivery with consumer ACKs, over one connection | `transport/tcp/server.go`, `client.go` | `Delivery` |
| Server: accepting, handlers, `Close`, `GracefulShutdown` | `transport/tcp/server.go`, `cmd/event-bus/main.go` | `Server` |
| Publishing with retries, across connections and brokers | `connection_manager.go`, `client.go`, `server.go`, `broker.go` | `Publish` |
| Reconnection and failover | `transport/tcp/connection_manager.go`, `client.go` | `Manager` |
| Wire messages and frames | `transport/tcp/messages.go`, `protocol/frame.go` | `Codec` (operators), `Wire` (the connection) |
| `consumer`, `producer` and `event-bus` commands | `cmd/` | the application of `Delivery`, the caller of `Publish`, the shutdown of `Server` |
| demo commands, logging, scripts, benchmarks | `cmd/`, `logging/`, `scripts/`, `benchmarks/` | not modelled |

The parts meet as follows. A serve goroutine of the server reads frames and
calls `Broker.Subscribe` and `Broker.PublishWithResult`; a delivery goroutine
per subscription ranges over `Subscription.Events()` and sends EVENT frames
until the client acknowledges; `main` runs `Server.GracefulShutdown` on a
signal and then `Broker.Close`. On the other side a `ConnectionManager` owns
one `Client` at a time and replaces it when its connection ends.

Each module has the full detail of one layer and keeps of the others what that
layer sees. `Delivery` composes the server's delivery goroutines, the client's
`readLoop` and an application over two bounded wires, with the queue, the
cache replay and the blocking fan-out of the broker. `Publish` composes the
manager's retry loop, the client's table of pending acknowledgements, the
server's PUBLISH handler and the idempotency table of each broker. `Server`
keeps of the broker the routing and the number of queued events, which is all
its shutdown logic looks at. `Manager` keeps of a broker whether it answers and
what it sends.

## The modules

One step of a model is one critical section, one channel operation or one
frame read or written. Wherever the Go code lets go of a lock, waits on a
channel or writes to a connection, other goroutines can step in. Data is
abstracted to what the properties tell apart: payloads are dropped (but for
`Codec` and `Wire`, which are about bytes), names and IDs are model values. The
constant `Operations` says which optional calls or faults the environment
makes in a run, and variables marked "history" are read by properties only.

### Broker and Stream

`pc`, `event`, `todo` and `result` describe the `PublishWithResult` calls:
`PublishStart` is the critical section that tests `closed`, `draining` and the
key, caches or copies the subscribers; `EnqueueBegin` is the head of
`Subscription.enqueue`, `EnqueueSend` its select (both cases may be ready, and
Go picks any); `PublishFinish` is `remember` and the return. `state`, `queue`,
`wg` and `discard` describe a subscription. Its close is split at `once.Do`,
`wg.Wait` and `close(s.events)` (`CloseEnter`, `CloseDiscard`, `CloseEvents`),
and may be run by the owner (`Drain`, `DrainTick`, `DrainTimeout`,
`CloseDeregister`) or by `Broker.Close` (`BrokerClose`, `CloserEnter`,
`CloserNext`). The eviction of a key from a full table is a choice among all
keys, as the order of a Go map range is unspecified. `State()` only reads and
has no action.

`Stream` says what all of that amounts to for the reader of a subscription: a
bounded FIFO that begins with items no other stream carried, never carries an
item twice, ends once, and loses items only after it was cut. `Broker`
implements it (`ImplementsStreams`) under the mapping at the end of `Broker`:
`close` is one step to the outside, and `Broker.Close` is what cuts.

### Delivery

One TCP connection with both ends. Server side: the read loop (`reader`), the
table `pendingAck`, the delivery goroutines (`pc`, `event`, `attempt`), the
queues, and publishers of other connections (`todo`). Client side: `readLoop`
(`loop`), the buffered channel `Client.events`, the remembered IDs (`acked`,
`ackedIDs`), and an application that receives and acknowledges (`app`). The
two wires are bounded FIFO streams: a writer blocks when the wire is full.
TCP neither loses nor reorders frames, so neither does the model; what the
model does have is the timer of `deliver` firing at any point, an ACK crossing
with a retry, an ID forgotten by the client, a repeated SUBSCRIBE whose old
goroutine is still delivering, and a client that goes away. `serial` numbers
the `deliver` calls of a subscription, so that a channel the read loop looked
up before the call ended is told apart from that of the next call.

### Server

Per connection: the serve goroutine (`serve`), the fields of `connection`, the
lock `deliveryMu`, the goroutine of `gracefulClose` (`graceful`), and
`connection.close`, which any of three goroutines may run (`closing`). Handlers
are split where they let go of `c.mu`: `unsubscribe` takes a subscription out
of `c.subs` (`ReadUnsubscribe`) and closes it later (`UnsubscribeClose`), and a
SUBSCRIBE is registered with the broker before it is installed. A fan-out
serves its subscribers in any order, as the broker collects them by a range
over a map. Per subscription: its registration, the number of queued events,
its delivery goroutine. The history variable `late` has the subscriptions that
were being installed when `gracefulClose` copied `c.subs`. Globally:
`Server.Close` (`closer`) and `GracefulShutdown` (`shutdown`) with the end of
its context, and `main`'s `Broker.Close`.

### Publish

`call` follows `ConnectionManager.Publish` through its attempts: take the
current client, register a channel under the message ID (`pending`), send,
wait, remove the entry, pause and try again. `reader` is the ACK path of
`readLoop`, which looks the channel up, lets go of the mutex and then sends to
the channel it found; the channel holds one acknowledgement, and the send has
no other case. The serve goroutine (`serving`, `routed`, `answer`) handles one
PUBLISH at a time: it passes the event to the broker, which publishes it and
remembers the key or finds the key in `keys`, and then writes the
acknowledgement, in a step of its own (`Answer`) that waits while the
connection is full. A channel that neither `pending` nor `readLoop` has any
more is garbage and empty. Connections are
cut, brokers crash or shut down, keys are evicted and the manager is closed,
`MaxFaults` of these in all. A broker that restarts has an empty table and is
another member of `Brokers`.

### Manager

`run` is the goroutine of the constructor and of `run`, `connect`, `reconnect`,
`watch` and `prefer`, place by place. Per client: its `readLoop` (`reader`),
the frames on their way to it, the events that it buffers, the shutdown notice,
and `done`. `call` holds the `Subscribe` calls, which record the topic and take
the current client under the mutex and send after it. A publish
acknowledgement may hold `readLoop` up (`ReadAck`, `PutAck`): the calls and
their channels are those of `Publish`, so that here any ACK may find a full
channel, and nothing makes sure that there is room again. The other ACKs change
nothing that the manager sees and are left out, and the write of a SUBSCRIBE
is taken at once or fails: `Publish` has the writes that wait. Brokers crash, fall
silent (they accept no frame and answer none), drain with or without a redirect
and come back. When several cases of a select are ready, any is taken.

### Codec and Wire

`Codec` gives each message type its layout and defines `encode` and `decode`
over sequences of bytes, with a length of two or four bytes in base `Radix`,
found by repeated division, and a frame limit scaled down with it. `Wire` is
one direction of a connection: senders that share the write mutex, `writeFull`
that writes a part or all of what is left, a connection that breaks anywhere,
and `ReadFrame` in its two reads, followed by the decoder of the frame's type.

## The runs

Runs marked V end in a violation and are findings; the others finish without
error.

| Run | Checks | Bounds |
|---|---|---|
| `Broker_block` | `TypeOK`, `NoSendOnClosedChannel`, `AcceptedReachesAll`, `EventOnce`, and the refinement `ImplementsStreams` | Block; 2 publishes, 2 subscriptions, queue and cache of 1, one key shared by two messages; cancellation, closes, `Broker.Close` |
| `Broker_drop` | `PublishOrder`, `DuplicateJustified`, `RetrySuppressed`, `ResourceBounds` | Drop; 2 topics sharing a key, a second key on one of them, 3 publishes, 1 subscription, queue, cache and table of 2; all operations |
| `Broker_live` | `CloseTerminates`, `PublishReturns` | Block; 2 publishes, 2 subscriptions, queue of 1; the owner of the first subscription and `Broker.Close` close; goroutines are fair, readers only where `PublishReturns` assumes it |
| `Delivery_single` | `TypeOK`, `PredecessorsAcknowledged`, `AckReachesDelivery`, `EventuallyAcknowledged`, `ConnectionCleanedUp` | 1 subscription, 2 events (one published by the consumer itself), queue of 1, 2 attempts, 2 timeouts, 1 remembered ID; UNSUBSCRIBE, and a client that closes at any point |
| `Delivery_overlap` | `DeliveredMeansAcknowledged`, `PendingAckLive`, `OrderedDelivery` | 2 subscriptions of one topic, 2 events, queue of 2, 1 timeout, 1 remembered ID |
| `Server_shutdown` | `TypeOK`, `DrainedBeforeNotice`, `ShutdownLeavesNothing`, `ClientIsTold` | 1 connection, 2 topics, 2 subscriptions, 3 publishes, queue of 1, UNSUBSCRIBE, disconnects, deliveries that fail, a SUBSCRIBE in progress when the shutdown starts |
| `Server_live` | `CloseLeavesNoConnection`, `ShutdownReturns`, `CloseReturns` | 1 connection, 1 subscription, 3 publishes, queue of 1, UNSUBSCRIBE, disconnects, deliveries that fail |
| `Server_v_hang` V | `ShutdownReturns` | 1 connection, 1 subscription, a SUBSCRIBE in progress when the shutdown starts |
| `Publish_retry` | `TypeOK`, `SuccessWasPublished`, `PublishedOnce`, `PendingIsOpen`, `CallReturns`, `EndIsNoticed` | 1 call of 6 attempts, 2 connections, 2 brokers, wires and table of 1, any 1 fault |
| `Publish_v_stuck` V | `DoneWhenConnectionStops` | 1 call of 2 attempts, 1 connection, 1 broker that crashes |
| `Manager_failover` | `TypeOK`, `SubscriptionsRestored`, `OneOpenClient`, `RedirectHonoured`, `CloseEnds`, `Recovers` | a primary and a standby, 1 topic, 1 fault, 2 events or ACKs that hold `readLoop` up, both event channels of 1, `Close` at any point |
| `Wire_frames` | `FramesIntact` (with `OnlyReading`), `AllReceived` | 2 senders of 2 messages each, base 3, payloads of at most 14 bytes; strings and events at the limits and one past them |

Some properties name the case in which they do not hold, because the code does
not exclude it:

* `CloseReturns` excepts an orphan: `subscribe` does not look at
  `connection.closed`, so a SUBSCRIBE that is handled after `connection.close`
  took the subscriptions to close leaves one that nobody reads or closes, and a
  publisher blocked on its queue keeps `Server.Close` waiting.
* `ShutdownReturns` holds in `Server_live` because that run leaves out exactly
  the case of `Server_v_hang` (`RacingSubscribe` in `Operations`).
* `ShutdownLeavesNothing` excepts a connection whose own serve goroutine is in
  the middle of closing it. It and `DrainedBeforeNotice` except the
  subscriptions that `gracefulClose` did not find in `c.subs` (`Unseen`): one
  whose SUBSCRIBE had passed the check of `draining` and was not installed, and
  one that `unsubscribe` has taken and not closed. The second may have such a
  subscription open only if a delivery failed on it, since `gracefulClose` waits
  for its delivery goroutine.
* `ConnectionCleanedUp` excepts a read loop that is blocked publishing to a
  full queue of its own connection.
* `EventuallyAcknowledged` excepts a subscription that may have run out of
  attempts.
* `RetrySuppressed` counts accepted calls, not different keys, since `remember`
  evicts a key from a full table even when it adds a key that is there already.
* `AckReachesDelivery` is checked with one subscription, and proved for a client
  that does not subscribe to a topic it is subscribed to: after a repeated
  SUBSCRIBE `pendingAck` has one entry for two `deliver` calls of the same
  event, and the ACK reaches only the later one.
* `PublishedOnce` excepts a key that the broker evicted, and an event that a
  second connection brought while the first was still being handled:
  `PublishWithResult` remembers the key after its fan-out only.
* `EndIsNoticed` excepts a `readLoop` held up by a full channel, which is the
  finding of `Publish_v_stuck`.
* `CallReturns` excepts a write that is stalled for good (`Stalled`): the write
  of a PUBLISH frame has no deadline, and neither has the publish in the server
  (`server.go:397` passes `context.Background()`), so that a subscriber that takes
  no events keeps the serve goroutine, and then the write, waiting. The other
  cause is a `readLoop` held up, behind which first the answers and then the
  requests pile up.
* `CloseEnds` excepts a `readLoop` that is held up by an acknowledgement (`HeldUp`;
  the send in `client.go:221` has no `done` case), and a `run` goroutine that waits
  for the `Shutdowns` channel of that client. `Recovers` excepts a current client
  whose `readLoop` is held up: it is never done, and the manager keeps it.
* `Recovers` asks that no silent endpoint comes before the one that answers:
  `reconnect` gives all of them one second together.

Why the bounds are enough to meet the interesting cases: a queue of one is
full after one event, so two publishes reach every blocked, rejected and
half-served fan-out; two subscriptions of a topic are what a partial failure
needs; a table of two has a key to lose before it is full, and is full after
three publishes of two keys that overlap; two attempts with one or two timeouts
give a delivery that succeeds late and one that is given up; two subscriptions
of a connection are what a context needs to end between two drains, and a
third publish what blocks the connection on its own queue; two
attempts over two connections and two brokers are what an acknowledgement
needs to answer the wrong attempt, connection or broker, and six attempts are
what it takes to fill the channel, `readLoop`, both wires and the serve goroutine so
that a write stalls; one fault is enough for each exception of `PublishedOnce`,
and the theorems cover any number; a client for each
fault and two more are all that `Manager` can dial; base 3 makes the limits of
both length fields reachable with a dozen bytes. Deadlock checking is off in
all runs because every model may really stop: the callers have made their
bounded number of calls and everything is closed, or a goroutine waits for good
in a case that a property names.

Each property has a mutant, a changed copy of a definition (its name has a
suffix, as in `Retries_OneMore`) that breaks the property in the same run.

### Where the code does not do what it says

Two of these are runs, with the quotations in `PROJECT.json`:

* `Server_v_hang`: a SUBSCRIBE in progress when the shutdown starts makes
  `GracefulShutdown` wait past its context.
* `Publish_v_stuck`: two late acknowledgements of one message ID leave
  `readLoop` blocked for ever on a full channel, so that `Done` is never closed
  and the manager does not fail over.

The others show in the models and have no run of their own:

* "No new events can be enqueued after Broker.BeginShutdown"
  (`broker.go:229`): a publish that copied its subscribers before
  `BeginShutdown` enqueues after it. `Broker` and `Server` have that step.
* "a retry crossing with an ACK is not exposed to the application twice"
  (`docs/idempotency.md:125-127`, `client.go:201-203`): `wasDelivered` is asked
  before the event waits in `Client.events`. A retry that is buffered when the
  application acknowledges is received again.
* "at-least-once delivery while a TCP connection remains healthy"
  (`docs/idempotency.md:121-122`): after one delivery is given up its goroutine
  returns (`server.go:277`), and the events behind it are never sent, while the
  connection stays up.
* "The producer and consumer receive the redirect" (`README.md:143-145`): a
  client that sends during the drain gets ERROR (`server.go:231`), stops at it
  and never reads SHUTDOWN; `ClientIsTold` says "ERROR before it" for this
  reason. Likewise a SHUTDOWN frame that arrives while `connect` still
  subscribes makes `connect` drop the client and its redirect.
* "The first endpoint is preferred whenever it becomes healthy again"
  (`connection_manager.go:14-15`): the manager looks at the first endpoint only
  when the current connection ends, and `prefer` has moved a redirect to the
  front for good.
* "tries standby brokers" (`docs/architecture.md:107`): an endpoint that does
  not answer uses up the second that `reconnect` gives to the whole list, in
  every round, so the standby behind it is never dialled.

### Fairness

Weak fairness of a goroutine's steps stands for the Go scheduler, which runs
every goroutine that can move. Timers that nothing stops fire, and contexts
with a deadline end. Nothing is assumed of the callers: whether and when
someone publishes, closes or shuts down is open, and readers of the broker are
fair only in the premise of `PublishReturns`. `Delivery!FairSpec` lets the
application keep receiving and acknowledging, as the loop of `cmd/consumer`
does. `Server!FairSpec` has every delivery end: by its ACK, by a failed write
or by the last timeout. It does not cover a client that stops reading for ever
with its connection open, since no write deadline is set; that hazard is listed
without a property. `Publish!FairSpec` and `Manager!FairSpec` have the
goroutines of the client, the manager and the serve goroutines move, except
where the code itself gives no guarantee: the end of a broker's fan-out
(`Publish!PublishEnds`) and room in a full acknowledgement channel
(`Manager!PutAck`) may never come. Faults, repairs and dialling a replacement
are not fair, and `Recovers` has a reachable broker and a consumer that makes
room as its premises. `Wire!FairSpec` has the senders and the reader move, so
that a write of a part is followed by the rest.

## The proofs

The theorems hold for every value of the constants, that is for any sets of
topics, keys, events, connections, endpoints and brokers, any queue, cache,
table, buffer and wire size, any number of calls, attempts, faults,
subscriptions, senders and messages, any radix, and every choice of
`Operations`. They assume the named ASSUME of the module they are about, which
types its constants. One has a hypothesis of its own in its statement:
`AckReachesDeliveryHolds` supposes `UniqueIds`, no two events share an ID, and
`[]OneOpenPerTopic`, the client has at most one open subscription of a topic.
The code enforces neither. A second subscription of the topic takes over the
entry in `pendingAck`, and then the ACK does not reach the first `deliver`.

Each invariant is proved as `Init => I`, `I /\ [Next]_vars => I'` and
`I => property`; the table gives what `I` adds to the type invariant. Every
invariant that a run checks has its theorem, and so has the refinement.
`RoutesOnlyToOpen`, `StreamIntact`, `EndpointsKept` and `RoundTrip` are theorems
without a run of their own.

| Module | Theorem | Invariant it rests on |
|---|---|---|
| `BrokerProofs` | `TypeCorrect` | `TypeOK` is inductive. |
| | `RoutesOnlyToOpenHolds` | `FreshInv`: a subscription not yet created is untouched. `LifeInv`: who may be closing a subscription that is still registered. |
| | `NoSendOnClosedChannelHolds` | Inductive with `TypeOK`: `enqueue` counts itself in `wg` only under the lock that guards `closed`, and `close` closes the channel only when `wg` is empty. |
| | `StreamIntactHolds` | `StreamInv`: what was read, then what is queued, is what was sent, until a discarding close. |
| | `AcceptedReachesAllHolds` | `CallInv`: where a call is determines what it still has to do. `ReachInv`: a subscriber found by a call is still to be served or has the event. |
| | `PublishOrderHolds` | `PredsInv`, `StartedInv` and `OrderInv`: events in queues and caches belong to started calls, cached events are in publish order, and everything sent before is no later than what is cached. |
| | `DuplicateJustifiedHolds` | `DedupInv`: every remembered key was published by an accepted call. |
| | `RetrySuppressedHolds` | `KeptInv`: the table of a topic holds no more keys than calls entered one, and as long as it was large enough for all of these calls it has given no key up. |
| `BrokerStreamProofs` | `EventOnceHolds` | `RouteInv`: a call is counted by at most one subscription, one that it has yet to serve. `OnceInv`: a cached event is in no queue, and a subscriber still to be served has not got the event. |
| | `ResourceBoundsHold` | `BoundsInv`: inductive once the tables are known to be finite. |
| | `BrokerImplementsStreams` | `StreamsInv`, most of the invariants above, with `CountedInv`: publishers are counted only by a subscription whose channel is open. Each action of `Broker` is then a step of `Stream` or changes nothing it sees. |
| `DeliveryProofs` | `TypeCorrect` | `TypeOK` is inductive: it types the frames in the wires, which types what is read from them. |
| | `PendingAckLiveHolds` | `FreshInv`: a subscription that is being installed has no `deliver` call. |
| | `DeliveredMeansAcknowledgedHolds` | `SureInv`: an ACK is for an acknowledged event wherever it is on its way, remembered IDs and repeated ACKs included. `ClaimInv`: a channel that the read loop looked up is of an earlier `deliver` call or of the present one for the same event. `TrustInv`: the status in a channel stands for an acknowledgement. |
| | `PredecessorsAcknowledgedHolds` | `Core`, which is all of the above with `FrameInv` and `OnceInv` (an event is published once and is given to a subscription once), `TakenInv` (the queue is the rest of the stream, behind the event taken last) and `PassedInv` (a goroutine goes on only when the event it took is acknowledged). |
| | `OrderedDeliveryHolds` | `PipeInv` with `Core`: from the application back to the server, through `Client.events`, `readLoop` and the wire, no copy of an event is ahead of one of an earlier event, and every copy is of an event already taken. |
| | `AckReachesDeliveryHolds` | `ReachInv`: a `deliver` call whose event no other subscription was given owns the entry of `pendingAck` and any channel looked up for its ID. `AppInv`: the application acknowledges only what was taken. `SingleInv`: with one open subscription per topic, no event is given to two. |
| `ServerProofs` | `CloseLeavesNoConnectionHolds` | `CloseInv`: a connection is registered while its serve goroutine runs; one whose goroutine has returned with the transport open is still being closed by `Server.Close` or by `gracefulClose`, and nobody closes a connection that is not registered. |
| | `TypeCorrect` | `BaseInv`: `CloseInv` with `ClosingInv` (whoever runs `connection.close` has set `closed`), `SubsInv` (who holds a subscription, from `Broker.Subscribe` to the start of its goroutine and until it is closed), `LeavingInv` (`unsubscribe` holds one exactly until it has closed it) and `TurnInv` (`deliveryMu` keeps a SUBSCRIBE and the wait for the deliveries apart). |
| | `ClientIsToldHolds` | `ToldInv`, in `BaseInv`: a client that was told nothing is still being served over an open transport, or was never to be closed. |
| | `DrainedBeforeNoticeHolds` | `DrainedInv`: what is being installed while `gracefulClose` drains is `late`, every open subscription is on the list of `gracefulClose` or was not seen by it, and after the wait every delivery goroutine has returned and stays so. |
| | `ShutdownLeavesNothingHolds` | `BaseInv` and `DrainedInv`, whose `OrphanInv` says that `connection.close` leaves no open subscription but those it is about to close and those that were not seen. |
| `PublishProofs` | `TypeCorrect` | `TypeInv`: a call has a connection while it is on one, `readLoop` holds the acknowledgement of a call, and the tables are finite. |
| | `PendingIsOpenHolds` | Inductive with `TypeInv`. |
| | `SuccessWasPublishedHolds` | `SuccessInv`: every key, and every acknowledgement of success with the handler, on a wire, in `readLoop`, in a channel or taken, is of an event that was published. |
| | `PublishedOnceHolds` | `OnceInv`: what a broker published it remembers or has evicted, and what it is handling it has not published, but for the exceptions of the property. |
| `ManagerProofs` | `OneOpenClientHolds` | `LifeInv`: where `run` stands on a client it is the newest one, and it dials only when all that it dialled are closed. |
| | `SubscriptionsRestoredHolds` | Inductive with `LifeInv`: `connect` and `Subscribe` exchange the client and the topics in one critical section each. |
| | `TypeCorrect` | `TypeInv`: with `LifeInv`, and what `prefer` returns is a list of endpoints. |
| | `EndpointsKeptHolds` | Inductive with `TypeInv`: `prefer` puts one endpoint in front and keeps the others, by induction over its loop. |
| | `RedirectHonouredHolds` | `HandedInv` and `LeaveInv`: a notice stays in `Shutdowns` until `run` takes it, and where `run` has left the client the redirect is in its hands or heads the list. |
| `WireProofs` | `RoundTrip` | No invariant: what `PutUint`, `Uint`, `encode` and `decode` compute, by induction over their loops. |
| | `FramesIntactHolds` | `SendInv`: only who holds the mutex is writing, and writes a message that fits. `ReadInv`: what was received is the beginning of what was begun, and a header that was read is that of the next message. `FlowInv`: the frames received, the header read, the bytes in the connection, and a rest are all that the frames begun amount to; the rest is what the writer has yet to write or, on a broken connection, whatever got lost. |

The strengthenings are needed because the properties speak about finished
calls and closed connections, while a step must know what holds in between:
`AcceptedReachesAll`, for instance, says nothing of a call in the middle of
its loop, and `DeliveredMeansAcknowledged` nothing of an ACK on its way. The
step proofs of `BrokerProofs` go over the actions once per variable
(`PcStep`, `PredsChange`, `SentChange`, `CacheChange`, `AnswerStep`) and then
argue from how that variable can change; those of `DeliveryProofs`,
`ServerProofs` and `PublishProofs` cut the type invariant into parts, each of
which is kept when its variables are.

The library's induction theorems take an operator, which the provers at hand
cannot instantiate. `Loops` gets along without: `LeastNumber` is the
well-foundedness of the numbers, stated for sets, `SetInduction` follows from
it, and `Iteration` shows that the values a loop goes through exist, which is
what a recursive function definition needs before anything can be said of it.
`Throughout` is induction over such a loop. `prefer`, `PutUint`, `Uint`,
`encode` and `decode` are recursive functions for that reason.

`FramesIntactHolds` covers lengths in any base, so also the 256 of the code,
and every limit below the fourth power of it. It rests on three facts about a
single message: its length reads back (`UintPut`), its encoding is the only
payload among those that agree with it which the decoder takes (`OnlyWhole`),
and its header names its decoder and its size (`HeaderOf`).

Only model-checked are the liveness properties, as the prover has neither
fairness nor `ENABLED`: `CloseTerminates`, `PublishReturns`,
`EventuallyAcknowledged`, `ConnectionCleanedUp`, `ShutdownReturns`,
`CloseReturns`, `CallReturns`, `EndIsNoticed`, `CloseEnds`, `Recovers` and
`AllReceived`.

## What is not modelled

* Payloads and partition keys (outside `Codec`), wording of errors, logging,
  and the HTTP state endpoint: no decision depends on them.
* The status `ackRedeliver`, which the Go client never sends.
* The recovery of a broker's state: nothing is persisted, so a restarted broker
  is a new one with an empty cache and table. Crashes themselves are faults of
  `Publish` and `Manager`.
* A client that keeps its connection open and never reads. `Publish` has a
  serve goroutine that is blocked on its answer; `Delivery` and `Server` let
  every write end.
* Time: timers and deadlines fire at any point after they are set. TCP
  keep-alive is not modelled either; a connection to a broker that falls silent
  is cut.
* The end of the context given to `NewConnectionManager`; the commands use
  one that never ends.
* `main`'s own limit of the shutdown timeout and one second, after which the
  process exits whatever `GracefulShutdown` does
  (`cmd/event-bus/main.go:103-107`).
* `ConnectionManager.Acknowledge`, which forwards to whichever client is
  current. An ACK that reaches another broker finds no entry in `pendingAck`.
* The demo commands, scripts and benchmarks: sequential drivers without state
  of their own.
