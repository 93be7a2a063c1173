# Verification of the Pub/Sub Lite streaming clients

This directory holds TLA+ models of the concurrent core of the repository's
Pub/Sub Lite client (`pubsublite/internal/wire`), TLC configurations that check
them on small instances, and TLAPS proofs of their main safety properties for
every instance. Paths below are relative to `src/pubsublite/internal/wire`
unless they say otherwise.

`PROJECT.json` lists the components, the runs, the mutants (one plausible bug
per property, which TLC must find), the source lines of every definition, the
disagreements found between code and comments, the hazards of the code and the
theorems.

## 1. The system

The repository is the Google Cloud client library for Go: some 5,000 generated
files with one wrapper per RPC, and a few hand-written clients that keep state
of their own. Where those clients run goroutines over streams that break, tests
reach few of the interleavings; that is where a model pays. Pub/Sub Lite is the
purest case, and the project starts there.

### Parts of the Pub/Sub Lite client

| Part | State | Operations | Interacts with |
|---|---|---|---|
| `retryableStream` (streams.go, request_timer.go, rpc.go) | status, current gRPC stream, its cancel function, final error, idle timer, one goroutine per connection | Start, Stop, Send, connectStream, initNewStream, listen, onStreamIdle | its `streamHandler`, called without the mutex; gRPC |
| `singlePartitionPublisher`, `publishMessageBatcher` (publisher.go, publish_batcher.go) | service status, enableSendToStream, queue of batches in flight, free bytes, next offset | Publish, Stop, onNewBatch, onResponse, onStreamStatusChange | its stream; the bundler library, which calls back from its goroutine |
| `committer`, `ackTracker`, `commitCursorTracker` (committer.go, acks.go) | acked prefix, outstanding acks, confirmed and pending commits | Push, Ack, Stop, Terminate, BlockingReset, poll, onResponse | its stream; the user's acks; the subscribe stream, which calls BlockingReset |
| `subscribeStream`, `messageDeliveryQueue`, flow control (subscriber.go, flow_control.go) | client and pending tokens, next offset, delivery channel and goroutine | Start, Stop, onAck, onResponse, seek, batch and expedited tokens | its stream; the user's receiver; the committer |
| `compositeService` (service.go) | status, dependencies, removed services | Start, Stop, add, remove, onServiceStatusChange | children, which notify it from goroutines of their own |
| `assigningSubscriber`, `assigner` (subscriber.go, assigner.go) | subscribers by partition | handleAssignment, Terminate | the composite; the user's reassignment handler |
| `routingPublisher`, `partitionCountWatcher`, routers | publishers by partition, partition count | Publish, onPartitionCountChanged, updatePartitionCount | the composite; the admin API |
| `pscompat` | adapters | Publish, Receive | the wire clients |

### What is hard about it

* Three things start a reconnection of the same stream independently: a failed
  Send, a failed RecvMsg and the idle timer.
* A listener checks that its stream is current, and calls `onResponse` later.
* Mutexes are released in the middle of operations: while the bundler is
  flushed, while a seek is handled, while `BlockingReset` waits.
* Responses carry no identity. A publish response has the first offset of "the
  front batch", a commit response "so many commits": they are matched by
  position with queues that reconnections resend, merge or clear.
* Shutdown is graceful: it waits for results, acks and confirmations, over
  streams that may still break.
* Status changes of children arrive late and out of order.

### The other hand-written clients

`pubsub` (lease extension, ordering keys, flow control), `bigquery` managed
writer, `spanner` session pool, `firestore` watch and the `bigtable` row reader
have state machines of the same kind. They are candidates for later modules.
The rest (datastore, storage, logging, profiler, tools, test doubles, value
types) is conversions, single RPCs, or concurrency that lives in libraries
outside the repository. `PROJECT.json` lists each with the reason.

## 2. The modules

```
RetryableStream ---- StreamClient ---------------- StreamProofs
      |                (any handler)               RetryableStreamProofs
 ServedStream
      |---- Publisher    (with Service)
      |---- Committer    (with Service, AckTracker)  CommitterProofs, AckTrackerProofs
      |---- Subscriber   (with Service)
 Service -- CompositeService -- AssigningSubscriber  AssigningProofs
```

`MC*` modules give the constants that a `.cfg` cannot express.

**RetryableStream** has one action for every critical section of
`retryableStream.mu`. A goroutine of `connectStream` is a record: where it is,
the error or argument it holds, and the gRPC stream it opened. Callbacks are
control points of their own, because the code makes them without the mutex:
`Notified(g)` is the goroutine after the callback has returned, and a module
that extends this one says what the callback does. gRPC streams are identities
that are `opening`, `open`, `broken` or `cancelled`; identities of streams and
goroutines are reused once nothing refers to them. A broken stream still gives
the responses that gRPC has buffered, a cancelled one does not. When the server
answers the initial request with a reset signal, the handler is called first and
the context of the attempt is cancelled afterwards, as in the code
(streams.go:334, 355). `streamRetryer` is reduced to its verdicts.

**StreamClient** is the stream with the most general handler: callbacks return
at any time, and the client calls Start, Stop and Send whenever it likes. What
holds here holds under every service.

**ServedStream** adds the requests and responses in flight on each gRPC stream
and the composition operators of a service with its stream: `SendRequest`,
`TakeResponse`, `KeepStream`. `MaxFaults` bounds the connected streams that a
behaviour loses.

**Publisher** has one action per critical section of the publisher's mutex. The
mutex is held over several Sends while batches are resent (`mu`, `resend`) and
released during a flush (`flushing`). The bundler hands over any number of its
messages at any time; the server appends requests to the partition's `log`, also
those of a stream that has just broken. Messages are numbers, of size one.

**AckTracker** translates the two trackers of acks.go as operators and step
predicates. **Committer** puts them on a stream, with a user that acks in any
order, a subscriber that delivers and begins seeks, and the server's cursor.
`unacked` is kept from the user's point of view, so that what the tracker
believes can be compared with it. Commits that were in flight on a stream when
it was lost may still be applied by the server, without an acknowledgement.

**Subscriber** models `subscribeStream` with its token counters and offset
tracker, the channel and goroutine that deliver messages (including the choice
of `select` between a closed `stopC` and a message), the user's receiver and
acks, the seek protocol in its three critical sections, and a server that
spends tokens on consecutive messages. The committer is seen through
`handleReset`, which `Committer` shows to return, and through its failure
(`CommitterFails`), which discards the outstanding acks while the subscribe
stream is still active; their tokens never come back, and `released` records it.

**Service** is the status order of `abstractService`. **CompositeService** is
`compositeService` over children that only have a status; every change of a
child's status puts a notification into a set from which it is delivered at any
time. One action reads the statuses of all children at once; the code reads
them one by one, but they only grow, and what grows is notified again.
**AssigningSubscriber** adds the assigner's listener, step by step through
`handleAssignment`: the maps change under the composite's mutex, then the user's
handler runs, then the removed subscribers are awaited, then the assignment is
acked. When `handleAssignment` takes longer than the stream's idle timeout of ten
minutes (assigner.go:117), a second stream and listener handle the next
assignment at the same time: `Listeners` are the goroutines that may be in
`onResponse` together, and the history variable `overlapped` records that two of
them were. Subscriber `n` of partition `p` is `<<p, n>>`.

### From code to model

* A critical section is one action; a method that releases its mutex is several.
* Every early return and error path is there; errors keep their class only.
* Data is reduced to what properties tell apart: messages are offsets, sizes are
  one, partitions are model values.
* External parts (gRPC, the bundler, the servers, the user) do what the code has
  to cope with, and nothing that it treats as a protocol violation, except where
  a property is about that (`ResponsesAccepted`). One thing is assumed of a
  server beyond that: once the commit server has accepted a stream of a
  committer, it applies no commit still in flight on an earlier one (`Supersede`
  in `Committer`). The code relies on it: it resends the last commit on the new
  stream and takes the cursor to be there. `CursorAdvances`, and
  `AckedBeforeCommitted` after a seek, rest on this assumption.

## 3. What is checked

All runs finish within about three minutes with two workers.

| Run | Instance | States | Shows |
|---|---|---|---|
| `Stream` | 2 goroutines, 2 streams, all send errors, idle timeouts, cancelled context | 168,332 | `OneReconnecting`, `NeverStranded`, `NoStreamLeak`, `TerminatedIsForever`, `ReconnectResolves`, `TerminationCleansUp` |
| `Publisher` | 1 goroutine, 2 streams, 3 messages, a buffer of 2, 1 lost stream | 82,894 | `ResultOnce`, `OffsetsTruthful`, `OrderedLog`, `BufferAccounting`, `ShutdownCompletes` |
| `PublisherRaces` | 2 goroutines, 3 streams, retryable send errors, idle timeouts | 579,138 | `ResultOnce`, `BufferAccounting` when an old listener overlaps a new stream |
| `Committer` | 1 goroutine, 2 streams, 2 messages, 1 seek, 1 lost stream | 108,231 | `AckedBeforeCommitted`, `TrackedOnlyAcked`, `ConfirmedIsCommitted`, `CursorAdvances`, `FinalCommit`, `StopCompletes`, `ResetReturns` |
| `CommitterRaces` | 2 goroutines, 3 streams, retryable send errors, idle timeouts | 559,357 | `AckedBeforeCommitted` with stale responses |
| `Subscriber` | 1 goroutine, 2 streams, 4 messages, a window of 3, 1 seek, 1 lost stream, 1 failure of the committer | 605,841 | `EveryMessageOnce`, `WindowBalance`, `ServerTokensAgree`, `ResponsesAccepted`, `EverythingDelivered` |
| `SubscriberRaces` | 2 goroutines, 3 streams, 3 messages, a window of 2, retryable send errors, idle timeouts | 1,749,567 | `QueueNeverFull`, `EveryMessageOnce` |
| `Assigning` | 1 partition that gets up to 2 subscribers, 3 assignments, or 2 that 2 listeners handle at the same time | 359,261 | `TerminatedTogether`, `OneSubscriberPerPartition`, `AckAfterStop`, `Settles` |
| `StreamIdleTermination`, `PublisherStop`, `CommitterStopReset`, `AssigningStop` | the smallest that show it | | disagreements between code and comments: section 5 |

`TypeOK` is checked in `Stream`, `Publisher`, `Committer`, `Subscriber` and
`Assigning`.

### What the properties say

*Stream.* One goroutine at most reconnects (`OneReconnecting`); while
the stream is reconnecting a goroutine does so, and while it is connected its
current stream has a listener or a goroutine is about to reconnect
(`NeverStranded`); every open gRPC stream can still be cancelled through
`cancelStream`, and after a termination only a goroutine that has yet to notice
it keeps one open (`NoStreamLeak`); a terminated stream never changes
again (`TerminatedIsForever`). A reconnection ends (`ReconnectResolves`), and a
termination ends all goroutines and gRPC streams and is notified
(`TerminationCleansUp`).

*Publisher.* A message gets one result at most (`ResultOnce`); a reported offset
is where the message is in the log (`OffsetsTruthful`); messages enter the log
in the order of Publish, repetitions by resending apart (`OrderedLog`); free
bytes and pending messages add up to the limit (`BufferAccounting`); Stop ends,
with a result for every message (`ShutdownCompletes`).

*Committer.* The server's cursor never passes a message the user has not acked
(`AckedBeforeCommitted`), and neither do the client's trackers
(`TrackedOnlyAcked`); what counts as confirmed is at the server
(`ConfirmedIsCommitted`); the cursor goes back only by a seek
(`CursorAdvances`); a graceful Stop ends with everything acked committed
(`FinalCommit`); Stop and BlockingReset return (`StopCompletes`, unless a seek
intervenes; `ResetReturns`).

*Subscriber.* The user gets each message once and in order, from the seek target
on after a seek (`EveryMessageOnce`); tokens, messages in the queue and messages
with the user add up to the window while the subscriber is active, and never to
more after the committer has failed (`WindowBalance`), so that the channel never
blocks (`QueueNeverFull`); client and server agree on the tokens
(`ServerTokensAgree`), and the client's checks never reject a correct server
(`ResponsesAccepted`); the flow never stalls, by expedited tokens alone
(`EverythingDelivered`).

*Assigning subscriber.* No child outlives a terminated composite
(`TerminatedTogether`), and WaitStarted and WaitStopped return (`Settles`),
whether or not listeners overlap. As long as they do not, a partition has one
running subscriber at most (`OneSubscriberPerPartition`), and an assignment is
acked only after the subscribers it takes away have stopped (`AckAfterStop`).

### Bounds, and why they are enough

* *Goroutines and streams.* One goroutine and two streams give one loss and one
  reconnection with everything that can be in flight. Where a reconnection can
  overlap an old listener (a retryable SendMsg error, the idle timer) a second
  goroutine and a third stream are there to do so. The properties of the stream
  itself are proved for all numbers.
* *MaxFaults = 1.* A second loss finds the services in states that a first one
  leaves: resent batches, cleared commits, restarted tokens.
* *Messages.* The publisher needs one in the bundler, one in flight and one that
  overflows the buffer; the committer two, to be acked in the wrong order; the
  subscriber more than its window, so that tokens have to come back. With a
  window of 3 a batch of tokens can wait below the expedite ratio; with 2 it is
  always expedited, which is enough for `SubscriberRaces`.
* *Seeks.* One, back to offset 0.
* *Assignments.* Three give a partition, take it away and give it back; two
  subscribers of one partition are then possible, which is what the properties
  are about. Behaviours in which listeners overlap end with the second
  assignment (`MaxOverlapping`), which suffices for one to be removed while the
  other is handled; the instance with three of them, of 1,880,840 states, was
  checked once and takes too long to be kept.
* *Two groups of runs.* The full state spaces of a service with stale listeners
  and with liveness do not fit together: the `...Races` runs check safety with
  overlapping listeners, the others everything with a single one. Properties
  that do not hold in the presence of stale listeners are in section 5.
* Symmetry is used on goroutines and streams, in runs that check invariants and
  action properties only.
* `CHECK_DEADLOCK FALSE` is set where everything may have been delivered,
  stopped and notified (`Subscriber`, `SubscriberRaces`, `Assigning`,
  `AssigningStop`).

### Fairness

Weak fairness of the client's goroutines, callbacks and periodic tasks is what
the Go scheduler gives. Further assumptions, all named `Fairness` in the
modules:

* RecvMsg returns on a stream that is broken or cancelled, and when a response
  is there (gRPC);
* an attempt to connect ends (the init timer, streams.go:320), and a loop of
  failing attempts is ended by its deadline: strong fairness of
  `ExceededDeadline`, since time passes while the loop comes by
  (streams.go:364);
* the server answers requests, and spends its tokens, on an open stream; of the
  commits in flight on a lost stream nothing is assumed;
* the bundler hands over its messages; the user's receiver and reassignment
  handler return, and users ack their messages: otherwise Stop waits by design;
* the composite stops the subscribe stream once its committer has failed
  (`released /\ Stop` in `Subscriber`);
* the children of a composite start, fail or complete their shutdown. The runs
  `Publisher` and `Committer` show the last for these services with one
  exception: a committer that handles a seek after Stop may never terminate
  (`CommitterStopReset`), and the composite of such a child does not either.
  `Settles` leaves that case out by this assumption.

Nothing else is assumed of Start and Stop, and nothing of Publish, faults, seeks,
idle timeouts or the task that polls for batched flow control tokens.
`EverythingDelivered` therefore says that the expedite ratio alone keeps messages
of equal size flowing; with sizes that differ the poll of every 100 ms may be
needed for bytes.

## 4. What is proved

The theorems hold for every value of the constants. Liveness stays with TLC.

**The retryable stream** (`StreamProofs`, from `StreamAssumption`).
`OneReconnecting`, `NeverStranded` and `NoStreamLeak` are not inductive one by
one. The invariant adds that only a goroutine which moved the status to
reconnecting is connecting, until a termination (`ConnectingStatus`), that a
terminated stream has no current stream (`TerminatedHasNoStream`) and that a
goroutine holds an error or a stream where the code takes it for one
(`ArgsOK`). Each conjunct is preserved by every action. `TerminatedIsForever`
is an action property that follows from the second.

**The committer** (`CommitterProofs`, on `AckTrackerProofs` and
`RetryableStreamProofs`, from `StreamAssumption`, `FaultsAssumption` and
`CommitterAssumption`). The argument is a chain: everything the user was
given and has not acked is beyond the acked prefix (`Tracked`); the confirmed
and pending commits are within it (`Covered`); so are the commits in flight and
the server's cursor (`WireCovered`), as long as no seek has put the prefix back
to nothing. The prefix only grows in between, so a commit that was covered when
it was sent stays covered however long it is in flight, on whichever stream, and
however late the server applies it. Thus `TrackedOnlyAcked` always holds, and `AckedBeforeCommitted` until the first
seek; neither uses the assumption on the server. After a seek an old commit may
still be in flight on a stale stream; the run `Committer` checks the property
with one seek for streams whose listeners do not overlap, under that assumption.

**The assigning subscriber** (`AssigningProofs`, from `AssigningAssumption`).
For the composite: the composite knows, as dependency or as removed, of every
child that runs (`RunningKnown`); a notification never runs ahead of its child
(`NoticesPast`), so that a child deleted on a "terminated" notification has
terminated, in whatever order notifications arrive; what a terminated composite
knows of has terminated (`AllStopped`). `TerminatedTogether` follows. For the
handler: the subscribers are the last ones created for their partitions
(`SubscribersCurrent`), and until listeners overlap (`OrderlyInv`) one listener
at most handles an assignment (`OneBusy`); a subscriber that was removed and
still runs is awaited before the next assignment, or the assigner has failed
(`LeftOversAwaited`); it is of a partition without a subscriber
(`LeftOversApart`); the subscribers are those of the assignment that was handled
(`SubscribersAssigned`). `OneSubscriberPerPartition` and `AckAfterStop` follow.
The theorems hold for any number of listeners. The inductive invariant was also
checked with TLC.

*Only model-checked*: all liveness properties; the safety properties of
`Publisher` and `Subscriber`; `ConfirmedIsCommitted`, `CursorAdvances` and
`FinalCommit` of `Committer`.

## 5. Disagreements between code and comments

Each has a run whose counterexample shows it.

* `StreamIdleTermination` — an idle timeout that races a reconnection cancels
  the new attempt and terminates the stream for good (streams.go:231).
* `PublisherStop` — while Stop flushes, the response to the last batch in flight
  closes the stream; the messages still in the bundler get a result without
  metadata or error (publisher.go:272).
* `CommitterStopReset` — a seek handled after Stop discards the acks that Stop
  waits for and does not check for completion; the committer never terminates
  (committer.go:131).
* `AssigningStop` — an assignment handled while the composite terminates moves
  an already terminated subscriber to `removed`, where it stays; WaitStopped
  never returns (service.go:245). `Settles` excepts exactly these states: a
  removed service that has terminated with no notification of it to come.

The following bound what the runs claim. They have no run of their own; TLC shows
each of them when the property is added to the run with overlapping listeners
(`...Races`, with one seek where a seek is mentioned) or, for the tasks and
goroutines that outlive a termination, to `Committer` and `Subscriber`; for the
last one when `~overlapped` is taken out of the property and `MaxOverlapping` is 3.
The one on the errors of children is by reading the code only: the models have no
such errors.

* After a retryable SendMsg error `Send` leaves `rs.stream` in place until the
  new goroutine runs (streams.go:183), and a listener that has passed its check
  still delivers its response. A response of the old stream can then be matched
  with a batch that was resent and merged, and report wrong offsets; it can
  confirm a commit that was only resent; and it can make a correct server look
  as if it delivered out of order or too much. Messages published while an
  idle timeout replaces the stream can overtake older ones
  (publisher.go:173). Hence `OffsetsTruthful`, `OrderedLog`, `ConfirmedIsCommitted`, `ServerTokensAgree` and
  `ResponsesAccepted` are claimed without overlapping listeners only, and
  `EveryMessageOnce` and `AckedBeforeCommitted` with them only without seeks.
* "These events are guaranteed to occur in this order" (streams.go:92) does not
  hold across an idle timeout; a goroutine can call the handler after the
  "final" `streamTerminated` (streams.go:94), and `streamConnected` then starts
  the periodic task of a terminated committer or subscriber again
  (committer.go:166, subscriber.go:245).
* A seek whose handling ends after the termination starts a delivery goroutine
  that nobody stops (subscriber.go:271).
* A late notification without an error can be the one that terminates a
  composite whose only child failed, and hides the failure (service.go:312).
* When `handleAssignment` takes longer than the idle timeout of the assigner's
  stream, a second listener handles the next assignment concurrently and acks it
  without waiting for the subscribers that the first one removed (assigner.go:163,
  subscriber.go:504). A partition given back by it then has two subscribers that
  run. `AckAfterStop` and `OneSubscriberPerPartition` except what follows this.

## 6. What is not modelled

* Errors beyond their class, logging, metadata, validation of settings.
* Byte sizes: every message has size one, so byte and message limits coincide,
  and `saturatedAdd` is plain addition.
* Time: timers may fire at any moment at which they are armed; deadlines end
  loops eventually.
* Protocol violations by the server other than those that the services' own
  checks would find in a correct exchange.
* The closing of API clients, the routing publisher, `pscompat` and the other
  clients of the repository: see `PROJECT.json`.

## 7. Plan

1. *Extend the model.* `RoutingPublisher` with the partition count watcher and
   the routers, on `CompositeService`. The composition of committer and
   subscribe stream in a `singlePartitionSubscriber`, with the seek protocol
   between them. The assigner on a `ServedStream`. The
   errors that statuses carry (`FailureReported`). An abstract specification of
   a stream as its handler sees it, implemented by each service's stream.
2. *Further components*: `pubsub` flow controller and lease extension, managed
   writer, `spanner` session pool.
3. *Prove more.* `Publisher`: `ResultOnce` and `BufferAccounting`.
   `Subscriber`: `WindowBalance`, from which `QueueNeverFull` follows.
   `Committer`: `ConfirmedIsCommitted` without overlapping listeners.
   `StreamClient`: every service's stream behaves as a `StreamClient` (step
   simulation).
