------------------------------- MODULE Publisher -------------------------------
(***************************************************************************)
(* A single partition publisher (pubsublite/internal/wire/publisher.go and *)
(* publish_batcher.go) on top of its retryable stream, with the server's   *)
(* partition log.                                                          *)
(*                                                                         *)
(* One action is one critical section of singlePartitionPublisher.mu.  The *)
(* code keeps the mutex while it resends the in-flight batches, one Send   *)
(* at a time (mu = g), and gives it up while unsafeInitiateShutdown waits  *)
(* for the bundler to flush (flushing).                                    *)
(*                                                                         *)
(* Messages are 1..NumMessages, published in this order; each has size 1.  *)
(***************************************************************************)
EXTENDS ServedStream, Service, Integers, SequencesExt

CONSTANTS
  NumMessages,        \* how many messages the user publishes
  BufferedByteLimit,  \* settings.BufferedByteLimit
  MaxRequest          \* MaxPublishRequestCount and MaxPublishRequestBytes

ASSUME PublisherAssumption ==
  /\ NumMessages \in Nat /\ BufferedByteLimit \in Nat
  /\ MaxRequest \in Nat \ {0}

VARIABLES
  svc,        \* abstractService.status
  enableSend, \* enableSendToStream
  mu,         \* the goroutine that holds the mutex between actions, or None
  resend,     \* the batches it has still to resend
  bundle,     \* the messages in the bundler
  queue,      \* batcher.publishQueue
  minNext,    \* batcher.minExpectedNextOffset
  avail,      \* batcher.availableBufferBytes
  flushing,   \* target statuses of the shutdowns waiting in Flush
  shutErr,    \* err of the immediate shutdown
  result,     \* for each message the results given to the user
  log         \* the messages of the partition, in offset order (external)

publisherVars == <<svc, enableSend, mu, resend, minNext, shutErr>>
batcherVars == <<bundle, queue, avail, flushing, result>>
ownVars == <<publisherVars, batcherVars, log>>
serverVars == <<log, wireVars>>
vars == <<streamVars, publisherVars, batcherVars, serverVars>>

Messages == 1..NumMessages
Batches == Seq(Messages)

\* What onResult was called with: an offset, (nil, err), or (nil, nil).
ErrorResult == -1
NilResult == -2

TypeOK ==
  /\ StreamTypeOK
  /\ svc \in ServiceStatuses
  /\ enableSend \in BOOLEAN
  /\ mu \in Goroutines \cup {None}
  /\ resend \in Seq(Batches)
  /\ bundle \in Seq(Messages)
  /\ queue \in Seq(Batches)
  /\ minNext \in Nat
  /\ avail \in 0..BufferedByteLimit
  /\ flushing \subseteq {serviceTerminating, serviceTerminated}
  /\ shutErr \in {ErrorResult, NilResult}
  /\ result \in [Messages -> Seq(Int)]
  /\ log \in Seq(Messages)
  /\ toServer \in [Streams -> Seq(Batches)]
  /\ fromServer \in [Streams -> Seq(Nat)]
  /\ faults \in 0..MaxFaults

Init ==
  /\ StreamInit
  /\ svc = serviceUninitialized
  /\ enableSend = FALSE
  /\ mu = None
  /\ resend = <<>>
  /\ bundle = <<>>
  /\ queue = <<>>
  /\ minNext = 0
  /\ avail = BufferedByteLimit
  /\ flushing = {}
  /\ shutErr = NilResult
  /\ result = [m \in Messages |-> <<>>]
  /\ log = <<>>
  /\ WireInit

-----------------------------------------------------------------------------
(* The batcher *)

Accepted == {m \in Messages : m \in Range(bundle) \/ m \in Range(FlattenSeq(queue))}
            \cup {m \in Messages : result[m] # <<>>}

\* onResult is called for each message of a batch.
SetResults(batch, results) ==
  result' = [m \in Messages |->
    IF m \in Range(batch)
    THEN Append(result[m], results[CHOOSE i \in DOMAIN batch : batch[i] = m])
    ELSE result[m]]

\* "the offset of each message is firstOffset + i"
OffsetsFrom(first, batch) == [i \in DOMAIN batch |-> first + i - 1]

\* InFlightBatches: adjacent batches are merged while they fit in one request.
MergeBatch(merged, batch) ==
  IF merged # <<>> /\ Len(Last(merged)) + Len(batch) <= MaxRequest
  THEN Append(Front(merged), Last(merged) \o batch)
  ELSE Append(merged, batch)

InFlightBatches == FoldLeft(MergeBatch, <<>>, queue)

\* stream.Send(batch.ToPublishRequest())
SendBatch(base, batch, sent) == SendRequest(base, batch, sent) /\ UNCHANGED log

\* Mutant: only a response that empties the queue ends the publisher.
CheckDoneOnResponse(q, base) ==
  IF svc = serviceTerminating /\ q = <<>> /\ queue # <<>> THEN StreamStop(base)
  ELSE KeepStream(base)

\* unsafeCheckDone, with the queue and goroutines of the caller's next state
CheckDone(q, base) ==
  IF svc = serviceTerminating /\ q = <<>> THEN StreamStop(base)
  ELSE KeepStream(base)

\* unsafeInitiateShutdown up to the point where it unlocks the mutex to Flush.
\* For an immediate shutdown the caller stops the stream as well.
InitiateShutdown(target, err) ==
  IF ~CanUpdateStatus(svc, target) THEN UNCHANGED <<svc, flushing, enableSend, shutErr>>
  ELSE /\ svc' = target
       /\ flushing' = flushing \cup {target}
       /\ enableSend' = (enableSend /\ target # serviceTerminated)
       /\ shutErr' = IF target = serviceTerminated THEN err ELSE shutErr

-----------------------------------------------------------------------------
(* Operations of the user *)

Start ==
  /\ mu = None
  /\ svc = serviceUninitialized
  /\ svc' = serviceStarting
  /\ StreamStart(go)
  /\ UNCHANGED <<enableSend, mu, resend, minNext, shutErr, batcherVars, serverVars>>

Stop ==
  /\ mu = None
  /\ InitiateShutdown(serviceTerminating, NilResult)
  /\ UNCHANGED <<streamVars, mu, resend, minNext, bundle, queue, avail, result, serverVars>>

\* The next message is the first that has neither a result nor been accepted.
NextMessage(m) == m \notin Accepted /\ \A n \in 1..(m - 1) : n \in Accepted

\* Mutant: the buffer limit is not looked at.
HasSpaceAlways == TRUE

HasSpace == avail > 0

\* Mutant: the message takes no buffer space.
AddMessageForFree(m) == bundle' = Append(bundle, m) /\ UNCHANGED avail

AddMessage(m) == bundle' = Append(bundle, m) /\ avail' = avail - 1

Publish(m) ==
  /\ mu = None
  /\ NextMessage(m)
  /\ IF svc \in {serviceStarting, serviceActive} /\ HasSpace
     THEN /\ AddMessage(m)
          /\ UNCHANGED <<svc, flushing, enableSend, shutErr, result>>
     ELSE /\ InitiateShutdown(serviceTerminating, ErrorResult)
          /\ result' = [result EXCEPT ![m] = Append(@, ErrorResult)]
          /\ UNCHANGED <<bundle, avail>>
  /\ UNCHANGED <<streamVars, mu, resend, minNext, queue, serverVars>>

-----------------------------------------------------------------------------
(* The bundler's goroutine, and the shutdowns that wait for it *)

OnNewBatch(n) ==
  /\ mu = None
  /\ n <= Len(bundle)
  /\ bundle' = SubSeq(bundle, n + 1, Len(bundle))
  /\ queue' = Append(queue, SubSeq(bundle, 1, n))
  /\ IF enableSend THEN \E sent \in BOOLEAN : SendBatch(go, SubSeq(bundle, 1, n), sent)
     ELSE UNCHANGED <<streamVars, serverVars>>
  /\ UNCHANGED <<publisherVars, avail, flushing, result>>

FlushedTerminating ==
  /\ mu = None
  /\ serviceTerminating \in flushing
  /\ bundle = <<>>
  /\ flushing' = flushing \ {serviceTerminating}
  /\ CheckDone(queue, go)
  /\ UNCHANGED <<publisherVars, bundle, queue, avail, result, serverVars>>

\* Mutant: the failed batches stay in the queue.
OnPermanentErrorOnly ==
  SetResults(FlattenSeq(queue), [i \in DOMAIN FlattenSeq(queue) |-> shutErr]) /\ UNCHANGED queue

\* Every message in flight gets the error.
OnPermanentError ==
  SetResults(FlattenSeq(queue), [i \in DOMAIN FlattenSeq(queue) |-> shutErr]) /\ queue' = <<>>

FlushedTerminated ==
  /\ mu = None
  /\ serviceTerminated \in flushing
  /\ bundle = <<>>
  /\ flushing' = flushing \ {serviceTerminated}
  /\ OnPermanentError
  /\ UNCHANGED <<streamVars, publisherVars, bundle, avail, serverVars>>

-----------------------------------------------------------------------------
(* The streamHandler *)

\* Mutant: new batches may be sent before those in flight are sent again.
OnReconnectingSends(g) ==
  /\ mu = None
  /\ go[g].at = "notifyReconnecting"
  /\ KeepStream(Notified(g))
  /\ UNCHANGED <<publisherVars, batcherVars, serverVars>>

OnReconnecting(g) ==
  /\ mu = None
  /\ go[g].at = "notifyReconnecting"
  /\ enableSend' = FALSE
  /\ KeepStream(Notified(g))
  /\ UNCHANGED <<svc, mu, resend, minNext, shutErr,
                 batcherVars, serverVars>>

\* onStreamStatusChange has no case for streamResetState.
OnResetState(g) ==
  /\ mu = None
  /\ go[g].at \in {"notifyReset", "initReset"}
  /\ KeepStream(Notified(g))
  /\ UNCHANGED <<publisherVars, batcherVars, serverVars>>

\* The streamConnected case takes the mutex and merges the in-flight batches,
OnConnected(g) ==
  /\ mu = None
  /\ go[g].at = "notifyConnected"
  /\ svc' = UpdateStatus(svc, serviceActive)
  /\ queue' = InFlightBatches
  /\ resend' = InFlightBatches
  /\ mu' = g
  /\ UNCHANGED <<streamVars, enableSend, minNext, shutErr, bundle, avail, flushing, result,
                 serverVars>>

\* sends them one by one and returns if a Send fails,
Resend(g) ==
  /\ mu = g
  /\ resend # <<>>
  /\ \E sent \in BOOLEAN :
       /\ SendBatch(IF sent THEN go ELSE Notified(g), Head(resend), sent)
       /\ resend' = IF sent THEN Tail(resend) ELSE <<>>
       /\ mu' = IF sent THEN g ELSE None
  /\ UNCHANGED <<svc, enableSend, minNext, shutErr, batcherVars>>

\* and lets onNewBatch send once all are sent.
Resent(g) ==
  /\ mu = g
  /\ resend = <<>>
  /\ enableSend' = TRUE
  /\ mu' = None
  /\ KeepStream(Notified(g))
  /\ UNCHANGED <<svc, resend, minNext, shutErr, batcherVars,
                 serverVars>>

\* unsafeInitiateShutdown(serviceTerminated, pp.stream.Error()); the stream it
\* stops has already terminated.
OnTerminated ==
  /\ mu = None
  /\ termNotify = "pending"
  /\ termNotify' = "done"
  /\ InitiateShutdown(serviceTerminated, IF finalErr = "nil" THEN NilResult ELSE ErrorResult)
  /\ UNCHANGED <<muVars, conn, go, timerVars, ctxDone, mu, resend, minNext, bundle, queue,
                 avail, result, serverVars>>

\* Mutant: the acknowledged batch stays in the queue.
OnPublishResponseKeepsBatch(offset) ==
  /\ SetResults(Head(queue), OffsetsFrom(offset, Head(queue)))
  /\ UNCHANGED <<avail, minNext, queue>>

\* Mutant: the offsets of a batch are counted from one.
OnPublishResponseOffByOne(offset) ==
  /\ SetResults(Head(queue), OffsetsFrom(offset + 1, Head(queue)))
  /\ queue' = Tail(queue)
  /\ UNCHANGED <<avail, minNext>>

\* Mutant: the buffer space of the acknowledged messages is not freed.
OnPublishResponseKeepsBytes(offset) ==
  /\ SetResults(Head(queue), OffsetsFrom(offset, Head(queue)))
  /\ queue' = Tail(queue)
  /\ UNCHANGED <<avail, minNext>>

\* The response acknowledges the batch at the front of the queue.
OnPublishResponse(offset) ==
  /\ SetResults(Head(queue), OffsetsFrom(offset, Head(queue)))
  /\ avail' = avail + Len(Head(queue))
  /\ minNext' = offset + Len(Head(queue))
  /\ queue' = Tail(queue)

\* A response that no batch explains ends the publisher.
OnResponse(g) ==
  /\ mu = None
  /\ TakeResponse(g)
  /\ IF queue = <<>> \/ Response(g) < minNext
     THEN /\ InitiateShutdown(serviceTerminated, ErrorResult)
          /\ IF svc < serviceTerminated THEN StreamStop(Notified(g))
             ELSE KeepStream(Notified(g))
          /\ UNCHANGED <<minNext, queue, avail, result>>
     ELSE /\ OnPublishResponse(Response(g))
          /\ CheckDone(Tail(queue), Notified(g))
          /\ UNCHANGED <<svc, flushing, enableSend, shutErr>>
  /\ UNCHANGED <<mu, resend, bundle, log>>

-----------------------------------------------------------------------------
(* The stream below and the server at its other end *)

Stream(g) ==
  /\ StreamStep(g) \/ \E s \in Streams : OpenStream(g, s)
  /\ UNCHANGED ownVars

Idle == IdleTimer /\ UNCHANGED ownVars

\* The server appends the messages of a request to the log and answers with
\* the offset of the first.  A request that was in flight when its stream broke
\* may still be processed; its answer is lost.
ServerPublish(s) ==
  /\ toServer[s] # <<>>
  /\ log' = log \o Head(toServer[s])
  /\ toServer' = [toServer EXCEPT ![s] = Tail(@)]
  /\ fromServer' = IF conn[s] = "open" THEN [fromServer EXCEPT ![s] = Append(@, Len(log))]
                   ELSE fromServer
  /\ UNCHANGED <<streamVars, publisherVars, batcherVars, faults>>

Handler(g) ==
  \/ OnReconnecting(g) \/ OnResetState(g) \/ OnConnected(g) \/ Resend(g) \/ Resent(g)
  \/ OnResponse(g)

Flusher ==
  \/ \E n \in 1..MaxRequest : OnNewBatch(n)
  \/ FlushedTerminating
  \/ FlushedTerminated

Next ==
  \/ Start \/ Stop \/ \E m \in Messages : Publish(m)
  \/ Flusher \/ OnTerminated \/ Idle
  \/ \E g \in Goroutines : Handler(g) \/ Stream(g)
  \/ \E s \in Streams : ServerPublish(s)

Spec == Init /\ [][Next]_vars

-----------------------------------------------------------------------------
(* Safety *)

\* The user gets at most one result for a message: onResult is not called again
\* by a response that races a permanent error, nor by a resent batch.
ResultOnce == \A m \in Messages : Len(result[m]) <= 1

\* An offset reported to the user is where the partition holds that message,
\* although a response carries only its first offset and is matched with the
\* front of a queue that reconnections resend and merge.
OffsetsTruthful ==
  \A m \in Messages : \A i \in DOMAIN result[m] :
    result[m][i] >= 0 => result[m][i] < Len(log) /\ log[result[m][i] + 1] = m

\* "To ensure messages are sent in order": no message reaches the partition
\* before the message published ahead of it; resends may repeat messages.
OrderedLog ==
  \A i \in DOMAIN log : log[i] > 1 => \E j \in 1..(i - 1) : log[j] = log[i] - 1

\* The buffer bytes neither leak nor are freed twice while messages move from
\* the bundler to the queue, get merged, resent and acknowledged.
BufferAccounting ==
  svc < serviceTerminated =>
    avail + Len(bundle) + Len(FlattenSeq(queue)) = BufferedByteLimit

\* "All pending messages are flushed": no message is given a result that has
\* neither metadata nor an error, which the user takes for a success.
NoSilentLoss ==
  \A m \in Messages : NilResult \notin Range(result[m])

-----------------------------------------------------------------------------
(* Liveness.  The goroutines of the client run, the bundler hands over its   *)
(* messages and the server answers on an open stream.                        *)

Fairness ==
  /\ WF_vars(Flusher)
  /\ WF_vars(OnTerminated)
  /\ \A s \in Streams : WF_vars(ServerPublish(s))
  /\ \A g \in Goroutines :
       /\ WF_vars(Handler(g))
       /\ WF_vars(RunStream(g) /\ UNCHANGED ownVars)
       /\ WF_vars(RecvAborted(g) /\ UNCHANGED ownVars)
       /\ WF_vars(RecvPending(g) /\ UNCHANGED ownVars)
       /\ SF_vars(Deadline(g) /\ UNCHANGED ownVars)

FairSpec == Spec /\ Fairness

\* A publisher that is told to stop, or fails, terminates and leaves no message
\* without a result.
ShutdownCompletes ==
  svc >= serviceTerminating ~>
    /\ svc = serviceTerminated
    /\ flushing = {} /\ bundle = <<>> /\ queue = <<>>

=============================================================================
