------------------------------ MODULE Subscriber ------------------------------
(***************************************************************************)
(* The subscribe stream of a partition                                     *)
(* (pubsublite/internal/wire/subscriber.go) with its flow control and      *)
(* offset tracker (flow_control.go), the delivery queue with the user's    *)
(* receiver, and the server at the other end of the stream.                *)
(*                                                                         *)
(* One action is one critical section of subscribeStream.mu or one step of *)
(* the delivery goroutine.  Messages have size one, so that the tokens for *)
(* bytes and for messages coincide.  The committer is seen only through    *)
(* handleReset (Committer shows that it returns), through the acks that it *)
(* invalidates, and through its failure, after which no ack counts and the *)
(* composite of the two (singlePartitionSubscriber) stops this stream.     *)
(***************************************************************************)
EXTENDS ServedStream, Service, SequencesExt

CONSTANTS
  MaxOutstandingMessages,  \* ReceiveSettings
  MaxOffset,               \* the partition holds the messages 0..MaxOffset
  SeekTargets,             \* offsets to which the subscription may be sought
  MaxResets                \* bound on the seeks of the subscription

ASSUME SubscriberAssumption ==
  /\ MaxOutstandingMessages \in Nat \ {0}
  /\ MaxOffset \in Nat
  /\ SeekTargets \subseteq 0..MaxOffset
  /\ MaxResets \in Nat

VARIABLES
  svc,            \* abstractService.status
  enableBatch,    \* subscribeStream.enableBatchFlowControl
  polling,        \* whether the periodic task pollFlowControl runs
  clientTokens,   \* flowControlBatcher.clientTokens
  pendingTokens,  \* flowControlBatcher.pendingTokens
  minNextOffset,  \* subscriberOffsetTracker.minNextOffset
  queue,          \* the contents of messageDeliveryQueue.messagesC
  queueOpen,      \* whether stopC and messagesC are not nil
  deliverer,      \* the deliverMessages goroutine: none, in select, in receiver
  resetting,      \* the handling of streamResetState: none, wait, ok, stopped
  released,       \* whether the committer failed: ackTracker.enablePush is false
  unacked,        \* how many messages the user has whose ack still counts
  nextDelivery,   \* the offset that the user expects next
  position,       \* the next offset the server sends on each stream (external)
  granted,        \* the tokens the server has for each stream (external)
  committed,      \* the commit cursor (external)
  resets          \* how many RESET signals the server sent

flowVars == <<clientTokens, pendingTokens, minNextOffset>>
queueVars == <<queue, queueOpen, deliverer>>
userVars == <<released, unacked, nextDelivery>>
serverVars == <<position, granted, committed>>
ownVars == <<svc, enableBatch, polling, flowVars, queueVars, resetting,
             userVars, serverVars, resets>>
vars == <<streamVars, wireVars, ownVars>>

Offsets == 0..MaxOffset

\* No initial request was sent yet on the stream.
Unset == MaxOffset + 2

Responses == [first : Offsets, count : 1..MaxOutstandingMessages]

TypeOK ==
  /\ StreamTypeOK
  /\ svc \in ServiceStatuses
  /\ enableBatch \in BOOLEAN /\ polling \in BOOLEAN /\ queueOpen \in BOOLEAN
  /\ clientTokens \in 0..MaxOutstandingMessages
  /\ pendingTokens \in 0..MaxOutstandingMessages
  /\ minNextOffset \in 0..(MaxOffset + 1)
  /\ queue \in Seq(Offsets)
  /\ deliverer \in {"none", "select", "receiver"}
  /\ resetting \in {"none", "wait", "ok", "stopped"}
  /\ released \in BOOLEAN
  /\ unacked \in 0..MaxOutstandingMessages
  /\ nextDelivery \in 0..(MaxOffset + 1)
  /\ position \in [Streams -> 0..Unset]
  /\ granted \in [Streams -> Nat]
  /\ committed \in Offsets
  /\ resets \in 0..MaxResets
  /\ toServer \in [Streams -> Seq(1..MaxOutstandingMessages)]
  /\ fromServer \in [Streams -> Seq(Responses)]
  /\ faults \in 0..MaxFaults

Init ==
  /\ StreamInit
  /\ WireInit
  /\ svc = serviceUninitialized
  /\ enableBatch = FALSE
  /\ polling = FALSE
  /\ clientTokens = 0 /\ pendingTokens = 0
  /\ minNextOffset = 0
  /\ queue = <<>> /\ queueOpen = FALSE /\ deliverer = "none"
  /\ resetting = "none"
  /\ released = FALSE
  /\ unacked = 0
  /\ committed \in SeekTargets
  /\ nextDelivery = committed
  /\ position = [s \in Streams |-> Unset]
  /\ granted = [s \in Streams |-> 0]
  /\ resets = 0

-----------------------------------------------------------------------------
(* Flow control and the delivery queue *)

\* Mutant: the tokens are added to those left before.
ResetFlowAdds ==
  /\ clientTokens' = clientTokens + MaxOutstandingMessages
  /\ pendingTokens' = 0

\* flowControlBatcher.Reset
ResetFlow ==
  /\ clientTokens' = MaxOutstandingMessages
  /\ pendingTokens' = 0

\* Mutant: the ratio that expedites a batch can never be reached.
ShouldExpediteBeyond(pending, client) == client > 0 /\ pending > client

\* ShouldExpediteBatchRequest, with expediteBatchRequestRatio = 0.5
ShouldExpedite(pending, client) == client > 0 /\ 2 * pending >= client

\* unsafeSendFlowControl: there is no request for zero tokens, and the result
\* of Send is ignored.
SendFlowControl(base, tokens) ==
  IF tokens = 0 THEN KeepStream(base) /\ UNCHANGED wireVars
  ELSE \E sent \in BOOLEAN : SendRequest(base, tokens, sent)

\* Mutant: the offsets of a response are not checked.
InOrderAlways(r) == TRUE

\* subscriberOffsetTracker.OnMessages and flowControlBatcher.OnMessages accept
\* messages that are in order and no more than were requested.
InOrder(r) == r.first >= minNextOffset

WithinTokens(r) == r.count <= clientTokens

\* The messages of a response
Messages(r) == [i \in 1..r.count |-> r.first + i - 1]

\* messageDeliveryQueue.Start: a new channel and a new goroutine
StartQueue ==
  IF queueOpen THEN UNCHANGED queueVars
  ELSE queue' = <<>> /\ queueOpen' = TRUE /\ deliverer' = "select"

\* messageDeliveryQueue.Stop: the goroutine keeps the channel until it sees
\* that stopC is closed.
StopQueue == queueOpen' = FALSE /\ UNCHANGED <<queue, deliverer>>

\* unsafeInitiateShutdown
InitiateShutdown(base, target) ==
  /\ svc' = UpdateStatus(svc, target)
  /\ IF CanUpdateStatus(svc, target)
     THEN StopQueue /\ polling' = FALSE /\ StreamStop(base)
     ELSE KeepStream(base) /\ UNCHANGED <<queueVars, polling>>

-----------------------------------------------------------------------------
(* Operations of the user *)

Start ==
  /\ svc = serviceUninitialized
  /\ svc' = serviceStarting
  /\ StreamStart(go)
  /\ polling' = TRUE
  /\ StartQueue
  /\ ResetFlow
  /\ UNCHANGED <<wireVars, enableBatch, minNextOffset, resetting, userVars,
                 serverVars, resets>>

\* The user stops the composite, or it stops this child when the other failed.
Stop ==
  /\ svc < serviceTerminating
  /\ InitiateShutdown(go, serviceTerminating)
  /\ UNCHANGED <<wireVars, enableBatch, flowVars, resetting, userVars,
                 serverVars, resets>>

\* onAck and unsafeAllowFlow
OnAck ==
  /\ clientTokens' = clientTokens + 1
  /\ IF enableBatch /\ ShouldExpedite(pendingTokens + 1, clientTokens + 1)
     THEN pendingTokens' = 0 /\ SendFlowControl(go, pendingTokens + 1)
     ELSE pendingTokens' = pendingTokens + 1 /\ UNCHANGED <<streamVars, wireVars>>

\* Which message is acked makes no difference to the flow control, and onAck
\* ignores acks when the service is not active.
UserAck ==
  /\ unacked > 0
  /\ svc = serviceActive
  /\ unacked' = unacked - 1
  /\ OnAck
  /\ UNCHANGED <<svc, enableBatch, polling, minNextOffset, queueVars, resetting,
                 released, nextDelivery, serverVars, resets>>

\* The committer fails, which releases the acks (unsafeInitiateShutdown).
CommitterFails ==
  /\ svc \in {serviceStarting, serviceActive}
  /\ ~released
  /\ released' = TRUE
  /\ unacked' = 0
  /\ UNCHANGED <<streamVars, wireVars, svc, enableBatch, polling, flowVars, queueVars,
                 resetting, nextDelivery, serverVars, resets>>

-----------------------------------------------------------------------------
(* deliverMessages.  Of a closed stopC and a message that are both ready,    *)
(* select may take the message; after the receiver returned, stopC has       *)
(* priority.                                                                 *)

DeliverMessage ==
  /\ deliverer = "select"
  /\ queue # <<>>
  /\ queue' = Tail(queue)
  /\ deliverer' = "receiver"
  /\ nextDelivery' = Head(queue) + 1
  /\ unacked' = IF released THEN unacked ELSE unacked + 1
  /\ UNCHANGED <<streamVars, wireVars, svc, enableBatch, polling, flowVars, queueOpen,
                 resetting, released, serverVars, resets>>

ReceiverReturns ==
  /\ deliverer = "receiver"
  /\ deliverer' = IF queueOpen THEN "select" ELSE "none"
  /\ UNCHANGED <<streamVars, wireVars, svc, enableBatch, polling, flowVars, queue, queueOpen,
                 resetting, userVars, serverVars, resets>>

StopDelivery ==
  /\ deliverer = "select"
  /\ ~queueOpen
  /\ deliverer' = "none"
  /\ UNCHANGED <<streamVars, wireVars, svc, enableBatch, polling, flowVars, queue, queueOpen,
                 resetting, userVars, serverVars, resets>>

-----------------------------------------------------------------------------
(* The periodic task and the streamHandler *)

SendBatchFlowControl ==
  /\ polling
  /\ enableBatch
  /\ pendingTokens > 0
  /\ pendingTokens' = 0
  /\ SendFlowControl(go, pendingTokens)
  /\ UNCHANGED <<svc, enableBatch, polling, clientTokens, minNextOffset, queueVars, resetting, userVars, serverVars, resets>>

OnReconnecting(g) ==
  /\ go[g].at = "notifyReconnecting"
  /\ enableBatch' = FALSE
  /\ polling' = FALSE
  /\ KeepStream(Notified(g))
  /\ UNCHANGED <<wireVars, svc, flowVars, queueVars, resetting, userVars,
                 serverVars, resets>>

\* Mutant: the tokens of the batch in preparation are sent again.
RestartKeepsPending == UNCHANGED pendingTokens

\* flowControlBatcher.RequestForRestart: all tokens go to the new stream.
RequestForRestart == pendingTokens' = 0

OnConnected(g) ==
  /\ go[g].at = "notifyConnected"
  /\ svc' = UpdateStatus(svc, serviceActive)
  /\ RequestForRestart
  /\ SendFlowControl(Notified(g), clientTokens)
  /\ enableBatch' = TRUE
  /\ polling' = TRUE
  /\ UNCHANGED <<clientTokens, minNextOffset, queueVars, resetting, userVars,
                 serverVars, resets>>

\* streamResetState: the queue is stopped and the mutex released,
OnResetState(g) ==
  /\ go[g].at \in {"notifyReset", "initReset"}
  /\ resetting = "none"
  /\ resetting' = "wait"
  /\ StopQueue
  /\ UNCHANGED <<streamVars, wireVars, svc, enableBatch, polling, flowVars,
                 userVars, serverVars, resets>>

\* then the delivery goroutine awaited (messageQueue.Wait) and handleReset
\* called, which clears the acks and fails if the committer has stopped,
HandleReset ==
  /\ resetting = "wait"
  /\ deliverer = "none"
  /\ resetting' \in IF released THEN {"stopped"} ELSE {"ok", "stopped"}
  /\ unacked' = 0
  /\ UNCHANGED <<streamVars, wireVars, svc, enableBatch, polling, flowVars, queueVars,
                 released, nextDelivery, serverVars, resets>>

\* Mutant: the offset tracker keeps expecting the messages before the seek.
ResetOffsetKept == UNCHANGED minNextOffset

\* subscriberOffsetTracker.Reset
ResetOffset == minNextOffset' = 0

\* and under the mutex again the state reset.  By then the server has moved
\* the commit cursor to where the subscription was sought.
OnResetDone(g) ==
  /\ go[g].at \in {"notifyReset", "initReset"}
  /\ resetting \in {"ok", "stopped"}
  /\ resetting' = "none"
  /\ IF resetting = "stopped"
     THEN /\ InitiateShutdown(Notified(g), serviceTerminating)
          /\ UNCHANGED <<flowVars, committed, nextDelivery>>
     ELSE /\ StartQueue
          /\ ResetOffset
          /\ ResetFlow
          /\ committed' \in SeekTargets
          /\ nextDelivery' = committed'
          /\ KeepStream(Notified(g))
          /\ UNCHANGED <<svc, polling>>
  /\ UNCHANGED <<wireVars, enableBatch, released, unacked, position, granted, resets>>

OnTerminated ==
  /\ termNotify = "pending"
  /\ termNotify' = "done"
  /\ svc' = serviceTerminated
  /\ IF CanUpdateStatus(svc, serviceTerminated) THEN StopQueue /\ polling' = FALSE
     ELSE UNCHANGED <<queueVars, polling>>
  /\ UNCHANGED <<muVars, conn, go, timerVars, ctxDone, wireVars, enableBatch, flowVars,
                 resetting, userVars, serverVars, resets>>

\* Mutant: messages cost no tokens.
TakeTokensNone(r) == UNCHANGED clientTokens

\* flowControlBatcher.OnMessages
TakeTokens(r) == clientTokens' = clientTokens - r.count

\* unsafeOnMessageResponse for messages that are accepted: each one is added to
\* the queue, unless it is stopped.
AcceptMessages(g, r) ==
  /\ minNextOffset' = r.first + r.count
  /\ TakeTokens(r)
  /\ queue' = IF queueOpen THEN queue \o Messages(r) ELSE queue
  /\ KeepStream(Notified(g))
  /\ UNCHANGED <<svc, polling, queueOpen, deliverer>>

OnResponse(g) ==
  /\ TakeResponse(g)
  /\ LET r == Response(g) IN
       CASE svc >= serviceTerminating ->
              /\ KeepStream(Notified(g))
              /\ UNCHANGED <<svc, polling, queueVars, clientTokens, minNextOffset>>
         [] svc < serviceTerminating /\ InOrder(r) /\ WithinTokens(r) -> AcceptMessages(g, r)
         [] OTHER ->
              /\ InitiateShutdown(Notified(g), serviceTerminated)
              /\ minNextOffset' = IF InOrder(r) THEN r.first + r.count ELSE minNextOffset
              /\ UNCHANGED clientTokens
  /\ UNCHANGED <<enableBatch, pendingTokens, resetting, userVars, serverVars, resets>>

-----------------------------------------------------------------------------
(* The stream below and the server at its other end *)

\* Mutant: every stream starts at the committed cursor.
StartCommitted == committed

\* subscriberOffsetTracker.RequestForRestart: a new stream starts at the
\* committed cursor or where the previous one was left.
StartLocation == IF minNextOffset <= 0 THEN committed ELSE minNextOffset

\* initialRequest
InitialRequest(g) ==
  /\ go[g].at = "init"
  /\ conn[go[g].own] = "opening"
  /\ position[go[g].own] = Unset
  /\ position' = [position EXCEPT ![go[g].own] = StartLocation]
  /\ UNCHANGED <<streamVars, wireVars, svc, enableBatch, polling, flowVars, queueVars, resetting, userVars, granted, committed, resets>>

\* The server signals at most MaxResets seeks.
CountResets(g) ==
  /\ resets' = IF go[g].arg # "reset" /\ go'[g].arg = "reset" THEN resets + 1 ELSE resets
  /\ resets' <= MaxResets

\* A stream that was aborted without being cancelled still yields the responses
\* that had arrived.
Receivable(s) ==
  \/ conn'[s] = "open"
  \/ conn'[s] = "broken" /\ \E g \in Goroutines :
       go'[g].own = s /\ go'[g].at \in ListeningPoints /\ go'[g].arg \notin Errors

\* Otherwise nothing in flight on a stream that is no longer open can be received,
\* except the response that a listener already holds.
Held(s) ==
  \E g \in Goroutines :
    go'[g].own = s /\ go'[g].arg = "response" /\ go'[g].at \in {"received", "restartIdle", "onResponse"}

Discard ==
  /\ toServer' = [s \in Streams |-> IF conn'[s] = "open" THEN toServer[s] ELSE <<>>]
  /\ fromServer' = [s \in Streams |-> CASE Receivable(s) -> fromServer[s]
                                       [] Held(s) -> SubSeq(fromServer[s], 1, 1)
                                       [] OTHER -> <<>>]
  /\ granted' = [s \in Streams |-> IF conn'[s] = "open" THEN granted[s] ELSE 0]
  /\ position' = [s \in Streams |-> IF Live(s)' THEN position[s] ELSE Unset]

Stream(g) ==
  /\ SilentStep(g)
  /\ Discard
  /\ go'[g].at = "initDone" /\ go[g].at = "init" => position[go[g].own] # Unset
  /\ CountResets(g)
  /\ UNCHANGED <<svc, enableBatch, polling, flowVars, queueVars, resetting, userVars, committed>>

Idle == IdleTimer /\ UNCHANGED ownVars

Open(g, s) ==
  /\ OpenStream(g, s)
  /\ position' = [position EXCEPT ![s] = Unset]
  /\ granted' = [granted EXCEPT ![s] = 0]
  /\ UNCHANGED <<svc, enableBatch, polling, flowVars, queueVars, resetting,
                 userVars, committed, resets>>

\* The server adds the tokens of a flow control request and spends them on
\* messages.
ServerGrant(s) ==
  /\ conn[s] = "open"
  /\ toServer[s] # <<>>
  /\ granted' = [granted EXCEPT ![s] = @ + Head(toServer[s])]
  /\ toServer' = [toServer EXCEPT ![s] = Tail(@)]
  /\ UNCHANGED <<streamVars, fromServer, faults, svc, enableBatch, polling, flowVars, queueVars,
                 resetting, userVars, position, committed, resets>>

ServerSend(s) ==
  /\ conn[s] = "open"
  /\ \E n \in 1..granted[s] :
       /\ position[s] + n <= MaxOffset + 1
       /\ fromServer' = [fromServer EXCEPT ![s] =
                           Append(@, [first |-> position[s], count |-> n])]
       /\ position' = [position EXCEPT ![s] = @ + n]
       /\ granted' = [granted EXCEPT ![s] = @ - n]
  /\ UNCHANGED <<streamVars, toServer, faults, svc, enableBatch, polling, flowVars, queueVars,
                 resetting, userVars, committed, resets>>

Handler(g) ==
  \/ OnReconnecting(g) \/ OnConnected(g) \/ OnResetState(g) \/ OnResetDone(g) \/ OnResponse(g)

\* deliverMessages
Deliverer == DeliverMessage \/ ReceiverReturns \/ StopDelivery

Server == \E s \in Streams : ServerGrant(s) \/ ServerSend(s)

Next ==
  \/ Start \/ Stop \/ UserAck \/ CommitterFails \/ Deliverer
  \/ SendBatchFlowControl \/ HandleReset \/ OnTerminated \/ Idle
  \/ \E g \in Goroutines :
       Handler(g) \/ InitialRequest(g) \/ Stream(g) \/ \E s \in Streams : Open(g, s)
  \/ Server

Spec == Init /\ [][Next]_vars

-----------------------------------------------------------------------------
(* Safety *)

\* Between two seeks the user gets every message of the partition from the
\* committed cursor on, once and in order, however often the stream breaks
\* between the receipt of a response, its queueing and the next connection.
EveryMessageOnce ==
  [][deliverer # "receiver" /\ deliverer' = "receiver" => nextDelivery' = nextDelivery + 1]_vars

\* The tokens that the client believes to have, the messages it holds and those
\* that the user has not acked add up to the window of the settings: no
\* reconnection, expedited batch or seek leaks or mints a token.  When the
\* committer failed, the acks that no longer count are missing from the sum.
WindowBalance ==
  svc = serviceActive /\ resetting = "none" =>
    /\ clientTokens + Len(queue) + unacked <= MaxOutstandingMessages
    /\ released \/ clientTokens + Len(queue) + unacked = MaxOutstandingMessages

\* messageDeliveryQueue.Add is called with the mutex held, which acks need too:
\* it must never find the channel full.
QueueNeverFull == Len(queue) <= MaxOutstandingMessages

Total(tokens) == FoldSeq(LAMBDA n, sum : n + sum, 0, tokens)

Count(responses) == FoldSeq(LAMBDA r, sum : r.count + sum, 0, responses)

\* "If Send() returns false, the stream will be reconnected and
\* flowControlBatcher.RequestForRestart() will be sent": on an open stream the
\* server has, or is about to get or to use, exactly the tokens of the client
\* that are not waiting for the next batch.
ServerTokensAgree ==
  enableBatch /\ stream # None /\ conn[stream] = "open" =>
    granted[stream] + Total(toServer[stream]) + Count(fromServer[stream]) + pendingTokens
      = clientTokens

\* A server that keeps to the tokens and the offset it was sent is never taken
\* for one that delivers too much or out of order, which is a permanent error.
ResponsesAccepted ==
  \A g \in Goroutines :
    go[g].at = "onResponse" /\ fromServer[go[g].own] # <<>> /\ svc < serviceTerminating =>
      InOrder(Response(g)) /\ WithinTokens(Response(g))

-----------------------------------------------------------------------------
(* Liveness.  The goroutines of the client run, the server spends its tokens *)
(* on an open stream, the user's receiver returns and its messages get       *)
(* acked, and the composite stops the stream once the committer has failed.  *)
(* Nothing is assumed of the flow control task: the acks of messages of      *)
(* equal size must expedite enough tokens.                                   *)

\* The steps of a goroutine that does not wait for the server.
Run(g) ==
  \/ Handler(g)
  \/ InitialRequest(g)
  \/ go[g].at # "listen" /\ Stream(g)
  \/ \E s \in Streams : Open(g, s)

RecvAborts(g) == go[g].at = "listen" /\ conn[go[g].own] # "open" /\ Stream(g)

Fairness ==
  /\ WF_vars(released /\ Stop)
  /\ WF_vars(HandleReset)
  /\ WF_vars(OnTerminated)
  /\ WF_vars(Deliverer)
  /\ WF_vars(UserAck)
  /\ WF_vars(Server)
  /\ \A g \in Goroutines :
       /\ WF_vars(Run(g))
       /\ WF_vars(RecvAborts(g))
       /\ WF_vars(RecvResponse(g) /\ Stream(g))
       /\ SF_vars(ExceededDeadline(g) /\ Stream(g))

FairSpec == Spec /\ Fairness

\* The flow of messages never stalls: tokens come back, expedited or with the
\* next connection, and the handling of a seek ends although it waits
\* for the user's receiver, until the user has everything; or else the
\* subscriber, once told to stop or failed, comes to an end.
EverythingDelivered ==
  svc >= serviceActive ~>
    \/ svc = serviceActive /\ resetting = "none" /\ nextDelivery = MaxOffset + 1
    \/ svc = serviceTerminated
=============================================================================
