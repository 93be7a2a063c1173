----------------------------- MODULE StreamProofs -----------------------------
(***************************************************************************)
(* Proofs about StreamClient, for any number of goroutines and streams.    *)
(***************************************************************************)
EXTENDS StreamClient, RetryableStreamProofs

\* The locals of a goroutine are what the code takes them for: an error where
\* it treats them as one, a stream while it initializes one.
ArgsOK ==
  \A g \in Goroutines :
    /\ go[g].at \in {"init", "initDone"} => go[g].own \in Streams
    /\ go[g].at \in {"initReset", "retry", "initFailed", "recvFailed"} => go[g].arg \in Errors
    /\ go[g].at \in {"received", "restartIdle"} => go[g].arg \in Errors \cup {"response"}

\* Only a goroutine that moved the status to reconnecting is connecting.
ConnectingStatus ==
  \A g \in Goroutines :
    Connecting(g) => status \in {"streamReconnecting", "streamTerminated"}

TerminatedHasNoStream == status = "streamTerminated" => stream = None

Inv ==
  /\ TypeOK
  /\ ArgsOK
  /\ OneReconnecting
  /\ ConnectingStatus
  /\ NeverStranded
  /\ NoStreamLeak
  /\ TerminatedHasNoStream

LEMMA CancelledType ==
  ASSUME StreamTypeOK, NEW s
  PROVE  /\ Cancelled(s) \in [Streams -> {"unused", "opening", "open", "broken", "cancelled"}]
         /\ Aborted(s) \in [Streams -> {"unused", "opening", "open", "broken", "cancelled"}]
BY DEF StreamTypeOK, Cancelled, Aborted, Live

LEMMA TypeStep == TypeOK /\ ArgsOK /\ [Next]_streamVars => TypeOK'
<1> SUFFICES ASSUME TypeOK, ArgsOK, [Next]_streamVars PROVE TypeOK'
  OBVIOUS
<1> USE StreamAssumption, CancelledType, HoldingType, AtType, EndedType, StartingType
        DEF TypeOK, StreamTypeOK, muVars, timerVars, envVars, streamVars,
            Terminate, SpawnTerminated, ClearStream, Statuses
<1>0. /\ {"none", "reset", "response"} \subseteq Args
      /\ Errors \subseteq Args
      /\ {"retryable", "reset", "permanent", "canceled", "unavailable", "nil"} = Errors \cup {"nil"}
  BY DEF Args, Errors
<1>P. {"free", "start", "notifyReconnecting", "notifyReset", "checkStatus",
       "newStreamContext", "init", "initReset", "retry", "initFailed", "initDone",
       "notifyConnected", "listen", "received", "restartIdle", "onResponse",
       "recvFailed"} = Points
  BY DEF Points, ConnectingPoints, ListeningPoints
<1> USE <1>0, <1>P
<1>1. CASE ClientStart
  BY <1>1 DEF ClientStart, StreamStart
<1>2. CASE ClientStop
  BY <1>2 DEF ClientStop, StreamStop
<1>3. ASSUME NEW sent \in BOOLEAN, Send(go, sent) PROVE TypeOK'
  <2>1. CASE SendNoStream(go) \/ SendOK(go)
    BY <1>3, <2>1 DEF SendNoStream, SendOK
  <2>2. CASE SendEOF(go) \/ SendRetryable(go)
    BY <1>3, <2>2 DEF SendEOF, SendRetryable
  <2>3. CASE SendPermanent(go)
    BY <1>3, <2>3 DEF SendPermanent
  <2> QED
    BY <1>3, <2>1, <2>2, <2>3 DEF Send
<1>4. CASE CancelContext
  BY <1>4 DEF CancelContext
<1>5. CASE IdleStep
  <2>1. CASE OnPoll
    BY <1>5, <2>1 DEF OnPoll
  <2>2. CASE OnStreamIdle
    <3>1. go' \in [Goroutines -> GoState]
      BY <2>2 DEF OnStreamIdle
    <3> QED
      BY <1>5, <2>2, <3>1 DEF OnStreamIdle
  <2> QED
    BY <1>5, <2>1, <2>2 DEF IdleStep
<1>6. CASE NotifyTerminated
  BY <1>6 DEF NotifyTerminated
<1>7. ASSUME NEW g \in Goroutines, Goroutine(g) PROVE TypeOK'
  <2>1. CASE CanReconnect(g)
    BY <2>1 DEF CanReconnect
  <2>2. CASE CheckStatus(g) \/ InitDone(g)
    <3>1. go' \in [Goroutines -> GoState]
      BY <2>2 DEF CheckStatus, InitDone
    <3>2. conn' \in [Streams -> {"unused", "opening", "open", "broken", "cancelled"}]
      BY <2>2 DEF CheckStatus, InitDone
    <3> QED
      BY <2>2, <3>1, <3>2 DEF CheckStatus, InitDone
  <2>3. ASSUME NEW s \in Streams, NewStreamContext(g, s) PROVE TypeOK'
    <3>1. [at |-> "init", arg |-> "none", own |-> s] \in GoState
      BY DEF GoState, ConnectingPoints
    <3> QED
      BY <2>3, <3>1 DEF NewStreamContext
  <2>4. ASSUME NEW err \in Errors, InitFail(g, err) PROVE TypeOK'
    <3>1. go' \in [Goroutines -> GoState]
      BY <2>4 DEF InitFail
    <3> QED
      BY <2>4, <3>1 DEF InitFail
  <2>5. CASE Retry(g) \/ ExceededDeadline(g)
    <3>1. /\ Holding(g, "initFailed", "canceled") \in [Goroutines -> GoState]
          /\ Holding(g, "initFailed", "unavailable") \in [Goroutines -> GoState]
          /\ At(g, "initFailed") \in [Goroutines -> GoState]
          /\ At(g, "newStreamContext") \in [Goroutines -> GoState]
      BY DEF Errors
    <3> QED
      BY <2>5, <3>1 DEF Retry, ExceededDeadline
  <2>6. CASE Fail(g)
    BY <2>6 DEF Fail, ArgsOK
  <2>7. CASE Connected(g)
    <3>1. go[g].own \in Streams \cup {None}
      BY DEF GoState
    <3> QED
      BY <2>7, <3>1 DEF Connected, DiscardStream
  <2>8. CASE ListenStep(g)
    <3>1. CASE CheckCurrent(g)
      BY <3>1 DEF CheckCurrent
    <3>2. CASE RestartIdle(g)
      <4>1. go' \in [Goroutines -> GoState]
        BY <3>2 DEF RestartIdle, Reconnect
      <4> QED
        BY <3>2, <4>1 DEF RestartIdle
    <3> QED
      BY <2>8, <3>1, <3>2 DEF ListenStep
  <2> QED
    BY <1>7, <2>1, <2>2, <2>3, <2>4, <2>5, <2>6, <2>7, <2>8 DEF Goroutine, ConnectStep
<1>8. ASSUME NEW g \in Goroutines, Recv(g) PROVE TypeOK'
  <2>1. CASE RecvResponse(g)
    <3>1. Holding(g, "received", "response") \in [Goroutines -> GoState]
      OBVIOUS
    <3> QED
      BY <1>8, <2>1, <3>1 DEF Recv, RecvResponse
  <2>2. ASSUME NEW err \in Errors, RecvError(g, err) PROVE TypeOK'
    <3>1. go' \in [Goroutines -> GoState]
      BY <2>2 DEF RecvError
    <3> QED
      BY <1>8, <2>2, <3>1 DEF Recv, RecvError
  <2> QED
    BY <1>8, <2>1, <2>2 DEF Recv
<1>9. ASSUME NEW g \in Goroutines, Notify(g) PROVE TypeOK'
  BY <1>9 DEF Notify, Notified, NotifyPoints
<1>10. CASE UNCHANGED streamVars
  BY <1>10
<1> QED
  BY <1>1, <1>2, <1>3, <1>4, <1>5, <1>6, <1>7, <1>8, <1>9, <1>10 DEF Next, ClientSend
LEMMA ArgsStep == TypeOK /\ ArgsOK /\ [Next]_streamVars => ArgsOK'
<1> SUFFICES ASSUME TypeOK, ArgsOK, [Next]_streamVars PROVE ArgsOK'
  OBVIOUS
<1>0. go \in [Goroutines -> GoState] /\ conn \in [Streams -> {"unused", "opening", "open", "broken", "cancelled"}]
  BY DEF TypeOK, StreamTypeOK
<1> USE StreamAssumption, <1>0 DEF muVars, timerVars, envVars, ArgsOK, GoState, Holding, At, Ended, Free, Starting, Errors
<1>1. CASE ClientStart
  BY <1>1 DEF ClientStart, StreamStart
<1>2. CASE ClientStop
  BY <1>2 DEF ClientStop, StreamStop, Terminate, ClearStream
<1>3. ASSUME NEW sent \in BOOLEAN, Send(go, sent) PROVE ArgsOK'
  <2>1. CASE SendNoStream(go) \/ SendOK(go)
    BY <2>1 DEF SendNoStream, SendOK
  <2>2. CASE SendEOF(go)
    BY <2>2 DEF SendEOF
  <2>3. CASE SendRetryable(go)
    BY <2>3 DEF SendRetryable
  <2>4. CASE SendPermanent(go)
    BY <2>4 DEF SendPermanent, Terminate, ClearStream
  <2> QED
    BY <1>3, <2>1, <2>2, <2>3, <2>4 DEF Send
<1>4. CASE CancelContext
  BY <1>4 DEF CancelContext
<1>5. CASE IdleStep
  <2>1. CASE OnPoll
    BY <2>1 DEF OnPoll
  <2>2. CASE OnStreamIdle
    BY <2>2 DEF OnStreamIdle, ClearStream
  <2> QED
    BY <1>5, <2>1, <2>2 DEF IdleStep
<1>6. CASE NotifyTerminated
  BY <1>6 DEF NotifyTerminated
<1>7. ASSUME NEW g \in Goroutines, Goroutine(g) PROVE ArgsOK'
  <2>1. CASE CanReconnect(g)
    BY <2>1 DEF CanReconnect, MayReconnect, ClearStream
  <2>2. CASE CheckStatus(g)
    BY <2>2 DEF CheckStatus
  <2>3. CASE InitDone(g)
    BY <2>3 DEF InitDone
  <2>4. ASSUME NEW s \in Streams, NewStreamContext(g, s) PROVE ArgsOK'
    BY <2>4 DEF NewStreamContext
  <2>5. ASSUME NEW err \in Errors, InitFail(g, err) PROVE ArgsOK'
    BY <2>5 DEF InitFail
  <2>6. CASE Retry(g)
    BY <2>6 DEF Retry
  <2>7. CASE ExceededDeadline(g)
    BY <2>7 DEF ExceededDeadline
  <2>8. CASE Fail(g)
    BY <2>8 DEF Fail, Terminate, ClearStream
  <2>9. CASE Connected(g)
    BY <2>9 DEF Connected, MayInstall, DiscardStream, ClearStream
  <2>10. CASE CheckCurrent(g)
    BY <2>10 DEF CheckCurrent
  <2>11. CASE RestartIdle(g)
    BY <2>11 DEF RestartIdle, Reconnect
  <2> QED
    BY <1>7, <2>1, <2>2, <2>3, <2>4, <2>5, <2>6, <2>7, <2>8, <2>9, <2>10, <2>11
       DEF Goroutine, ConnectStep, ListenStep
<1>8. ASSUME NEW g \in Goroutines, Recv(g) PROVE ArgsOK'
  <2>1. CASE RecvResponse(g)
    BY <2>1 DEF RecvResponse
  <2>2. ASSUME NEW err \in Errors, RecvError(g, err) PROVE ArgsOK'
    BY <2>2 DEF RecvError
  <2> QED
    BY <1>8, <2>1, <2>2 DEF Recv
<1>9. ASSUME NEW g \in Goroutines, Notify(g) PROVE ArgsOK'
  BY <1>9 DEF Notify, Notified, NotifyPoints
<1>10. CASE UNCHANGED streamVars
  BY <1>10 DEF streamVars
<1> QED
  BY <1>1, <1>2, <1>3, <1>4, <1>5, <1>6, <1>7, <1>8, <1>9, <1>10 DEF Next, ClientSend

LEMMA ReconnectStep == TypeOK /\ OneReconnecting /\ ConnectingStatus /\ [Next]_streamVars => OneReconnecting' /\ ConnectingStatus'
<1> SUFFICES ASSUME TypeOK, OneReconnecting, ConnectingStatus, [Next]_streamVars PROVE OneReconnecting' /\ ConnectingStatus'
  OBVIOUS
<1>0. go \in [Goroutines -> GoState] /\ conn \in [Streams -> {"unused", "opening", "open", "broken", "cancelled"}]
  BY DEF TypeOK, StreamTypeOK
<1> USE StreamAssumption, <1>0 DEF muVars, timerVars, envVars, OneReconnecting, ConnectingStatus, Connecting, ConnectingPoints, GoState, Holding, At, Ended, Free, Starting
<1>1. CASE ClientStart
  BY <1>1 DEF ClientStart, StreamStart
<1>2. CASE ClientStop
  BY <1>2 DEF ClientStop, StreamStop, Terminate, ClearStream
<1>3. ASSUME NEW sent \in BOOLEAN, Send(go, sent) PROVE OneReconnecting' /\ ConnectingStatus'
  <2>1. CASE SendNoStream(go) \/ SendOK(go)
    BY <2>1 DEF SendNoStream, SendOK
  <2>2. CASE SendEOF(go)
    BY <2>2 DEF SendEOF
  <2>3. CASE SendRetryable(go)
    BY <2>3 DEF SendRetryable
  <2>4. CASE SendPermanent(go)
    BY <2>4 DEF SendPermanent, Terminate, ClearStream
  <2> QED
    BY <1>3, <2>1, <2>2, <2>3, <2>4 DEF Send
<1>4. CASE CancelContext
  BY <1>4 DEF CancelContext
<1>5. CASE IdleStep
  <2>1. CASE OnPoll
    BY <2>1 DEF OnPoll
  <2>2. CASE OnStreamIdle
    BY <2>2 DEF OnStreamIdle, ClearStream
  <2> QED
    BY <1>5, <2>1, <2>2 DEF IdleStep
<1>6. CASE NotifyTerminated
  BY <1>6 DEF NotifyTerminated
<1>7. ASSUME NEW g \in Goroutines, Goroutine(g) PROVE OneReconnecting' /\ ConnectingStatus'
  <2>1. CASE CanReconnect(g)
    BY <2>1 DEF CanReconnect, MayReconnect, ClearStream
  <2>2. CASE CheckStatus(g)
    BY <2>2 DEF CheckStatus
  <2>3. CASE InitDone(g)
    BY <2>3 DEF InitDone
  <2>4. ASSUME NEW s \in Streams, NewStreamContext(g, s) PROVE OneReconnecting' /\ ConnectingStatus'
    BY <2>4 DEF NewStreamContext
  <2>5. ASSUME NEW err \in Errors, InitFail(g, err) PROVE OneReconnecting' /\ ConnectingStatus'
    BY <2>5 DEF InitFail
  <2>6. CASE Retry(g)
    BY <2>6 DEF Retry
  <2>7. CASE ExceededDeadline(g)
    BY <2>7 DEF ExceededDeadline
  <2>8. CASE Fail(g)
    BY <2>8 DEF Fail, Terminate, ClearStream
  <2>9. CASE Connected(g)
    BY <2>9 DEF Connected, MayInstall, DiscardStream, ClearStream
  <2>10. CASE CheckCurrent(g)
    BY <2>10 DEF CheckCurrent
  <2>11. CASE RestartIdle(g)
    BY <2>11 DEF RestartIdle, Reconnect
  <2> QED
    BY <1>7, <2>1, <2>2, <2>3, <2>4, <2>5, <2>6, <2>7, <2>8, <2>9, <2>10, <2>11
       DEF Goroutine, ConnectStep, ListenStep
<1>8. ASSUME NEW g \in Goroutines, Recv(g) PROVE OneReconnecting' /\ ConnectingStatus'
  <2>1. CASE RecvResponse(g)
    BY <2>1 DEF RecvResponse
  <2>2. ASSUME NEW err \in Errors, RecvError(g, err) PROVE OneReconnecting' /\ ConnectingStatus'
    BY <2>2 DEF RecvError
  <2> QED
    BY <1>8, <2>1, <2>2 DEF Recv
<1>9. ASSUME NEW g \in Goroutines, Notify(g) PROVE OneReconnecting' /\ ConnectingStatus'
  BY <1>9 DEF Notify, Notified, NotifyPoints
<1>10. CASE UNCHANGED streamVars
  BY <1>10 DEF streamVars
<1> QED
  BY <1>1, <1>2, <1>3, <1>4, <1>5, <1>6, <1>7, <1>8, <1>9, <1>10 DEF Next, ClientSend

LEMMA StrandedStep == TypeOK /\ ArgsOK /\ OneReconnecting /\ ConnectingStatus /\ NeverStranded /\ [Next]_streamVars => NeverStranded'
<1> SUFFICES ASSUME TypeOK, ArgsOK, OneReconnecting, ConnectingStatus, NeverStranded, [Next]_streamVars PROVE NeverStranded'
  OBVIOUS
<1>0. go \in [Goroutines -> GoState] /\ conn \in [Streams -> {"unused", "opening", "open", "broken", "cancelled"}]
  BY DEF TypeOK, StreamTypeOK
<1> USE StreamAssumption, <1>0 DEF muVars, timerVars, envVars, NeverStranded, ConnectingStatus, OneReconnecting, Connecting, ConnectingPoints, Listening, ListeningPoints, GoState, Holding, At, Ended, Free, Starting
<1>1. CASE ClientStart
  BY <1>1 DEF ClientStart, StreamStart
<1>2. CASE ClientStop
  BY <1>2 DEF ClientStop, StreamStop, Terminate, ClearStream
<1>3. ASSUME NEW sent \in BOOLEAN, Send(go, sent) PROVE NeverStranded'
  <2>1. CASE SendNoStream(go) \/ SendOK(go)
    BY <2>1 DEF SendNoStream, SendOK
  <2>2. CASE SendEOF(go)
    BY <2>2 DEF SendEOF
  <2>3. CASE SendRetryable(go)
    BY <2>3 DEF SendRetryable
  <2>4. CASE SendPermanent(go)
    BY <2>4 DEF SendPermanent, Terminate, ClearStream
  <2> QED
    BY <1>3, <2>1, <2>2, <2>3, <2>4 DEF Send
<1>4. CASE CancelContext
  BY <1>4 DEF CancelContext
<1>5. CASE IdleStep
  <2>1. CASE OnPoll
    BY <2>1 DEF OnPoll
  <2>2. CASE OnStreamIdle
    BY <2>2 DEF OnStreamIdle, ClearStream
  <2> QED
    BY <1>5, <2>1, <2>2 DEF IdleStep
<1>6. CASE NotifyTerminated
  BY <1>6 DEF NotifyTerminated
<1>7. ASSUME NEW g \in Goroutines, Goroutine(g) PROVE NeverStranded'
  <2>1. CASE CanReconnect(g)
    BY <2>1 DEF CanReconnect, MayReconnect, ClearStream
  <2>2. CASE CheckStatus(g)
    BY <2>2 DEF CheckStatus
  <2>3. CASE InitDone(g)
    BY <2>3 DEF InitDone
  <2>4. ASSUME NEW s \in Streams, NewStreamContext(g, s) PROVE NeverStranded'
    BY <2>4 DEF NewStreamContext
  <2>5. ASSUME NEW err \in Errors, InitFail(g, err) PROVE NeverStranded'
    BY <2>5 DEF InitFail
  <2>6. CASE Retry(g)
    BY <2>6 DEF Retry
  <2>7. CASE ExceededDeadline(g)
    BY <2>7 DEF ExceededDeadline
  <2>8. CASE Fail(g)
    BY <2>8 DEF Fail, Terminate, ClearStream
  <2>9. CASE Connected(g)
    BY <2>9 DEF Connected, MayInstall, DiscardStream, ClearStream, ArgsOK
  <2>10. CASE CheckCurrent(g)
    BY <2>10 DEF CheckCurrent
  <2>11. CASE RestartIdle(g)
    BY <2>11 DEF RestartIdle, Reconnect
  <2> QED
    BY <1>7, <2>1, <2>2, <2>3, <2>4, <2>5, <2>6, <2>7, <2>8, <2>9, <2>10, <2>11
       DEF Goroutine, ConnectStep, ListenStep
<1>8. ASSUME NEW g \in Goroutines, Recv(g) PROVE NeverStranded'
  <2>1. CASE RecvResponse(g)
    BY <2>1 DEF RecvResponse
  <2>2. ASSUME NEW err \in Errors, RecvError(g, err) PROVE NeverStranded'
    BY <2>2 DEF RecvError
  <2> QED
    BY <1>8, <2>1, <2>2 DEF Recv
<1>9. ASSUME NEW g \in Goroutines, Notify(g) PROVE NeverStranded'
  BY <1>9 DEF Notify, Notified, NotifyPoints
<1>10. CASE UNCHANGED streamVars
  BY <1>10 DEF streamVars
<1> QED
  BY <1>1, <1>2, <1>3, <1>4, <1>5, <1>6, <1>7, <1>8, <1>9, <1>10 DEF Next, ClientSend

LEMMA LeakStep == TypeOK /\ NoStreamLeak /\ TerminatedHasNoStream /\ [Next]_streamVars => NoStreamLeak' /\ TerminatedHasNoStream'
<1> SUFFICES ASSUME TypeOK, NoStreamLeak, TerminatedHasNoStream, [Next]_streamVars PROVE NoStreamLeak' /\ TerminatedHasNoStream'
  OBVIOUS
<1>0. go \in [Goroutines -> GoState] /\ conn \in [Streams -> {"unused", "opening", "open", "broken", "cancelled"}]
  BY DEF TypeOK, StreamTypeOK
<1> USE StreamAssumption, <1>0 DEF muVars, timerVars, envVars, NoStreamLeak, TerminatedHasNoStream, Live, Cancelled, Aborted, GoState, Holding, At, Ended, Free, Starting
<1>1. CASE ClientStart
  BY <1>1 DEF ClientStart, StreamStart
<1>2. CASE ClientStop
  BY <1>2 DEF ClientStop, StreamStop, Terminate, ClearStream
<1>3. ASSUME NEW sent \in BOOLEAN, Send(go, sent) PROVE NoStreamLeak' /\ TerminatedHasNoStream'
  <2>1. CASE SendNoStream(go) \/ SendOK(go)
    BY <2>1 DEF SendNoStream, SendOK
  <2>2. CASE SendEOF(go)
    BY <2>2 DEF SendEOF
  <2>3. CASE SendRetryable(go)
    BY <2>3 DEF SendRetryable
  <2>4. CASE SendPermanent(go)
    BY <2>4 DEF SendPermanent, Terminate, ClearStream
  <2> QED
    BY <1>3, <2>1, <2>2, <2>3, <2>4 DEF Send
<1>4. CASE CancelContext
  BY <1>4 DEF CancelContext
<1>5. CASE IdleStep
  <2>1. CASE OnPoll
    BY <2>1 DEF OnPoll
  <2>2. CASE OnStreamIdle
    BY <2>2 DEF OnStreamIdle, ClearStream
  <2> QED
    BY <1>5, <2>1, <2>2 DEF IdleStep
<1>6. CASE NotifyTerminated
  BY <1>6 DEF NotifyTerminated
<1>7. ASSUME NEW g \in Goroutines, Goroutine(g) PROVE NoStreamLeak' /\ TerminatedHasNoStream'
  <2>1. CASE CanReconnect(g)
    BY <2>1 DEF CanReconnect, MayReconnect, ClearStream
  <2>2. CASE CheckStatus(g)
    BY <2>2 DEF CheckStatus
  <2>3. CASE InitDone(g)
    BY <2>3 DEF InitDone
  <2>4. ASSUME NEW s \in Streams, NewStreamContext(g, s) PROVE NoStreamLeak' /\ TerminatedHasNoStream'
    BY <2>4 DEF NewStreamContext
  <2>5. ASSUME NEW err \in Errors, InitFail(g, err) PROVE NoStreamLeak' /\ TerminatedHasNoStream'
    BY <2>5 DEF InitFail
  <2>6. CASE Retry(g)
    BY <2>6 DEF Retry
  <2>7. CASE ExceededDeadline(g)
    BY <2>7 DEF ExceededDeadline
  <2>8. CASE Fail(g)
    BY <2>8 DEF Fail, Terminate, ClearStream
  <2>9. CASE Connected(g)
    BY <2>9 DEF Connected, MayInstall, DiscardStream, ClearStream
  <2>10. CASE CheckCurrent(g)
    BY <2>10 DEF CheckCurrent
  <2>11. CASE RestartIdle(g)
    BY <2>11 DEF RestartIdle, Reconnect
  <2> QED
    BY <1>7, <2>1, <2>2, <2>3, <2>4, <2>5, <2>6, <2>7, <2>8, <2>9, <2>10, <2>11
       DEF Goroutine, ConnectStep, ListenStep
<1>8. ASSUME NEW g \in Goroutines, Recv(g) PROVE NoStreamLeak' /\ TerminatedHasNoStream'
  <2>1. CASE RecvResponse(g)
    BY <2>1 DEF RecvResponse
  <2>2. ASSUME NEW err \in Errors, RecvError(g, err) PROVE NoStreamLeak' /\ TerminatedHasNoStream'
    BY <2>2 DEF RecvError
  <2> QED
    BY <1>8, <2>1, <2>2 DEF Recv
<1>9. ASSUME NEW g \in Goroutines, Notify(g) PROVE NoStreamLeak' /\ TerminatedHasNoStream'
  BY <1>9 DEF Notify, Notified, NotifyPoints
<1>10. CASE UNCHANGED streamVars
  BY <1>10 DEF streamVars
<1> QED
  BY <1>1, <1>2, <1>3, <1>4, <1>5, <1>6, <1>7, <1>8, <1>9, <1>10 DEF Next, ClientSend

LEMMA InvInit == Init => Inv
<1> SUFFICES ASSUME Init PROVE Inv
  OBVIOUS
<1> USE DEF Init, StreamInit
<1>1. Free \in GoState /\ Free.at = "free"
  BY DEF Free, GoState
<1>2. TypeOK
  BY <1>1 DEF TypeOK, StreamTypeOK, Statuses
<1>3. \A g \in Goroutines : go[g].at = "free"
  BY <1>1
<1>4. ArgsOK /\ OneReconnecting /\ ConnectingStatus
  BY <1>3 DEF ArgsOK, OneReconnecting, ConnectingStatus, Connecting, ConnectingPoints
<1>5. NeverStranded /\ NoStreamLeak /\ TerminatedHasNoStream
  BY DEF NeverStranded, NoStreamLeak, TerminatedHasNoStream, Live
<1> QED
  BY <1>2, <1>4, <1>5 DEF Inv

LEMMA InvStep == Inv /\ [Next]_streamVars => Inv'
BY TypeStep, ArgsStep, ReconnectStep, StrandedStep, LeakStep DEF Inv

\* Inv is an inductive invariant of the stream.
THEOREM InvHolds == Spec => []Inv
BY InvInit, InvStep, PTL DEF Spec

\* The fields of the stream, its goroutines and timers keep their types.
THEOREM StreamTypeCorrect == Spec => []TypeOK
<1>1. Inv => TypeOK
  BY DEF Inv
<1> QED
  BY <1>1, InvHolds, PTL

\* At most one goroutine reconnects, for any number of goroutines that send
\* errors, receive errors and idle timeouts spawn.
THEOREM AtMostOneReconnecting == Spec => []OneReconnecting
<1>1. Inv => OneReconnecting
  BY DEF Inv
<1> QED
  BY <1>1, InvHolds, PTL

\* A stream that is not terminated always has a goroutine that keeps it going.
THEOREM StreamNeverStranded == Spec => []NeverStranded
<1>1. Inv => NeverStranded
  BY DEF Inv
<1> QED
  BY <1>1, InvHolds, PTL

\* Every open gRPC stream can still be cancelled, and after termination only a
\* goroutine about to notice it has one open.
THEOREM StreamsDoNotLeak == Spec => []NoStreamLeak
<1>1. Inv => NoStreamLeak
  BY DEF Inv
<1> QED
  BY <1>1, InvHolds, PTL

\* No step leaves the terminated status, replaces its error or installs a stream.
THEOREM TerminationIsForever == Spec => TerminatedIsForever
<1> DEFINE Forever == status = "streamTerminated" => UNCHANGED <<status, finalErr, stream>>
<1>1. Inv /\ [Next]_streamVars => [Forever]_streamVars
  <2> SUFFICES ASSUME Inv, Next, status = "streamTerminated"
               PROVE  UNCHANGED <<status, finalErr, stream>>
    BY DEF streamVars
  <2>1. stream = None
    BY DEF Inv, TerminatedHasNoStream
  <2> USE <2>1 DEF muVars, Terminate, ClearStream
  <2>2. CASE ClientStart \/ ClientStop \/ ClientSend \/ CancelContext \/ IdleStep \/ NotifyTerminated
    BY <2>2 DEF ClientStart, StreamStart, ClientStop, StreamStop, ClientSend, Send, SendNoStream,
         SendOK, SendEOF, SendRetryable, SendPermanent, CancelContext, IdleStep,
         OnPoll, OnStreamIdle, NotifyTerminated
  <2>3. ASSUME NEW g \in Goroutines, Goroutine(g) \/ Recv(g) \/ Notify(g)
        PROVE  UNCHANGED <<status, finalErr, stream>>
    BY <2>3 DEF Goroutine, ConnectStep, ListenStep, CanReconnect, MayReconnect, CheckStatus,
         NewStreamContext, InitDone, InitFail, Retry, ExceededDeadline, Fail, Connected,
         MayInstall, DiscardStream, CheckCurrent, RestartIdle, Recv, RecvResponse, RecvError,
         Notify
  <2> QED
    BY <2>2, <2>3 DEF Next
<1> QED
  BY <1>1, InvHolds, PTL DEF Spec, TerminatedIsForever
=============================================================================
