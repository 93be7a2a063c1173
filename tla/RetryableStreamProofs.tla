------------------------ MODULE RetryableStreamProofs ------------------------
(***************************************************************************)
(* Lemmas about the operators of RetryableStream, for the proofs about the *)
(* modules that extend it.                                                 *)
(***************************************************************************)
EXTENDS RetryableStream, TLAPS

Points == {"free", "start"} \cup ConnectingPoints \cup ListeningPoints

Args == Errors \cup {"none", "response"}

LEMMA HoldingType ==
  ASSUME go \in [Goroutines -> GoState], NEW g \in Goroutines,
         NEW point \in Points, NEW arg \in Args
  PROVE  Holding(g, point, arg) \in [Goroutines -> GoState]
BY DEF Holding, GoState, Points, Args

LEMMA AtType ==
  ASSUME go \in [Goroutines -> GoState], NEW g \in Goroutines, NEW point \in Points
  PROVE  At(g, point) \in [Goroutines -> GoState]
<1>1. go[g].arg \in Args
  BY DEF GoState, Args
<1> QED
  BY <1>1, HoldingType DEF At

LEMMA EndedType ==
  ASSUME go \in [Goroutines -> GoState], NEW g \in Goroutines
  PROVE  Ended(g) \in [Goroutines -> GoState]
BY DEF Ended, Free, GoState

LEMMA StartingType == \A arg \in {"none", "reset"} : Starting(arg) \in GoState
BY DEF Starting, GoState, Errors

LEMMA NotifiedType ==
  ASSUME go \in [Goroutines -> GoState], NEW g \in Goroutines
  PROVE  Notified(g) \in [Goroutines -> GoState]
<1>1. {"notifyReset", "checkStatus", "retry", "listen"} \subseteq Points
  BY DEF Points, ConnectingPoints, ListeningPoints
<1> QED
  BY <1>1, AtType DEF Notified

-----------------------------------------------------------------------------
(* What a service relies on: the types, and that a goroutine has opened the  *)
(* stream on which it receives.                                              *)

OwningPoints == {"init", "initDone"} \cup ListeningPoints

OwnerState == {x \in GoState : x.at \in OwningPoints => x.own \in Streams}

Owners == [Goroutines -> OwnerState]

StreamShape == go \in Owners /\ stream \in Streams \cup {None}

LEMMA HoldingOwner ==
  ASSUME go \in Owners, NEW g \in Goroutines, NEW point \in Points, NEW arg \in Args,
         point \in OwningPoints => go[g].at \in OwningPoints
  PROVE  Holding(g, point, arg) \in Owners
<1>1. [at |-> point, arg |-> arg, own |-> go[g].own] \in OwnerState
  BY DEF OwnerState, Owners, GoState, Points, Args
<1> QED
  BY <1>1 DEF Holding, Owners

LEMMA AtOwner ==
  ASSUME go \in Owners, NEW g \in Goroutines, NEW point \in Points,
         point \in OwningPoints => go[g].at \in OwningPoints
  PROVE  At(g, point) \in Owners
<1>1. go[g].arg \in Args
  BY DEF Owners, OwnerState, GoState, Args
<1> QED
  BY <1>1, HoldingOwner DEF At

LEMMA EndedOwner ==
  ASSUME go \in Owners, NEW g \in Goroutines
  PROVE  Ended(g) \in Owners
<1>1. Free \in OwnerState
  BY DEF Free, OwnerState, GoState, OwningPoints, ListeningPoints
<1> QED
  BY <1>1 DEF Ended, Owners

LEMMA StartingOwner ==
  ASSUME NEW base \in Owners, NEW h \in Goroutines, NEW arg \in {"none", "reset"}
  PROVE  [base EXCEPT ![h] = Starting(arg)] \in Owners
<1>1. Starting(arg) \in OwnerState
  BY DEF Starting, OwnerState, GoState, OwningPoints, ListeningPoints, Errors
<1> QED
  BY <1>1 DEF Owners

LEMMA NotifiedOwner ==
  ASSUME go \in Owners, NEW g \in Goroutines, go[g].at \in NotifyPoints
  PROVE  Notified(g) \in Owners
<1>1. /\ {"notifyReset", "checkStatus", "retry", "listen"} \subseteq Points
      /\ "notifyReset" \notin OwningPoints /\ "checkStatus" \notin OwningPoints
      /\ "retry" \notin OwningPoints
  BY DEF Points, ConnectingPoints, ListeningPoints, OwningPoints
<1>2. CASE go[g].at \in {"notifyReconnecting", "notifyReset", "initReset"}
  BY <1>1, <1>2, AtOwner DEF Notified
<1>3. CASE go[g].at \in {"notifyConnected", "onResponse"}
  <2>1. go[g].at \in OwningPoints
    BY <1>3 DEF OwningPoints, ListeningPoints
  <2> QED
    BY <1>1, <1>3, <2>1, AtOwner DEF Notified
<1> QED
  BY <1>2, <1>3 DEF NotifyPoints

LEMMA InitShape == StreamInit => StreamShape
BY DEF StreamInit, StreamShape, Owners, OwnerState, GoState, Free, OwningPoints,
       ListeningPoints

LEMMA KeepShape ==
  ASSUME StreamShape, NEW base \in Owners, go' = base, stream' = stream
  PROVE  StreamShape'
BY DEF StreamShape

LEMMA StopShape ==
  ASSUME StreamShape, NEW base \in Owners, StreamStop(base)
  PROVE  StreamShape'
BY DEF StreamShape, StreamStop, Terminate, ClearStream, muVars

LEMMA StartShape == StreamShape /\ StreamStart(go) => StreamShape'
BY StartingOwner DEF StreamShape, StreamStart, muVars

LEMMA SendShape ==
  ASSUME StreamShape, NEW base \in Owners, NEW sent, Send(base, sent)
  PROVE  StreamShape'
BY StartingOwner
   DEF StreamShape, Send, SendNoStream, SendOK, SendEOF, SendRetryable, SendPermanent,
       Terminate, ClearStream, muVars

LEMMA IdleShape == StreamShape /\ IdleStep => StreamShape'
BY StartingOwner DEF StreamShape, IdleStep, OnPoll, OnStreamIdle, ClearStream, muVars

LEMMA StepShape ==
  ASSUME StreamShape, NEW g \in Goroutines,
         \/ ConnectStep(g) \/ ListenStep(g) \/ RecvResponse(g)
         \/ \E err \in Errors : RecvError(g, err)
  PROVE  StreamShape'
<1> USE DEF StreamShape
<1>A. {"none", "reset", "response", "canceled", "unavailable"} \subseteq Args /\ Errors \subseteq Args
  BY DEF Args, Errors
<1>P. {"free", "start", "notifyReconnecting", "notifyReset", "checkStatus",
       "newStreamContext", "init", "initReset", "retry", "initFailed", "initDone",
       "notifyConnected", "listen", "received", "restartIdle", "onResponse",
       "recvFailed"} = Points
  BY DEF Points, ConnectingPoints, ListeningPoints
<1>O. {"init", "initDone", "notifyConnected", "listen", "received", "restartIdle",
       "onResponse", "recvFailed"} = OwningPoints
  BY DEF OwningPoints, ListeningPoints
<1>N. /\ At(g, "notifyReconnecting") \in Owners
      /\ At(g, "newStreamContext") \in Owners
      /\ At(g, "initFailed") \in Owners
      /\ Ended(g) \in Owners
      /\ \A err \in Args : /\ Holding(g, "retry", err) \in Owners
                           /\ Holding(g, "initReset", err) \in Owners
                           /\ Holding(g, "initFailed", err) \in Owners
  <2>1. At(g, "notifyReconnecting") \in Owners
    BY <1>P, <1>O, AtOwner
  <2>2. At(g, "newStreamContext") \in Owners
    BY <1>P, <1>O, AtOwner
  <2>3. At(g, "initFailed") \in Owners
    BY <1>P, <1>O, AtOwner
  <2>4. ASSUME NEW err \in Args
        PROVE  /\ Holding(g, "retry", err) \in Owners
               /\ Holding(g, "initReset", err) \in Owners
               /\ Holding(g, "initFailed", err) \in Owners
    BY <1>P, <1>O, HoldingOwner
  <2> QED
    BY <2>1, <2>2, <2>3, <2>4, EndedOwner
<1>M. ASSUME go[g].at \in OwningPoints, NEW point \in OwningPoints
      PROVE  At(g, point) \in Owners /\ \A arg \in Args : Holding(g, point, arg) \in Owners
  BY <1>M, <1>P, <1>O, AtOwner, HoldingOwner
<1>1. CASE CanReconnect(g)
  BY <1>1, <1>N DEF CanReconnect, ClearStream
<1>2. CASE CheckStatus(g)
  BY <1>2, <1>N DEF CheckStatus, muVars
<1>3. CASE InitDone(g)
  <2>1. At(g, "initDone") \in Owners
    BY <1>3, <1>O, <1>M DEF InitDone
  <2> QED
    BY <1>3, <2>1 DEF InitDone, muVars
<1>4. ASSUME NEW s \in Streams, NewStreamContext(g, s) PROVE StreamShape'
  <2>1. [at |-> "init", arg |-> "none", own |-> s] \in OwnerState
    BY DEF OwnerState, GoState, ConnectingPoints
  <2> QED
    BY <1>4, <2>1 DEF NewStreamContext, Owners
<1>5. ASSUME NEW err \in Errors, InitFail(g, err) PROVE StreamShape'
  BY <1>5, <1>A, <1>N DEF InitFail, muVars
<1>6. ASSUME NEW err \in Errors, RecvError(g, err) PROVE StreamShape'
  <2>1. Holding(g, "received", err) \in Owners
    BY <1>6, <1>A, <1>O, <1>M DEF RecvError
  <2> QED
    BY <1>6, <2>1 DEF RecvError, muVars
<1>7. CASE RecvResponse(g)
  <2>1. Holding(g, "received", "response") \in Owners
    BY <1>7, <1>A, <1>O, <1>M DEF RecvResponse
  <2> QED
    BY <1>7, <2>1 DEF RecvResponse, muVars
<1>8. CASE Retry(g)
  BY <1>8, <1>A, <1>N DEF Retry, muVars
<1>9. CASE ExceededDeadline(g)
  BY <1>9, <1>A, <1>N DEF ExceededDeadline, muVars
<1>10. CASE Fail(g)
  BY <1>10, <1>N DEF Fail, Terminate, ClearStream, muVars
<1>11. CASE Connected(g)
  <2>1. go[g].own \in Streams \cup {None}
    BY DEF Owners, OwnerState, GoState
  <2>2. At(g, "notifyConnected") \in Owners
    BY <1>11, <1>O, <1>M DEF Connected
  <2> QED
    BY <1>11, <1>N, <2>1, <2>2 DEF Connected, DiscardStream, ClearStream
<1>12. CASE CheckCurrent(g)
  <2>1. At(g, "restartIdle") \in Owners
    BY <1>12, <1>O, <1>M DEF CheckCurrent
  <2> QED
    BY <1>12, <1>N, <2>1 DEF CheckCurrent, muVars
<1>13. CASE RestartIdle(g)
  <2>1. At(g, "onResponse") \in Owners
    BY <1>13, <1>O, <1>M DEF RestartIdle
  <2>2. At(g, "recvFailed") \in Owners
    BY <1>13, <1>O, <1>M DEF RestartIdle
  <2>3. Reconnect(g) \in Owners
    BY StartingOwner DEF Reconnect
  <2> QED
    BY <1>13, <2>1, <2>2, <2>3 DEF RestartIdle, muVars
<1> QED
  BY <1>1, <1>2, <1>3, <1>4, <1>5, <1>6, <1>7, <1>8, <1>9, <1>10, <1>11, <1>12, <1>13
     DEF ConnectStep, ListenStep
=============================================================================
