--------------------------- MODULE RetryableStream ---------------------------
(***************************************************************************)
(* The retryable gRPC stream of Pub/Sub Lite                               *)
(* (pubsublite/internal/wire/streams.go, with request_timer.go and the     *)
(* retry predicates of rpc.go).                                            *)
(*                                                                         *)
(* Every critical section under retryableStream.mu is one action.  The     *)
(* callbacks into the streamHandler happen outside the mutex, so they are  *)
(* steps of their own: the module defines the control points of the        *)
(* connectStream goroutines (go[g].at) and the operator Notified(g), the   *)
(* control state once the pending callback of g has returned.  A module    *)
(* that extends this one says what the callback does.                      *)
(***************************************************************************)
EXTENDS Naturals, FiniteSets

CONSTANTS
  Goroutines,   \* identities for connectStream goroutines, reused once they end
  Streams,      \* identities for gRPC client streams, reused once unreachable
  None,         \* nil
  SendErrors,   \* which errors SendMsg may return: subset of SendErrorKinds
  IdleTimeouts  \* whether the idle timer may expire

SendErrorKinds == {"eof", "retryable", "permanent"}

ASSUME StreamAssumption ==
  /\ None \notin Streams
  /\ SendErrors \subseteq SendErrorKinds
  /\ IdleTimeouts \in BOOLEAN

VARIABLES
  status,        \* retryableStream.status
  stream,        \* retryableStream.stream: the connected stream or None
  cancelStream,  \* the stream whose context retryableStream.cancelStream cancels
  finalErr,      \* retryableStream.finalErr: the class of the error
  conn,          \* the gRPC streams themselves (external)
  go,            \* the connectStream goroutines
  idle,          \* streamIdleTimer.status
  idleCall,      \* onPoll saw the timeout and is about to call onStreamIdle
  termNotify,    \* the goroutine that notifies streamTerminated
  ctxDone        \* whether the user cancelled retryableStream.ctx

muVars == <<status, stream, cancelStream, finalErr>>
timerVars == <<idle, idleCall>>
envVars == <<termNotify, ctxDone>>
streamVars == <<muVars, conn, go, timerVars, envVars>>

Statuses == {"streamUninitialized", "streamReconnecting", "streamConnected",
             "streamTerminated"}

\* Error classes of rpc.go: retryable, retryable with the RESET detail, anything
\* else from the server, the Canceled of a cancelled context, ErrBackendUnavailable.
Errors == {"retryable", "reset", "permanent", "canceled", "unavailable"}

\* Control points of a goroutine from canReconnect() to connected(): the
\* section of which the code says "There can only be 1 goroutine reconnecting".
ConnectingPoints == {"notifyReconnecting", "notifyReset", "checkStatus",
                     "newStreamContext", "init", "initReset", "retry",
                     "initFailed", "initDone"}

ListeningPoints == {"notifyConnected", "listen", "received", "restartIdle",
                    "onResponse", "recvFailed"}

NotifyPoints == {"notifyReconnecting", "notifyReset", "initReset",
                 "notifyConnected", "onResponse"}

\* arg is the goroutine's local: the notifyReset argument, then the error or
\* response it holds; own is the stream it opened.
GoState == [at : {"free", "start"} \cup ConnectingPoints \cup ListeningPoints,
            arg : Errors \cup {"none", "response"},
            own : Streams \cup {None}]

StreamTypeOK ==
  /\ status \in Statuses
  /\ stream \in Streams \cup {None}
  /\ cancelStream \in Streams \cup {None}
  /\ finalErr \in Errors \cup {"nil"}
  /\ conn \in [Streams -> {"unused", "opening", "open", "broken", "cancelled"}]
  /\ go \in [Goroutines -> GoState]
  /\ idle \in {"timerActive", "timerStopped", "timerTriggered"}
  /\ idleCall \in BOOLEAN
  /\ termNotify \in {"none", "pending", "done"}
  /\ ctxDone \in BOOLEAN

Free == [at |-> "free", arg |-> "none", own |-> None]

\* go rs.connectStream(notifyReset)
Starting(arg) == [at |-> "start", arg |-> arg, own |-> None]

StreamInit ==
  /\ status = "streamUninitialized"
  /\ stream = None
  /\ cancelStream = None
  /\ finalErr = "nil"
  /\ conn = [s \in Streams |-> "unused"]
  /\ go = [g \in Goroutines |-> Free]
  /\ idle = "timerStopped"
  /\ idleCall = FALSE
  /\ termNotify = "none"
  /\ ctxDone = FALSE

Live(s) == conn[s] \in {"opening", "open"}

Connecting(g) == go[g].at \in ConnectingPoints

Listening(g) == go[g].at \in ListeningPoints

\* The goroutines once g is at the given point and holds arg,
Holding(g, point, arg) ==
  [go EXCEPT ![g] = [at |-> point, arg |-> arg, own |-> go[g].own]]

At(g, point) == Holding(g, point, go[g].arg)

\* and once it has returned.
Ended(g) == [go EXCEPT ![g] = Free]

\* The gRPC streams after the context of s was cancelled (external).
Cancelled(s) ==
  [t \in Streams |-> IF t = s /\ Live(t) THEN "cancelled" ELSE conn[t]]

\* unsafeClearStream
ClearStream ==
  /\ conn' = Cancelled(cancelStream)
  /\ stream' = None
  /\ cancelStream' = None

\* Mutant: the handler is not told of the termination.
TerminateSilently == UNCHANGED termNotify

\* go rs.handler.onStreamStatusChange(streamTerminated)
SpawnTerminated == termNotify' = "pending"

\* unsafeTerminate; base is the goroutines' state in the caller's next step
Terminate(base, err) ==
  /\ go' = base
  /\ IF status = "streamTerminated"
     THEN UNCHANGED <<muVars, idle, termNotify, conn>>
     ELSE /\ status' = "streamTerminated"
          /\ finalErr' = err
          /\ idle' = "timerStopped"
          /\ SpawnTerminated
          /\ ClearStream
  /\ UNCHANGED <<idleCall, ctxDone>>

StreamStop(base) == Terminate(base, "nil")

\* Start spawns a connectStream goroutine; a no-op once the stream has started.
StreamStart(base) ==
  /\ IF status = "streamUninitialized"
     THEN \E h \in Goroutines :
            base[h] = Free /\ go' = [base EXCEPT ![h] = Starting("none")]
     ELSE go' = base
  /\ UNCHANGED <<muVars, timerVars, envVars, conn>>

\* A stream on which SendMsg failed is aborted (external).
Aborted(s) == [conn EXCEPT ![s] = IF @ = "open" THEN "broken" ELSE @]

\* Send, which returns sent.  A request can be accepted by a stream that the
\* server has already abandoned; then it is lost.  io.EOF leaves the error to
\* RecvMsg; a retryable error spawns a reconnection and keeps rs.stream.
SendNoStream(base) ==
  /\ stream = None
  /\ go' = base
  /\ UNCHANGED <<muVars, timerVars, envVars, conn>>

SendOK(base) ==
  /\ stream # None
  /\ conn[stream] # "cancelled"
  /\ go' = base
  /\ UNCHANGED <<muVars, timerVars, envVars, conn>>

SendEOF(base) ==
  /\ stream # None
  /\ "eof" \in SendErrors \/ conn[stream] # "open"
  /\ go' = base
  /\ conn' = Aborted(stream)
  /\ UNCHANGED <<muVars, timerVars, envVars>>

SendRetryable(base) ==
  /\ stream # None
  /\ "retryable" \in SendErrors
  /\ \E h \in Goroutines :
       base[h] = Free /\ go' = [base EXCEPT ![h] = Starting("none")]
  /\ conn' = Aborted(stream)
  /\ UNCHANGED <<muVars, timerVars, envVars>>

SendPermanent(base) ==
  /\ stream # None
  /\ "permanent" \in SendErrors
  /\ Terminate(base, "permanent")

Send(base, sent) ==
  IF sent THEN SendOK(base)
  ELSE SendNoStream(base) \/ SendEOF(base) \/ SendRetryable(base) \/ SendPermanent(base)

\* Mutant: the goroutine does not look whether another one is reconnecting.
MayReconnectTwice == status # "streamTerminated"

MayReconnect == status \notin {"streamReconnecting", "streamTerminated"}

\* The first critical section of connectStream.
CanReconnect(g) ==
  /\ go[g].at = "start"
  /\ IF ~MayReconnect
     THEN /\ go' = Ended(g)
          /\ UNCHANGED <<status, stream, cancelStream, conn, idle>>
     ELSE /\ status' = "streamReconnecting"
          /\ ClearStream
          /\ idle' = "timerStopped"
          /\ go' = At(g, "notifyReconnecting")
  /\ UNCHANGED <<envVars, finalErr, idleCall>>

\* Where g continues once the streamHandler callback it is in returns.
Notified(g) ==
  At(g, CASE go[g].at = "notifyReconnecting" ->
               IF go[g].arg = "reset" THEN "notifyReset" ELSE "checkStatus"
          [] go[g].at = "notifyReset" -> "checkStatus"
          [] go[g].at = "initReset" -> "retry"
          [] OTHER -> "listen")

\* "Check whether handler terminated stream before reconnecting."
CheckStatus(g) ==
  /\ go[g].at = "checkStatus"
  /\ go' = IF status = "streamTerminated" THEN Ended(g)
           ELSE At(g, "newStreamContext")
  /\ UNCHANGED <<muVars, timerVars, envVars, conn>>

\* No variable refers to s any more, so that its identity can be reused.
Unreferenced(s) ==
  /\ ~Live(s)
  /\ s # stream /\ s # cancelStream
  /\ \A g \in Goroutines : go[g].own # s

NewStreamContext(g, s) ==
  /\ go[g].at = "newStreamContext"
  /\ Unreferenced(s)
  /\ conn' = [Cancelled(cancelStream) EXCEPT
                ![s] = IF ctxDone THEN "cancelled" ELSE "opening"]
  /\ stream' = None
  /\ cancelStream' = s
  /\ go' = [go EXCEPT ![g] = [at |-> "init", arg |-> "none", own |-> s]]
  /\ UNCHANGED <<timerVars, envVars, status, finalErr>>

\* newStream, the initial request and response and their validation.  A
\* timeout of the attempt is the retryable errStreamInitTimeout.
InitDone(g) ==
  /\ go[g].at = "init"
  /\ conn[go[g].own] = "opening"
  /\ conn' = [conn EXCEPT ![go[g].own] = "open"]
  /\ go' = At(g, "initDone")
  /\ UNCHANGED <<muVars, timerVars, envVars>>

\* A failed attempt cancels its context, after the callback of a RESET if there is
\* one.  On a context that was cancelled elsewhere newStream and RecvMsg return
\* Canceled and SendMsg returns io.EOF.
InitFail(g, err) ==
  /\ go[g].at = "init"
  /\ err \in IF conn[go[g].own] = "opening" THEN {"retryable", "reset", "permanent"}
             ELSE {"retryable", "canceled"}
  /\ conn' = IF err = "reset" THEN conn ELSE Cancelled(go[g].own)
  /\ go' = Holding(g, CASE err = "retryable" -> "retry"
                         [] err = "reset" -> "initReset"
                         [] OTHER -> "initFailed", err)
  /\ UNCHANGED <<muVars, timerVars, envVars>>

\* The rest of the loop of initNewStream after a retryable error.  gax.Sleep
\* fails once the user's context is done.
Retry(g) ==
  /\ go[g].at = "retry"
  /\ conn' = Cancelled(go[g].own)
  /\ go' = CASE status = "streamTerminated" -> At(g, "initFailed")
             [] ctxDone -> Holding(g, "initFailed", "canceled")
             [] OTHER -> At(g, "newStreamContext")
  /\ UNCHANGED <<muVars, timerVars, envVars>>

\* Mutant: the deadline does not end the loop.
DeadlineIgnored(g) ==
  /\ go[g].at = "retry"
  /\ status # "streamTerminated"
  /\ conn' = Cancelled(go[g].own)
  /\ go' = At(g, "newStreamContext")
  /\ UNCHANGED <<muVars, timerVars, envVars>>

ExceededDeadline(g) ==
  /\ go[g].at = "retry"
  /\ status # "streamTerminated"
  /\ conn' = Cancelled(go[g].own)
  /\ go' = Holding(g, "initFailed", "unavailable")
  /\ UNCHANGED <<muVars, timerVars, envVars>>

\* Mutant: the stream terminates with an error that was never set.
FailWithoutError(g) ==
  /\ go[g].at \in {"initFailed", "recvFailed"}
  /\ Terminate(Ended(g), "none")

\* rs.terminate(err), of a failed initNewStream or of listen
Fail(g) ==
  /\ go[g].at \in {"initFailed", "recvFailed"}
  /\ Terminate(Ended(g), go[g].arg)

\* Mutant: a termination during the initialization goes unnoticed.
MayInstallAlways == TRUE

MayInstall == status # "streamTerminated"

\* Mutant: the context of the new stream is not cancelled.
DiscardLeaks == UNCHANGED <<stream, cancelStream, conn>>

DiscardStream == ClearStream

\* The critical section of connectStream that installs the new stream.
Connected(g) ==
  /\ go[g].at = "initDone"
  /\ IF ~MayInstall
     THEN /\ DiscardStream
          /\ go' = Ended(g)
          /\ UNCHANGED <<status, idle>>
     ELSE /\ status' = "streamConnected"
          /\ stream' = go[g].own
          /\ idle' = "timerActive"
          /\ go' = At(g, "notifyConnected")
          /\ UNCHANGED <<cancelStream, conn>>
  /\ UNCHANGED <<envVars, finalErr, idleCall>>

\* RecvMsg returns a response or an error.  A stream that was aborted without
\* being cancelled still yields the responses that had arrived.
RecvResponse(g) ==
  /\ go[g].at = "listen"
  /\ conn[go[g].own] \in {"open", "broken"}
  /\ go' = Holding(g, "received", "response")
  /\ UNCHANGED <<muVars, timerVars, envVars, conn>>

RecvError(g, err) ==
  /\ go[g].at = "listen"
  /\ err \in IF conn[go[g].own] = "cancelled" THEN {"canceled"}
             ELSE {"retryable", "reset", "permanent"}
  /\ conn' = Aborted(go[g].own)
  /\ go' = Holding(g, "received", err)
  /\ UNCHANGED <<muVars, timerVars, envVars>>

\* "any errors or messages received now are obsolete. Discard and end"
CheckCurrent(g) ==
  /\ go[g].at = "received"
  /\ go' = IF stream # go[g].own THEN Ended(g) ELSE At(g, "restartIdle")
  /\ UNCHANGED <<muVars, timerVars, envVars, conn>>

\* Mutant: nobody reconnects after a retryable error.
ReconnectNever(g) == Ended(g)

\* After a retryable error g ends and a new connectStream goroutine starts.
Reconnect(g) == [go EXCEPT ![g] = Starting(IF go[g].arg = "reset" THEN "reset" ELSE "none")]

\* idleTimer.Restart, then listen's dispatch on the error
RestartIdle(g) ==
  /\ go[g].at = "restartIdle"
  /\ idle' = "timerActive"
  /\ go' = CASE go[g].arg = "response" -> At(g, "onResponse")
             [] go[g].arg \in {"retryable", "reset"} -> Reconnect(g)
             [] OTHER -> At(g, "recvFailed")
  /\ UNCHANGED <<muVars, envVars, conn, idleCall>>

\* streamIdleTimer.onPoll: the timeout is noted under the timer's mutex and
\* onStreamIdle called after it is released.
OnPoll ==
  /\ IdleTimeouts
  /\ status # "streamTerminated"
  /\ idle = "timerActive"
  /\ ~idleCall
  /\ idle' = "timerTriggered"
  /\ idleCall' = TRUE
  /\ UNCHANGED <<muVars, envVars, conn, go>>

OnStreamIdle ==
  /\ idleCall
  /\ idleCall' = FALSE
  /\ ClearStream
  /\ \E h \in Goroutines :
       go[h] = Free /\ go' = [go EXCEPT ![h] = Starting("none")]
  /\ UNCHANGED <<envVars, status, finalErr, idle>>

\* The user cancels the context that every stream derives from (external).
CancelContext ==
  /\ ~ctxDone
  /\ ctxDone' = TRUE
  /\ conn' = [s \in Streams |-> IF Live(s) THEN "cancelled" ELSE conn[s]]
  /\ UNCHANGED <<muVars, timerVars, go, termNotify>>

\* The steps of goroutine g that involve no handler.
ConnectStep(g) ==
  \/ CanReconnect(g)
  \/ CheckStatus(g)
  \/ \E s \in Streams : NewStreamContext(g, s)
  \/ InitDone(g)
  \/ \E err \in Errors : InitFail(g, err)
  \/ Retry(g)
  \/ ExceededDeadline(g)
  \/ Fail(g)
  \/ Connected(g)

ListenStep(g) ==
  \/ CheckCurrent(g)
  \/ RestartIdle(g)

IdleStep == OnPoll \/ OnStreamIdle

=============================================================================
