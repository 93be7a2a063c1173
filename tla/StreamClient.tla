----------------------------- MODULE StreamClient -----------------------------
(***************************************************************************)
(* A retryable stream with the most general client: any goroutine may call *)
(* Send and Stop at any time, the user may cancel the context, and the     *)
(* streamHandler takes any time to return.  What is shown of this system   *)
(* holds for the stream of every service of the package (publisher,        *)
(* committer, subscribe stream, assigner), as far as it calls the stream   *)
(* from a goroutine of its own.                                            *)
(***************************************************************************)
EXTENDS RetryableStream

TypeOK == StreamTypeOK

Init == StreamInit

\* handler.onStreamStatusChange or handler.onResponse, called by goroutine g
Notify(g) ==
  /\ go[g].at \in NotifyPoints
  /\ go' = Notified(g)
  /\ UNCHANGED <<muVars, conn, timerVars, envVars>>

\* go rs.handler.onStreamStatusChange(streamTerminated)
NotifyTerminated ==
  /\ termNotify = "pending"
  /\ termNotify' = "done"
  /\ UNCHANGED <<muVars, conn, go, timerVars, ctxDone>>

\* Every service calls Start once, guarded by its own service status.
ClientStart ==
  /\ status = "streamUninitialized"
  /\ \A g \in Goroutines : go[g] = Free
  /\ StreamStart(go)

ClientStop == StreamStop(go)

ClientSend == \E sent \in BOOLEAN : Send(go, sent)

Goroutine(g) == ConnectStep(g) \/ ListenStep(g)

Recv(g) == RecvResponse(g) \/ \E err \in Errors : RecvError(g, err)

Next ==
  \/ ClientStart \/ ClientStop \/ ClientSend \/ CancelContext \/ IdleStep \/ NotifyTerminated
  \/ \E g \in Goroutines : Goroutine(g) \/ Recv(g) \/ Notify(g)

Spec == Init /\ [][Next]_streamVars

-----------------------------------------------------------------------------
(* Safety *)

\* "There can only be 1 goroutine reconnecting": two goroutines are never both
\* between canReconnect and connected, whatever mix of send errors, receive
\* errors and idle timeouts spawned them.
OneReconnecting ==
  \A g, h \in Goroutines : Connecting(g) /\ Connecting(h) => g = h

\* The stream is never abandoned: while it is reconnecting some goroutine is
\* doing so, and while it is connected either its current stream has a listener
\* or a goroutine is about to reconnect.  If this failed the stream would hang
\* for ever without an error.
NeverStranded ==
  /\ status = "streamReconnecting" => \E g \in Goroutines : Connecting(g)
  /\ status = "streamConnected" =>
       \/ \E g \in Goroutines : go[g].at = "start"
       \/ /\ stream # None
          /\ \E g \in Goroutines : Listening(g) /\ go[g].own = stream

\* "Ensure that streams aren't leaked": the context of every open stream can
\* still be cancelled through rs.cancelStream, and after termination only a
\* goroutine that has yet to notice the termination keeps one open.
NoStreamLeak ==
  \A s \in Streams : Live(s) =>
    /\ cancelStream = s
    /\ status = "streamTerminated" =>
         \E g \in Goroutines :
           go[g].own = s /\ go[g].at \in {"init", "initReset", "retry", "initDone"}

\* A terminated stream stays so, keeps the error of its first termination and
\* is never given a stream again, although terminate may run at any point of a
\* reconnection in progress.
TerminatedIsForever ==
  [][status = "streamTerminated" => UNCHANGED <<status, finalErr, stream>>]_streamVars

\* A stream is terminated by a permanent error, by the connect deadline, by
\* Stop or by the user's context, and not by the stream cancelling itself.
TerminationHasCause ==
  status = "streamTerminated" /\ finalErr = "canceled" => ctxDone

-----------------------------------------------------------------------------
(* Liveness.  Goroutines run; RecvMsg returns once its stream is broken or   *)
(* cancelled; the initialization timer ends every attempt, and the connect   *)
(* deadline ends a loop of failing attempts.                                 *)

RecvAborted(g) ==
  /\ go[g].at = "listen"
  /\ conn[go[g].own] # "open"
  /\ \E err \in Errors : RecvError(g, err)

Fairness ==
  /\ WF_streamVars(NotifyTerminated)
  /\ WF_streamVars(OnStreamIdle)
  /\ \A g \in Goroutines :
       /\ WF_streamVars(Goroutine(g))
       /\ WF_streamVars(Notify(g))
       /\ WF_streamVars(RecvAborted(g))
       /\ SF_streamVars(ExceededDeadline(g))

FairSpec == Spec /\ Fairness

\* A reconnection ends: the stream gets connected or is terminated.
ReconnectResolves ==
  status = "streamReconnecting" ~> status \in {"streamConnected", "streamTerminated"}

\* After termination every goroutine ends, every gRPC stream is closed and the
\* handler has been told.
TerminationCleansUp ==
  status = "streamTerminated" ~>
    /\ termNotify = "done"
    /\ \A g \in Goroutines : go[g] = Free
    /\ \A s \in Streams : ~Live(s)
=============================================================================
