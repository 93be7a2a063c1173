----------------------------- MODULE ServedStream -----------------------------
(***************************************************************************)
(* A retryable stream with the requests and responses in flight on each    *)
(* gRPC stream.  A service that owns a stream extends this module, adds    *)
(* its streamHandler and models the server at the other end.               *)
(***************************************************************************)
EXTENDS RetryableStream, Sequences

CONSTANT MaxFaults   \* bound on the connected streams that break

ASSUME FaultsAssumption == MaxFaults \in Nat

VARIABLES
  toServer,    \* requests in flight on each stream (external)
  fromServer,  \* responses in flight on each stream (external)
  faults       \* how many connected streams broke

wireVars == <<toServer, fromServer, faults>>

WireInit ==
  /\ toServer = [s \in Streams |-> <<>>]
  /\ fromServer = [s \in Streams |-> <<>>]
  /\ faults = 0

\* A connected stream that is lost before termination is a fault, of which a
\* behaviour has at most MaxFaults.
CountFaults ==
  /\ faults' = IF status' = "streamTerminated" THEN faults
               ELSE faults + Cardinality({s \in Streams : conn[s] = "open" /\ conn'[s] # "open"})
  /\ faults' <= MaxFaults

\* The stream does nothing but let its goroutines go on as base says.
KeepStream(base) == go' = base /\ UNCHANGED <<muVars, conn, timerVars, envVars>>

\* stream.Send(request): a request on a stream that is no longer open is lost.
SendRequest(base, request, sent) ==
  /\ Send(base, sent)
  /\ toServer' = IF sent /\ conn[stream] = "open"
                 THEN [toServer EXCEPT ![stream] = Append(@, request)] ELSE toServer
  /\ CountFaults
  /\ UNCHANGED fromServer

\* The response that goroutine g holds is the first one of its stream, and is
\* consumed when it calls onResponse.
Response(g) == Head(fromServer[go[g].own])

TakeResponse(g) ==
  /\ go[g].at = "onResponse"
  /\ fromServer[go[g].own] # <<>>
  /\ fromServer' = [fromServer EXCEPT ![go[g].own] = Tail(@)]
  /\ UNCHANGED <<toServer, faults>>

\* The steps of the stream that involve neither the handler nor a new stream,
SilentStep(g) ==
  /\ \/ CanReconnect(g) \/ CheckStatus(g) \/ InitDone(g) \/ Retry(g)
     \/ ExceededDeadline(g) \/ Fail(g) \/ Connected(g) \/ ListenStep(g)
     \/ \E err \in Errors : InitFail(g, err) \/ RecvError(g, err)
     \/ go[g].at = "listen" /\ fromServer[go[g].own] # <<>> /\ RecvResponse(g)
  /\ CountFaults

\* with the messages in flight left alone.
StreamStep(g) == SilentStep(g) /\ UNCHANGED <<toServer, fromServer>>

OpenStream(g, s) ==
  /\ NewStreamContext(g, s)
  /\ toServer' = [toServer EXCEPT ![s] = <<>>]
  /\ fromServer' = [fromServer EXCEPT ![s] = <<>>]
  /\ UNCHANGED faults

IdleTimer ==
  /\ IdleStep
  /\ CountFaults
  /\ UNCHANGED <<toServer, fromServer>>

\* The stream's own steps that the scheduler must eventually take: goroutines
\* run, RecvMsg returns on a stream that is no longer open or that has a
\* response, and the connect deadline ends a loop of failing attempts.
RunStream(g) ==
  \/ go[g].at # "listen" /\ StreamStep(g)
  \/ \E s \in Streams : OpenStream(g, s)

RecvAborted(g) ==
  /\ go[g].at = "listen"
  /\ conn[go[g].own] # "open"
  /\ StreamStep(g)

RecvPending(g) == go[g].at = "listen" /\ RecvResponse(g) /\ StreamStep(g)

Deadline(g) == ExceededDeadline(g) /\ StreamStep(g)
=============================================================================
