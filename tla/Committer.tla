------------------------------ MODULE Committer ------------------------------
(***************************************************************************)
(* The committer of a subscriber (pubsublite/internal/wire/committer.go)   *)
(* with its trackers (AckTracker) and its commit stream, the messages that *)
(* the subscriber delivers to the user and the server's commit cursor.     *)
(*                                                                         *)
(* One action is one critical section of committer.mu.  The acks and the   *)
(* ack tracker have mutexes of their own, so the user's acks interleave    *)
(* with everything else.                                                   *)
(***************************************************************************)
EXTENDS ServedStream, Service, AckTracker

CONSTANTS
  MaxOffset,  \* bound on the offsets of messages
  MaxResets   \* bound on the seeks of the subscription

ASSUME CommitterAssumption == MaxOffset \in Nat /\ MaxResets \in Nat

VARIABLES
  svc,            \* abstractService.status
  enableCommits,  \* committer.enableCommits
  polling,        \* whether the periodic task pollCommits runs
  resetting,      \* the BlockingReset call: none, waiting on flushPending, woken
  delivered,      \* offset of the last message delivered since the last reset
  unacked,        \* messages delivered since the last reset and not yet acked
  cursor,         \* the last commit that the server applied since then (external)
  resets          \* how many resets were begun

committerVars == <<svc, enableCommits, polling, resetting>>
userVars == <<delivered, unacked>>
ownVars == <<trackerVars, committerVars, userVars, cursor, resets>>
vars == <<streamVars, wireVars, ownVars>>

Offsets == 0..MaxOffset

TypeOK ==
  /\ StreamTypeOK
  /\ TrackerTypeOK
  /\ svc \in ServiceStatuses
  /\ enableCommits \in BOOLEAN
  /\ polling \in BOOLEAN
  /\ resetting \in {"none", "waiting", "woken"}
  /\ delivered \in Cursors
  /\ unacked \in SUBSET Nat
  /\ cursor \in Cursors
  /\ resets \in Nat
  /\ toServer \in [Streams -> Seq(Nat)]
  /\ fromServer \in [Streams -> Seq(Nat)]
  /\ faults \in Nat

Init ==
  /\ StreamInit
  /\ WireInit
  /\ TrackerInit
  /\ svc = serviceUninitialized
  /\ enableCommits = FALSE
  /\ polling = FALSE
  /\ resetting = "none"
  /\ delivered = nilCursorOffset
  /\ unacked = {}
  /\ cursor = nilCursorOffset
  /\ resets = 0

-----------------------------------------------------------------------------
(* The steps the handlers share.  They read the acks as processed by the     *)
(* caller (ackedPrefix', outstanding').                                      *)

\* unsafeProcessAcks, which every reading of the desired commit begins with
ProcessAcks ==
  /\ \E n \in 0..Len(outstanding) :
       AckedRun(n) /\ ackedPrefix' = PrefixAfter(n) /\ outstanding' = Remaining(n)
  /\ UNCHANGED enablePush

Desired(offsets) == NextOffset(ackedPrefix', offsets)

\* Mutant: a commit is sent although there is none to make.
CommitNilToStream(base, offsets) ==
  \E sent \in BOOLEAN :
    /\ SendRequest(base, Desired(offsets), sent)
    /\ pending' = IF sent THEN Append(offsets, Desired(offsets)) ELSE offsets

\* unsafeCommitOffsetToStream, once commits are enabled; offsets are pending
CommitOffsetToStream(base, offsets) ==
  IF Desired(offsets) = nilCursorOffset
  THEN KeepStream(base) /\ pending' = offsets /\ UNCHANGED wireVars
  ELSE \E sent \in BOOLEAN :
         /\ SendRequest(base, Desired(offsets), sent)
         /\ pending' = IF sent THEN Append(offsets, Desired(offsets)) ELSE offsets

\* flushPending.Broadcast
Broadcast == IF resetting = "waiting" THEN "woken" ELSE resetting

\* Mutant: the stream is closed before the last commit is confirmed.
CheckDoneEarly(base, st, confirmed) ==
  IF outstanding' = <<>> /\ st = serviceTerminating
  THEN polling' = FALSE /\ StreamStop(base)
  ELSE UNCHANGED polling /\ KeepStream(base)

\* Mutant: a committer that has nothing to commit is never done.
CheckDoneNotNil(base, st, confirmed) ==
  IF /\ UpToDate(ackedPrefix', outstanding', confirmed)
     /\ confirmed # nilCursorOffset
     /\ st = serviceTerminating
  THEN polling' = FALSE /\ StreamStop(base)
  ELSE UNCHANGED polling /\ KeepStream(base)

\* unsafeCheckDone, given the service status and the confirmed offset
CheckDone(base, st, confirmed) ==
  IF UpToDate(ackedPrefix', outstanding', confirmed) /\ st = serviceTerminating
  THEN polling' = FALSE /\ StreamStop(base)
  ELSE UNCHANGED polling /\ KeepStream(base)

\* Mutant: the caller of BlockingReset is not woken when the flush is confirmed.
WakeNever(confirmed) == resetting

WakeIfDone(confirmed) ==
  IF UpToDate(ackedPrefix', outstanding', confirmed) THEN Broadcast ELSE resetting

\* unsafeInitiateShutdown(serviceTerminating, nil).  A commit that it sends is
\* not confirmed, so that the unsafeCheckDone after it does nothing.
InitiateStop ==
  /\ svc' = UpdateStatus(svc, serviceTerminating)
  /\ resetting' = IF CanUpdateStatus(svc, serviceTerminating) THEN Broadcast
                  ELSE WakeIfDone(lastConfirmed)
  /\ IF /\ CanUpdateStatus(svc, serviceTerminating)
        /\ enableCommits
        /\ Desired(pending) # nilCursorOffset
     THEN CommitOffsetToStream(go, pending) /\ UNCHANGED polling
     ELSE CheckDone(go, svc', lastConfirmed) /\ UNCHANGED <<wireVars, pending>>
  /\ UNCHANGED <<enableCommits, lastConfirmed>>

\* unsafeInitiateShutdown(serviceTerminated, err), except that the caller stops
\* the stream if the update of the status was not refused
InitiateTermination ==
  /\ svc' = UpdateStatus(svc, serviceTerminated)
  /\ IF CanUpdateStatus(svc, serviceTerminated)
     THEN Release /\ resetting' = Broadcast /\ polling' = FALSE
     ELSE ProcessAcks /\ resetting' = WakeIfDone(lastConfirmed) /\ UNCHANGED polling
  /\ UNCHANGED <<lastConfirmed, pending>>

-----------------------------------------------------------------------------
(* Operations of the subscriber *)

Start ==
  /\ svc = serviceUninitialized
  /\ svc' = serviceStarting
  /\ StreamStart(go)
  /\ polling' = TRUE
  /\ UNCHANGED <<wireVars, trackerVars, enableCommits, resetting, userVars, cursor, resets>>

Stop == ProcessAcks /\ InitiateStop /\ UNCHANGED <<userVars, cursor, resets>>

CommitterTerminate == Release /\ InitiateStop /\ UNCHANGED <<userVars, cursor, resets>>

\* Mutant: the state is reset while commits are in flight.
FlushNothing(prefix) ==
  /\ TrackerReset
  /\ resetting' = "none"
  /\ delivered' = nilCursorOffset
  /\ unacked' = {}
  /\ cursor' = nilCursorOffset
  /\ UNCHANGED <<streamVars, wireVars>>

\* The loop of BlockingReset from a test of its condition to the next wait,
\* after the acks were released and the acked prefix processed.
Flush(prefix) ==
  CASE svc >= serviceTerminating ->       \* returns ErrServiceStopped
         /\ ackedPrefix' = prefix /\ outstanding' = <<>> /\ enablePush' = FALSE
         /\ resetting' = "none"
         /\ UNCHANGED <<streamVars, wireVars, lastConfirmed, pending, userVars, cursor>>
    [] svc < serviceTerminating /\ UpToDate(prefix, <<>>, lastConfirmed) ->
         /\ TrackerReset
         /\ resetting' = "none"
         /\ delivered' = nilCursorOffset
         /\ unacked' = {}
         /\ cursor' = nilCursorOffset
         /\ UNCHANGED <<streamVars, wireVars>>
    [] OTHER ->
         /\ ackedPrefix' = prefix /\ outstanding' = <<>> /\ enablePush' = FALSE
         /\ resetting' = "waiting"
         /\ IF enableCommits THEN CommitOffsetToStream(go, pending)
            ELSE UNCHANGED <<streamVars, wireVars, pending>>
         /\ UNCHANGED <<lastConfirmed, userVars, cursor>>

\* The subscribe stream calls BlockingReset when the server signals a seek.
BlockingReset ==
  /\ svc >= serviceStarting
  /\ resetting = "none"
  /\ resets < MaxResets
  /\ resets' = resets + 1
  /\ \E n \in 0..Len(outstanding) : AckedRun(n) /\ Flush(PrefixAfter(n))
  /\ UNCHANGED <<svc, enableCommits, polling>>

FlushWoken ==
  /\ resetting = "woken"
  /\ Flush(ackedPrefix)
  /\ UNCHANGED <<svc, enableCommits, polling, resets>>

-----------------------------------------------------------------------------
(* Messages and acks *)

\* The message delivery queue pushes the ack, then calls the user's receiver.
\* It is stopped while the subscriber resets.  The subscriber and its committer
\* are started together.
Deliver(o) ==
  /\ svc >= serviceStarting
  /\ resetting = "none"
  /\ o > delivered
  /\ Push(o)
  /\ delivered' = o
  /\ unacked' = unacked \cup {o}
  /\ UNCHANGED <<streamVars, wireVars, ackedPrefix, enablePush, lastConfirmed, pending,
                 committerVars, cursor, resets>>

UserAck(o) ==
  /\ o \in unacked
  /\ Ack(o)
  /\ unacked' = unacked \ {o}
  /\ UNCHANGED <<streamVars, wireVars, ackedPrefix, enablePush, lastConfirmed, pending,
                 committerVars, delivered, cursor, resets>>

-----------------------------------------------------------------------------
(* The periodic task and the streamHandler *)

\* commitOffsetToStream
PollCommits ==
  /\ polling
  /\ enableCommits
  /\ ProcessAcks
  /\ CommitOffsetToStream(go, pending)
  /\ UNCHANGED <<lastConfirmed, committerVars, userVars, cursor, resets>>

OnReconnecting(g) ==
  /\ go[g].at = "notifyReconnecting"
  /\ enableCommits' = FALSE
  /\ polling' = FALSE
  /\ KeepStream(Notified(g))
  /\ UNCHANGED <<wireVars, trackerVars, svc, resetting, userVars, cursor, resets>>

\* onStreamStatusChange has no case for streamResetState.
OnResetState(g) ==
  /\ go[g].at \in {"notifyReset", "initReset"}
  /\ KeepStream(Notified(g))
  /\ UNCHANGED <<wireVars, ownVars>>

OnConnected(g) ==
  /\ go[g].at = "notifyConnected"
  /\ enableCommits' = TRUE
  /\ svc' = UpdateStatus(svc, serviceActive)
  /\ ProcessAcks
  /\ CommitOffsetToStream(Notified(g), <<>>)
  /\ polling' = TRUE
  /\ UNCHANGED <<lastConfirmed, resetting, userVars, cursor, resets>>

\* The stream that the shutdown stops has already terminated.
OnTerminated ==
  /\ termNotify = "pending"
  /\ termNotify' = "done"
  /\ InitiateTermination
  /\ UNCHANGED <<muVars, conn, go, timerVars, ctxDone, wireVars, enableCommits, userVars,
                 cursor, resets>>

\* A response acknowledges a number of commits, which must be pending.
OnResponse(g) ==
  /\ TakeResponse(g)
  /\ IF Response(g) <= Len(pending)
     THEN /\ ConfirmOffsets(Response(g))
          /\ ProcessAcks
          /\ resetting' = WakeIfDone(lastConfirmed')
          /\ CheckDone(Notified(g), svc, lastConfirmed')
          /\ UNCHANGED svc
     ELSE /\ InitiateTermination
          /\ IF CanUpdateStatus(svc, serviceTerminated) THEN StreamStop(Notified(g))
             ELSE KeepStream(Notified(g))
  /\ UNCHANGED <<enableCommits, userVars, cursor, resets>>

-----------------------------------------------------------------------------
(* The stream below and the server at its other end *)

\* Once the server has accepted a stream, it applies no commit that is still in
\* flight on the streams before it (external).
Supersede(g) ==
  toServer' = IF go[g].at = "init" /\ go'[g].at = "initDone"
              THEN [s \in Streams |-> <<>>] ELSE toServer

Stream(g) ==
  /\ \/ SilentStep(g) /\ Supersede(g) /\ UNCHANGED fromServer
     \/ \E s \in Streams : OpenStream(g, s)
  /\ UNCHANGED ownVars

Idle == IdleTimer /\ UNCHANGED ownVars

\* The server applies the commits of a stream in order and acknowledges a number
\* of them at a time.  A commit that was in flight when its stream was lost may
\* still be applied; its acknowledgement is lost.
ServerCommit(s) ==
  /\ \E n \in 1..Len(toServer[s]) :
       /\ cursor' = toServer[s][n]
       /\ toServer' = [toServer EXCEPT ![s] = SubSeq(@, n + 1, Len(@))]
       /\ fromServer' = IF conn[s] = "open" THEN [fromServer EXCEPT ![s] = Append(@, n)]
                        ELSE fromServer
  /\ UNCHANGED <<streamVars, faults, trackerVars, committerVars, userVars, resets>>

Handler(g) ==
  OnReconnecting(g) \/ OnResetState(g) \/ OnConnected(g) \/ OnResponse(g)

Next ==
  \/ Start \/ Stop \/ CommitterTerminate \/ BlockingReset \/ FlushWoken
  \/ \E o \in Offsets : Deliver(o) \/ UserAck(o)
  \/ PollCommits \/ OnTerminated \/ Idle
  \/ \E g \in Goroutines : Handler(g) \/ Stream(g)
  \/ \E s \in Streams : ServerCommit(s)

Spec == Init /\ [][Next]_vars

-----------------------------------------------------------------------------
(* Safety *)

\* The subscriber never loses a message: no commit that reaches the server is
\* beyond a message that the user has been given and has not acked, whatever
\* acks arrive out of order, commits are repeated on a new stream and acks are
\* discarded by Terminate, a permanent error or a reset.
AckedBeforeCommitted == \A o \in unacked : cursor <= o

\* The trackers never get ahead of the user: the commits in flight and the
\* confirmed one are not beyond an unacked message, also when a reset begins
\* anew at smaller offsets.
TrackedOnlyAcked ==
  \A o \in unacked : lastConfirmed <= o /\ \A i \in DOMAIN pending : pending[i] <= o

\* An offset that the tracker takes for confirmed was committed: a response
\* names only a number of commits and is matched with the pending offsets,
\* which a reconnection clears.
ConfirmedIsCommitted == lastConfirmed <= cursor

\* The committer never moves the cursor backwards, except that a reset begins
\* anew.
CursorAdvances == [][cursor' >= cursor \/ cursor' = nilCursorOffset]_vars

\* Stop and Terminate "send the final commit offset to the server": a commit
\* stream that is closed by a graceful shutdown leaves the server with all
\* messages committed up to the first unacked one, and no ack pending.
FinalCommit ==
  [][status # "streamTerminated" /\ status' = "streamTerminated" /\ finalErr' = "nil"
       /\ svc' = serviceTerminating =>
     cursor' = CommitOffset(ackedPrefix') /\ outstanding' = <<>>]_vars

-----------------------------------------------------------------------------
(* Liveness.  The goroutines of the client run, the commit task polls, the   *)
(* server answers on an open stream, and a user who holds up Stop acks its   *)
(* messages.                                                                 *)

Fairness ==
  /\ WF_vars(PollCommits)
  /\ WF_vars(FlushWoken)
  /\ WF_vars(OnTerminated)
  /\ \A o \in Offsets : WF_vars(UserAck(o))
  /\ \A s \in Streams : WF_vars(conn[s] = "open" /\ ServerCommit(s))
  /\ \A g \in Goroutines :
       /\ WF_vars(Handler(g))
       /\ WF_vars(go[g].at # "listen" /\ Stream(g))
       /\ WF_vars(go[g].at = "listen" /\ conn[go[g].own] # "open" /\ Stream(g))
       /\ WF_vars(RecvResponse(g) /\ Stream(g))
       /\ SF_vars(ExceededDeadline(g) /\ Stream(g))

FairSpec == Spec /\ Fairness

\* A committer that is told to stop or fails comes to an end, if no seek of the
\* subscription intervenes.
StopCompletes == svc >= serviceTerminating ~> svc = serviceTerminated \/ resets > 0

\* "The commit stream can be closed once the final commit offset has been
\* confirmed and there are no outstanding acks": the same with seeks.
ShutdownCompletes == svc >= serviceTerminating ~> svc = serviceTerminated

\* BlockingReset returns: the flush it waits for is confirmed on some stream or
\* the committer shuts down, and no wakeup is missed.
ResetReturns == resetting # "none" ~> resetting = "none"
=============================================================================
