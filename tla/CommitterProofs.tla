--------------------------- MODULE CommitterProofs ---------------------------
(***************************************************************************)
(* The committer never commits beyond a message that the user has not      *)
(* acked, for all offsets, streams, goroutines and failures.               *)
(***************************************************************************)
EXTENDS Committer, AckTrackerProofs, RetryableStreamProofs

\* A sequence of commits that are all at most c.
Below(commits, c) ==
  /\ commits \in Seq(Nat)
  /\ \A i \in 1..Len(commits) : commits[i] <= c

LEMMA BelowEmpty == \A c : Below(<<>>, c)
BY EmptySeq DEF Below

LEMMA BelowWeaken ==
  ASSUME NEW c \in Int, NEW d \in Int, c <= d, NEW commits, Below(commits, c)
  PROVE  Below(commits, d)
BY ElementOfSeq DEF Below

LEMMA BelowAppend ==
  ASSUME NEW c, NEW commits, Below(commits, c), NEW x \in Nat, x <= c
  PROVE  Below(Append(commits, x), c)
<1>1. commits \in Seq(Nat) /\ Len(commits) \in Nat
  BY LenProperties DEF Below
<1>2. /\ Append(commits, x) \in Seq(Nat)
      /\ Len(Append(commits, x)) = Len(commits) + 1
      /\ \A i \in 1..Len(commits) : Append(commits, x)[i] = commits[i]
      /\ Append(commits, x)[Len(commits) + 1] = x
  BY <1>1, AppendProperties
<1>3. \A i \in 1..(Len(commits) + 1) : i \in 1..Len(commits) \/ i = Len(commits) + 1
  BY <1>1
<1> QED
  BY <1>2, <1>3 DEF Below

LEMMA BelowSubSeq ==
  ASSUME NEW c, NEW commits, Below(commits, c), NEW n \in Nat
  PROVE  Below(SubSeq(commits, n + 1, Len(commits)), c)
<1>1. commits \in Seq(Nat) /\ Len(commits) \in Nat
  BY LenProperties DEF Below
<1>2. \A i \in (n + 1)..Len(commits) : commits[i] \in Nat
  BY <1>1, ElementOfSeq
<1>3. /\ SubSeq(commits, n + 1, Len(commits)) \in Seq(Nat)
      /\ Len(SubSeq(commits, n + 1, Len(commits))) =
           IF n + 1 <= Len(commits) THEN Len(commits) - (n + 1) + 1 ELSE 0
      /\ \A i \in 1..(Len(commits) - (n + 1) + 1) :
           SubSeq(commits, n + 1, Len(commits))[i] = commits[(n + 1) + i - 1]
  BY <1>1, <1>2, SubSeqProperties
<1>4. ASSUME NEW i \in 1..Len(SubSeq(commits, n + 1, Len(commits)))
      PROVE  SubSeq(commits, n + 1, Len(commits))[i] <= c
  <2>1. i \in 1..(Len(commits) - (n + 1) + 1) /\ (n + 1) + i - 1 \in 1..Len(commits)
    BY <1>1, <1>3
  <2> QED
    BY <1>3, <2>1 DEF Below
<1> QED
  BY <1>3, <1>4 DEF Below

-----------------------------------------------------------------------------
(* The invariant *)

\* The commits that the tracker has made are covered by the acked prefix.
Covered(prefix, confirmed, offsets) ==
  /\ confirmed \in Cursors
  /\ confirmed <= CommitOffset(prefix)
  /\ Below(offsets, CommitOffset(prefix))

\* So are the commits in flight and the one that the server applied, until a
\* reset puts the prefix back.
WireCovered(prefix) ==
  /\ cursor <= CommitOffset(prefix)
  /\ \A s \in Streams : Below(toServer[s], CommitOffset(prefix))

WireShape ==
  /\ toServer \in [Streams -> Seq(Nat)]
  /\ fromServer \in [Streams -> Seq(Nat \ {0})]
  /\ cursor \in Cursors
  /\ resets \in Nat

Inv ==
  /\ StreamShape
  /\ enablePush \in BOOLEAN
  /\ Tracked(outstanding, ackedPrefix, enablePush, delivered, unacked)
  /\ Covered(ackedPrefix, lastConfirmed, pending)
  /\ WireShape
  /\ resets = 0 => WireCovered(ackedPrefix)

\* A step that leaves the commits alone keeps them covered as the prefix grows.
LEMMA CoveredGrows ==
  ASSUME NEW p \in Cursors, NEW q \in Cursors, p <= q, NEW c, NEW offsets,
         Covered(p, c, offsets)
  PROVE  Covered(q, c, offsets)
<1>1. CommitOffset(p) \in Int /\ CommitOffset(q) \in Int /\ CommitOffset(p) <= CommitOffset(q)
  BY CommitOffsetMonotonic DEF Cursors, nilCursorOffset
<1>2. Below(offsets, CommitOffset(q))
  BY <1>1, BelowWeaken DEF Covered
<1>3. c \in Int
  BY DEF Covered, Cursors, nilCursorOffset
<1> QED
  BY <1>1, <1>2, <1>3 DEF Covered

LEMMA WireGrows ==
  ASSUME NEW p \in Cursors, NEW q \in Cursors, p <= q, cursor \in Cursors, WireCovered(p)
  PROVE  WireCovered(q)
<1>1. CommitOffset(p) \in Int /\ CommitOffset(q) \in Int /\ CommitOffset(p) <= CommitOffset(q)
  BY CommitOffsetMonotonic DEF Cursors, nilCursorOffset
<1>2. cursor <= CommitOffset(q)
  BY <1>1 DEF WireCovered, Cursors, nilCursorOffset
<1>3. \A s \in Streams : Below(toServer[s], CommitOffset(q))
  BY <1>1, BelowWeaken DEF WireCovered
<1> QED
  BY <1>2, <1>3 DEF WireCovered

\* unsafeCommitOffsetToStream sends the commit offset of the acked prefix.
LEMMA CommitStep ==
  ASSUME StreamShape, WireShape, NEW base \in Owners, NEW offsets,
         CommitOffsetToStream(base, offsets), ackedPrefix' \in Cursors,
         Below(offsets, CommitOffset(ackedPrefix'))
  PROVE  /\ StreamShape'
         /\ Below(pending', CommitOffset(ackedPrefix'))
         /\ toServer' \in [Streams -> Seq(Nat)]
         /\ fromServer' = fromServer
         /\ \A s \in Streams :
              Below(toServer[s], CommitOffset(ackedPrefix')) =>
              Below(toServer'[s], CommitOffset(ackedPrefix'))
<1> DEFINE req == Desired(offsets)
           top == CommitOffset(ackedPrefix')
<1>1. CASE req = nilCursorOffset
  <2>1. KeepStream(base) /\ pending' = offsets /\ UNCHANGED wireVars
    BY <1>1 DEF CommitOffsetToStream
  <2>2. StreamShape'
    BY <2>1, KeepShape DEF KeepStream, muVars
  <2> QED
    BY <2>1, <2>2 DEF wireVars, WireShape
<1>2. CASE req # nilCursorOffset
  <2>1. req = top /\ top \in Nat /\ req <= top
    BY <1>2, NextOffsetIsCommit DEF Desired
  <2>2. PICK sent \in BOOLEAN :
          /\ SendRequest(base, req, sent)
          /\ pending' = IF sent THEN Append(offsets, req) ELSE offsets
    BY <1>2 DEF CommitOffsetToStream
  <2>3. StreamShape'
    BY <2>2, SendShape DEF SendRequest
  <2>4. Below(pending', top)
    BY <2>1, <2>2, BelowAppend
  <2>5. sent => stream \in Streams
    BY <2>2 DEF SendRequest, Send, SendOK, StreamShape
  <2>6. \A s \in Streams : toServer'[s] = toServer[s] \/ toServer'[s] = Append(toServer[s], req)
    BY <2>2 DEF SendRequest, WireShape
  <2>7. toServer' \in [Streams -> Seq(Nat)]
    <3>1. \A q \in Seq(Nat) : Append(q, req) \in Seq(Nat)
      BY <2>1, AppendProperties
    <3> QED
      BY <2>2, <2>5, <3>1 DEF SendRequest, WireShape
  <2>8. \A s \in Streams : Below(toServer[s], top) => Below(toServer'[s], top)
    BY <2>1, <2>6, BelowAppend
  <2> QED
    BY <2>2, <2>3, <2>4, <2>7, <2>8 DEF SendRequest
<1> QED
  BY <1>1, <1>2

-----------------------------------------------------------------------------
(* What the actions have in common *)

\* The acks are processed, and possibly released.
Progress ==
  /\ Tracked(outstanding', ackedPrefix', enablePush', delivered, unacked)
  /\ enablePush' \in BOOLEAN
  /\ ackedPrefix \in Cursors /\ ackedPrefix' \in Cursors
  /\ ackedPrefix <= ackedPrefix'

LEMMA ProcessProgress ==
  ASSUME Inv, ProcessAcks
  PROVE  Progress
<1>1. PICK n \in 0..Len(outstanding) :
        AckedRun(n) /\ ackedPrefix' = PrefixAfter(n) /\ outstanding' = Remaining(n)
  BY DEF ProcessAcks
<1>2. Tracked(outstanding, ackedPrefix, enablePush, delivered, unacked)
  BY DEF Inv
<1>3. enablePush' = enablePush /\ enablePush \in BOOLEAN
  BY DEF ProcessAcks, Inv
<1>4. Tracked(outstanding', ackedPrefix', enablePush', delivered, unacked)
  BY <1>1, <1>2, <1>3, ProcessTracked
<1>5. ackedPrefix' \in Cursors /\ ackedPrefix <= ackedPrefix'
  BY <1>1, <1>2, ProcessPrefix
<1>6. ackedPrefix \in Cursors
  BY <1>2 DEF Tracked
<1> QED
  BY <1>3, <1>4, <1>5, <1>6 DEF Progress

LEMMA ReleaseProgress ==
  ASSUME Inv, NEW n \in 0..Len(outstanding), AckedRun(n), ackedPrefix' = PrefixAfter(n),
         outstanding' = <<>>, enablePush' = FALSE
  PROVE  Progress
<1>1. Tracked(outstanding, ackedPrefix, enablePush, delivered, unacked)
  BY DEF Inv
<1>2. Tracked(outstanding', ackedPrefix', enablePush', delivered, unacked)
  BY <1>1, ReleaseTracked
<1>3. ackedPrefix' \in Cursors /\ ackedPrefix <= ackedPrefix'
  BY <1>1, ProcessPrefix
<1>4. ackedPrefix \in Cursors
  BY <1>1 DEF Tracked
<1> QED
  BY <1>2, <1>3, <1>4 DEF Progress

LEMMA KeepProgress ==
  ASSUME Inv, UNCHANGED <<outstanding, ackedPrefix, enablePush>>
  PROVE  Progress
<1>1. ackedPrefix \in Cursors
  BY DEF Inv, Tracked
<1>2. ackedPrefix \in Int
  BY <1>1 DEF Cursors, nilCursorOffset
<1> QED
  BY <1>1, <1>2 DEF Progress, Inv

\* A step that makes no commit.
LEMMA QuietStep ==
  ASSUME Inv, Progress, StreamShape', resets' \in Nat, resets' = 0 => resets = 0,
         UNCHANGED <<delivered, unacked, lastConfirmed, pending, toServer, cursor>>,
         fromServer' \in [Streams -> Seq(Nat \ {0})]
  PROVE  Inv'
<1>1. Covered(ackedPrefix', lastConfirmed, pending)
  BY CoveredGrows DEF Inv, Progress
<1>2. resets = 0 => WireCovered(ackedPrefix')
  BY WireGrows DEF Inv, Progress, WireShape
<1>3. WireShape'
  BY DEF WireShape, Inv
<1>4. resets' = 0 => WireCovered(ackedPrefix)'
  BY <1>2 DEF WireCovered, CommitOffset, Below
<1> QED
  BY <1>1, <1>3, <1>4 DEF Inv, Progress, Covered, CommitOffset, Below

\* A step that may make a commit.
LEMMA CommittingStep ==
  ASSUME Inv, Progress, NEW base \in Owners, NEW offsets \in {pending, <<>>},
         CommitOffsetToStream(base, offsets), resets' \in Nat, resets' = 0 => resets = 0,
         UNCHANGED <<delivered, unacked, lastConfirmed, cursor>>
  PROVE  Inv'
<1> DEFINE top == CommitOffset(ackedPrefix')
<1>1. Covered(ackedPrefix', lastConfirmed, pending)
  BY CoveredGrows DEF Inv, Progress
<1>2. Below(offsets, top)
  BY <1>1, BelowEmpty DEF Covered
<1>3. /\ StreamShape'
      /\ Below(pending', top)
      /\ toServer' \in [Streams -> Seq(Nat)]
      /\ fromServer' = fromServer
      /\ \A s \in Streams : Below(toServer[s], top) => Below(toServer'[s], top)
  BY <1>2, CommitStep DEF Inv, Progress
<1>4. WireShape'
  BY <1>3 DEF Inv, WireShape
<1>5. resets = 0 => WireCovered(ackedPrefix')
  BY WireGrows DEF Inv, Progress, WireShape
<1>6. resets' = 0 => cursor' <= top /\ \A s \in Streams : Below(toServer'[s], top)
  BY <1>3, <1>5 DEF WireCovered
<1>7. Covered(ackedPrefix', lastConfirmed', pending')
  BY <1>1, <1>3 DEF Covered
<1> QED
  BY <1>3, <1>4, <1>6, <1>7 DEF Inv, Progress, Covered, CommitOffset, Below, WireCovered

-----------------------------------------------------------------------------
(* The actions *)

LEMMA InvInit == Init => Inv
<1> SUFFICES ASSUME Init PROVE Inv
  OBVIOUS
<1>1. StreamShape
  BY InitShape DEF Init
<1>2. Tracked(outstanding, ackedPrefix, enablePush, delivered, unacked)
  BY EmptySeq DEF Init, TrackerInit, Tracked, Cursors, nilCursorOffset
<1>3. Covered(ackedPrefix, lastConfirmed, pending)
  BY BelowEmpty DEF Init, TrackerInit, Covered, Cursors, nilCursorOffset, CommitOffset
<1>4. WireShape
  BY EmptySeq DEF Init, WireInit, WireShape, Cursors
<1>5. WireCovered(ackedPrefix)
  BY BelowEmpty DEF Init, WireInit, TrackerInit, WireCovered, nilCursorOffset, CommitOffset
<1> QED
  BY <1>1, <1>2, <1>3, <1>4, <1>5 DEF Init, TrackerInit, Inv

LEMMA InitiateStopStep ==
  ASSUME Inv, Progress, InitiateStop, UNCHANGED <<userVars, cursor, resets>>
  PROVE  Inv'
<1>1. go \in Owners /\ resets \in Nat
  BY DEF Inv, StreamShape, WireShape
<1>2. CASE CommitOffsetToStream(go, pending)
  BY <1>1, <1>2, CommittingStep DEF InitiateStop, userVars
<1>3. CASE CheckDone(go, svc', lastConfirmed) /\ UNCHANGED <<wireVars, pending>>
  <2>1. StreamShape'
    BY <1>1, <1>3, KeepShape, StopShape DEF CheckDone, KeepStream, muVars, Inv
  <2> QED
    BY <1>1, <1>3, <2>1, QuietStep
       DEF InitiateStop, userVars, wireVars, Inv, WireShape
<1> QED
  BY <1>2, <1>3 DEF InitiateStop

LEMMA FlushStep ==
  ASSUME Inv, NEW prefix, Flush(prefix), resets' \in Nat, resets' # 0,
         ackedPrefix' = prefix /\ outstanding' = <<>> /\ enablePush' = FALSE => Progress
  PROVE  Inv'
<1>1. go \in Owners
  BY DEF Inv, StreamShape
<1>2. CASE /\ ackedPrefix' = prefix /\ outstanding' = <<>> /\ enablePush' = FALSE
           /\ UNCHANGED <<streamVars, wireVars, lastConfirmed, pending, userVars, cursor>>
  <2>1. StreamShape'
    BY <1>1, <1>2, KeepShape DEF streamVars, muVars, Inv
  <2> QED
    BY <1>2, <2>1, QuietStep DEF userVars, wireVars, Inv, WireShape
<1>3. CASE /\ TrackerReset /\ delivered' = nilCursorOffset /\ unacked' = {}
           /\ cursor' = nilCursorOffset /\ UNCHANGED <<streamVars, wireVars>>
  <2>1. StreamShape'
    BY <1>1, <1>3, KeepShape DEF streamVars, muVars, Inv
  <2>2. Tracked(outstanding, ackedPrefix, enablePush, delivered, unacked)'
    BY <1>3, EmptySeq DEF TrackerReset, Tracked, Cursors, nilCursorOffset
  <2>3. Covered(ackedPrefix, lastConfirmed, pending)'
    BY <1>3, EmptySeq
       DEF TrackerReset, Covered, Below, Cursors, nilCursorOffset, CommitOffset
  <2>4. WireShape'
    BY <1>3 DEF Inv, WireShape, wireVars, Cursors
  <2> QED
    BY <1>3, <2>1, <2>2, <2>3, <2>4 DEF Inv, TrackerReset
<1>4. CASE /\ ackedPrefix' = prefix /\ outstanding' = <<>> /\ enablePush' = FALSE
           /\ CommitOffsetToStream(go, pending)
           /\ UNCHANGED <<lastConfirmed, userVars, cursor>>
  BY <1>1, <1>4, CommittingStep DEF userVars
<1>5. CASE /\ ackedPrefix' = prefix /\ outstanding' = <<>> /\ enablePush' = FALSE
           /\ UNCHANGED <<streamVars, wireVars, pending>>
           /\ UNCHANGED <<lastConfirmed, userVars, cursor>>
  BY <1>2, <1>5
<1> QED
  BY <1>2, <1>3, <1>4, <1>5 DEF Flush

\* A reset that is under way was counted.
ResetCounted == resetting # "none" => resets > 0

LEMMA DiscardProgress ==
  ASSUME Inv, ackedPrefix' = ackedPrefix, outstanding' = <<>>, enablePush' = FALSE
  PROVE  Progress
<1>1. Tracked(outstanding, ackedPrefix, enablePush, delivered, unacked)
  BY DEF Inv
<1>2. Tracked(outstanding', ackedPrefix', enablePush', delivered, unacked)
  BY <1>1, EmptySeq DEF Tracked
<1>3. ackedPrefix \in Cursors /\ ackedPrefix \in Int
  BY <1>1 DEF Tracked, Cursors, nilCursorOffset
<1>4. ackedPrefix' \in Cursors /\ ackedPrefix <= ackedPrefix'
  BY <1>3
<1>5. enablePush' \in BOOLEAN
  OBVIOUS
<1> QED
  BY <1>2, <1>3, <1>4, <1>5 DEF Progress

LEMMA ResetStep ==
  ASSUME Inv, ResetCounted, BlockingReset \/ FlushWoken
  PROVE  Inv'
<1>0. resets \in Nat
  BY DEF Inv, WireShape
<1>1. CASE BlockingReset
  <2>1. PICK n \in 0..Len(outstanding) : AckedRun(n) /\ Flush(PrefixAfter(n))
    BY <1>1 DEF BlockingReset
  <2>2. resets' \in Nat /\ resets' # 0
    BY <1>0, <1>1 DEF BlockingReset
  <2> QED
    BY <2>1, <2>2, ReleaseProgress, FlushStep
<1>2. CASE FlushWoken
  <2>1. resets' \in Nat /\ resets' # 0
    BY <1>0, <1>2 DEF FlushWoken, ResetCounted
  <2> QED
    BY <1>2, <2>1, DiscardProgress, FlushStep DEF FlushWoken
<1> QED
  BY <1>1, <1>2

LEMMA UserStep ==
  ASSUME Inv, NEW o \in Offsets, Deliver(o) \/ UserAck(o)
  PROVE  Inv'
<1>0. /\ Tracked(outstanding, ackedPrefix, enablePush, delivered, unacked)
      /\ o \in Nat /\ go \in Owners
      /\ UNCHANGED <<streamVars, wireVars, ackedPrefix, enablePush, lastConfirmed, pending,
                     cursor, resets>>
  BY DEF Inv, Offsets, StreamShape, Deliver, UserAck
<1>1. CASE Deliver(o)
  <2>1. delivered < o
    BY <1>0, <1>1 DEF Deliver, Tracked, Cursors, nilCursorOffset
  <2>2. Tracked(outstanding', ackedPrefix, enablePush, o, unacked \cup {o})
    BY <1>0, <1>1, <2>1, PushTracked DEF Deliver
  <2> QED
    BY <1>0, <1>1, <2>2
       DEF Deliver, Inv, Covered, WireCovered, WireShape, StreamShape, streamVars, muVars,
           wireVars, CommitOffset, Below
<1>2. CASE UserAck(o)
  <2>1. Tracked(outstanding', ackedPrefix, enablePush, delivered, unacked \ {o})
    BY <1>0, <1>2, AckTracked DEF UserAck
  <2> QED
    BY <1>0, <1>2, <2>1
       DEF UserAck, Inv, Covered, WireCovered, WireShape, StreamShape, streamVars, muVars,
           wireVars, CommitOffset, Below
<1> QED
  BY <1>1, <1>2

LEMMA HandlerStep ==
  ASSUME Inv, NEW g \in Goroutines, OnReconnecting(g) \/ OnResetState(g) \/ OnConnected(g)
  PROVE  Inv'
<1>0. go \in Owners /\ resets \in Nat
  BY DEF Inv, StreamShape, WireShape
<1>1. Notified(g) \in Owners
  BY <1>0, NotifiedOwner
     DEF NotifyPoints, OnReconnecting, OnResetState, OnConnected
<1>2. CASE OnReconnecting(g) \/ OnResetState(g)
  <2>1. KeepStream(Notified(g)) /\ UNCHANGED <<wireVars, trackerVars, userVars, cursor, resets>>
    BY <1>2 DEF OnReconnecting, OnResetState, ownVars
  <2>2. StreamShape'
    BY <1>1, <2>1, KeepShape DEF KeepStream, muVars, Inv
  <2>3. Progress
    BY <2>1, KeepProgress DEF trackerVars
  <2> QED
    BY <1>0, <2>1, <2>2, <2>3, QuietStep
       DEF trackerVars, userVars, wireVars, Inv, WireShape
<1>3. CASE OnConnected(g)
  <2>1. Progress
    BY <1>3, ProcessProgress DEF OnConnected
  <2> QED
    BY <1>0, <1>1, <1>3, <2>1, CommittingStep DEF OnConnected, userVars
<1> QED
  BY <1>2, <1>3

\* A response that confirms no more than the pending commits.
LEMMA ConfirmStep ==
  ASSUME Inv, Progress, StreamShape', NEW n \in Nat \ {0}, ConfirmOffsets(n),
         UNCHANGED <<delivered, unacked, toServer, cursor, resets>>,
         fromServer' \in [Streams -> Seq(Nat \ {0})]
  PROVE  Inv'
<1> DEFINE top == CommitOffset(ackedPrefix')
<1>1. Covered(ackedPrefix', lastConfirmed, pending)
  BY CoveredGrows DEF Inv, Progress
<1>2. pending \in Seq(Nat) /\ Len(pending) \in Nat
  BY <1>1, LenProperties DEF Covered, Below
<1>3. n \in 1..Len(pending)
  BY <1>2 DEF ConfirmOffsets
<1>4. lastConfirmed' \in Nat /\ lastConfirmed' <= top
  BY <1>1, <1>2, <1>3, ElementOfSeq DEF ConfirmOffsets, Covered, Below
<1>5. Below(pending', top)
  BY <1>1, BelowSubSeq DEF ConfirmOffsets, Covered
<1>6. resets = 0 => WireCovered(ackedPrefix')
  BY WireGrows DEF Inv, Progress, WireShape
<1>7. WireShape'
  BY DEF WireShape, Inv
<1>8. resets' = 0 => WireCovered(ackedPrefix)'
  BY <1>6 DEF WireCovered, CommitOffset, Below
<1>9. Covered(ackedPrefix', lastConfirmed', pending')
  BY <1>4, <1>5 DEF Covered, Cursors
<1> QED
  BY <1>7, <1>8, <1>9 DEF Inv, Progress, Covered, CommitOffset, Below

LEMMA ResponseStep ==
  ASSUME Inv, NEW g \in Goroutines, OnResponse(g)
  PROVE  Inv'
<1>0. go \in Owners /\ resets \in Nat
  BY DEF Inv, StreamShape, WireShape
<1>1. Notified(g) \in Owners
  BY <1>0, NotifiedOwner DEF NotifyPoints, OnResponse, TakeResponse
<1>2. go[g].own \in Streams
  BY <1>0 DEF OnResponse, TakeResponse, Owners, OwnerState, OwningPoints, ListeningPoints
<1>3. /\ fromServer[go[g].own] \in Seq(Nat \ {0})
      /\ fromServer[go[g].own] # <<>>
  BY <1>2 DEF Inv, WireShape, OnResponse, TakeResponse
<1>4. /\ Response(g) \in Nat \ {0}
      /\ Tail(fromServer[go[g].own]) \in Seq(Nat \ {0})
  BY <1>3, HeadTailProperties DEF Response
<1>5. fromServer' \in [Streams -> Seq(Nat \ {0})]
  BY <1>2, <1>4 DEF Inv, WireShape, OnResponse, TakeResponse
<1>6. UNCHANGED <<delivered, unacked, toServer, cursor, resets>>
  BY DEF OnResponse, TakeResponse, userVars
<1>7. CASE Response(g) <= Len(pending)
  <2>1. /\ ConfirmOffsets(Response(g)) /\ ProcessAcks
        /\ CheckDone(Notified(g), svc, lastConfirmed')
    BY <1>7 DEF OnResponse
  <2>2. StreamShape'
    BY <1>1, <2>1, KeepShape, StopShape DEF CheckDone, KeepStream, muVars, Inv
  <2>3. Progress
    BY <2>1, ProcessProgress
  <2> QED
    BY <1>4, <1>5, <1>6, <2>1, <2>2, <2>3, ConfirmStep
<1>8. CASE ~(Response(g) <= Len(pending))
  <2>1. /\ InitiateTermination
        /\ StreamStop(Notified(g)) \/ KeepStream(Notified(g))
    BY <1>8 DEF OnResponse
  <2>2. StreamShape'
    BY <1>1, <2>1, KeepShape, StopShape DEF KeepStream, muVars, Inv
  <2>3. Progress
    BY <2>1, ProcessProgress, ReleaseProgress DEF InitiateTermination, Release
  <2> QED
    BY <1>0, <1>5, <1>6, <2>1, <2>2, <2>3, QuietStep DEF InitiateTermination
<1> QED
  BY <1>7, <1>8

LEMMA ServerStep ==
  ASSUME Inv, NEW s \in Streams, ServerCommit(s)
  PROVE  Inv'
<1> DEFINE top == CommitOffset(ackedPrefix)
<1>1. PICK n \in 1..Len(toServer[s]) :
        /\ cursor' = toServer[s][n]
        /\ toServer' = [toServer EXCEPT ![s] = SubSeq(@, n + 1, Len(@))]
        /\ fromServer' = IF conn[s] = "open" THEN [fromServer EXCEPT ![s] = Append(@, n)]
                         ELSE fromServer
  BY DEF ServerCommit
<1>2. toServer[s] \in Seq(Nat) /\ fromServer[s] \in Seq(Nat \ {0}) /\ n \in Nat \ {0}
  BY LenProperties DEF Inv, WireShape
<1>3. cursor' \in Nat
  BY <1>1, <1>2, ElementOfSeq
<1>4. SubSeq(toServer[s], n + 1, Len(toServer[s])) \in Seq(Nat)
  <2>1. \A i \in (n + 1)..Len(toServer[s]) : toServer[s][i] \in Nat
    BY <1>2, ElementOfSeq, LenProperties
  <2> QED
    BY <1>2, <2>1, SubSeqProperties, LenProperties
<1>5. Append(fromServer[s], n) \in Seq(Nat \ {0})
  BY <1>2, AppendProperties
<1>6. WireShape'
  BY <1>1, <1>3, <1>4, <1>5 DEF Inv, WireShape, ServerCommit, Cursors
<1>7. ASSUME resets = 0
      PROVE  cursor' <= top /\ \A t \in Streams : Below(toServer'[t], top)
  <2>1. WireCovered(ackedPrefix)
    BY <1>7 DEF Inv
  <2>2. cursor' <= top
    BY <1>1, <2>1 DEF WireCovered, Below
  <2>3. Below(SubSeq(toServer[s], n + 1, Len(toServer[s])), top)
    BY <1>2, <2>1, BelowSubSeq DEF WireCovered
  <2>4. \A t \in Streams : Below(toServer'[t], top)
    BY <1>1, <2>1, <2>3 DEF WireCovered, Inv, WireShape
  <2> QED
    BY <2>2, <2>4
<1> QED
  BY <1>6, <1>7
     DEF ServerCommit, Inv, StreamShape, streamVars, muVars, trackerVars, userVars, Covered,
         CommitOffset, Below, WireCovered

LEMMA StreamOnlyStep ==
  ASSUME Inv, Idle \/ \E g \in Goroutines : Stream(g)
  PROVE  Inv'
<1>0. resets \in Nat /\ UNCHANGED ownVars
  BY DEF Inv, WireShape, Idle, Stream
<1>1. StreamShape
  BY DEF Inv
<1>2. Progress
  BY <1>0, KeepProgress DEF ownVars, trackerVars
<1>3. CASE Idle
  <2>1. StreamShape'
    BY <1>1, <1>3, IdleShape DEF Idle, IdleTimer
  <2> QED
    BY <1>0, <1>2, <1>3, <2>1, QuietStep
       DEF Idle, IdleTimer, ownVars, trackerVars, userVars, Inv, WireShape
<1>4. ASSUME StreamShape', toServer' \in [Streams -> Seq(Nat)],
             \A t \in Streams : toServer'[t] = toServer[t] \/ toServer'[t] = <<>>,
             fromServer' \in [Streams -> Seq(Nat \ {0})]
      PROVE  Inv'
  <2>1. WireShape'
    BY <1>0, <1>4 DEF Inv, WireShape, ownVars
  <2>2. resets' = 0 => /\ cursor <= CommitOffset(ackedPrefix)
                       /\ \A t \in Streams : Below(toServer'[t], CommitOffset(ackedPrefix))
    BY <1>0, <1>4, BelowEmpty DEF Inv, WireCovered, ownVars
  <2> QED
    BY <1>0, <1>4, <2>1, <2>2
       DEF Inv, ownVars, trackerVars, userVars, Covered, CommitOffset, Below, WireCovered
<1>5. /\ toServer \in [Streams -> Seq(Nat)] /\ fromServer \in [Streams -> Seq(Nat \ {0})]
      /\ <<>> \in Seq(Nat) /\ <<>> \in Seq(Nat \ {0})
  BY EmptySeq DEF Inv, WireShape
<1>6. ASSUME NEW g \in Goroutines, SilentStep(g), Supersede(g), UNCHANGED fromServer
      PROVE  Inv'
  <2>1. StreamShape'
    BY <1>1, <1>6, StepShape DEF SilentStep, ConnectStep
  <2> QED
    BY <1>4, <1>5, <1>6, <2>1 DEF Supersede
<1>7. ASSUME NEW g \in Goroutines, NEW s \in Streams, OpenStream(g, s)
      PROVE  Inv'
  <2>1. StreamShape'
    BY <1>1, <1>7, StepShape DEF OpenStream, ConnectStep
  <2> QED
    BY <1>4, <1>5, <1>7, <2>1 DEF OpenStream
<1> QED
  BY <1>3, <1>6, <1>7 DEF Stream

LEMMA InvStep == Inv /\ ResetCounted /\ [Next]_vars => Inv'
<1> SUFFICES ASSUME Inv, ResetCounted, [Next]_vars PROVE Inv'
  OBVIOUS
<1>0. go \in Owners /\ resets \in Nat /\ StreamShape
  BY DEF Inv, StreamShape, WireShape
<1>1. CASE Start
  <2>1. StreamShape'
    BY <1>0, <1>1, StartShape DEF Start
  <2>2. Progress
    BY <1>1, KeepProgress DEF Start, trackerVars
  <2> QED
    BY <1>0, <1>1, <2>1, <2>2, QuietStep
       DEF Start, trackerVars, userVars, wireVars, Inv, WireShape
<1>2. CASE Stop
  BY <1>2, ProcessProgress, InitiateStopStep DEF Stop
<1>3. CASE CommitterTerminate
  BY <1>3, ReleaseProgress, InitiateStopStep DEF CommitterTerminate, Release
<1>4. CASE BlockingReset \/ FlushWoken
  BY <1>4, ResetStep
<1>5. ASSUME NEW o \in Offsets, Deliver(o) \/ UserAck(o) PROVE Inv'
  BY <1>5, UserStep
<1>6. CASE PollCommits
  <2>1. Progress
    BY <1>6, ProcessProgress DEF PollCommits
  <2> QED
    BY <1>0, <1>6, <2>1, CommittingStep DEF PollCommits, userVars
<1>7. CASE OnTerminated
  <2>1. StreamShape'
    BY <1>0, <1>7, KeepShape DEF OnTerminated, muVars
  <2>2. Progress
    BY <1>7, ProcessProgress, ReleaseProgress DEF OnTerminated, InitiateTermination, Release
  <2> QED
    BY <1>0, <1>7, <2>1, <2>2, QuietStep
       DEF OnTerminated, InitiateTermination, userVars, wireVars, Inv, WireShape
<1>8. CASE Idle \/ \E g \in Goroutines : Stream(g)
  BY <1>8, StreamOnlyStep
<1>9. ASSUME NEW g \in Goroutines, Handler(g) PROVE Inv'
  BY <1>9, HandlerStep, ResponseStep DEF Handler
<1>10. ASSUME NEW s \in Streams, ServerCommit(s) PROVE Inv'
  BY <1>10, ServerStep
<1>11. CASE UNCHANGED vars
  <2>1. StreamShape' /\ Progress
    BY <1>0, <1>11, KeepShape, KeepProgress
       DEF vars, streamVars, muVars, ownVars, trackerVars
  <2> QED
    BY <1>0, <1>11, <2>1, QuietStep
       DEF vars, ownVars, trackerVars, userVars, wireVars, Inv, WireShape
<1> QED
  BY <1>1, <1>2, <1>3, <1>4, <1>5, <1>6, <1>7, <1>8, <1>9, <1>10, <1>11 DEF Next

LEMMA CountStep == Inv /\ ResetCounted /\ [Next]_vars => ResetCounted'
<1> SUFFICES ASSUME Inv, ResetCounted, [Next]_vars PROVE ResetCounted'
  OBVIOUS
<1>0. resets \in Nat /\ (Broadcast # "none" => resets > 0)
  BY DEF Inv, WireShape, Broadcast, ResetCounted
<1> USE DEF ResetCounted
<1>1. CASE BlockingReset
  BY <1>0, <1>1 DEF BlockingReset
<1>2. CASE FlushWoken
  BY <1>2 DEF FlushWoken
<1>3. CASE Stop \/ CommitterTerminate
  BY <1>0, <1>3 DEF Stop, CommitterTerminate, InitiateStop, WakeIfDone
<1>4. CASE OnTerminated
  BY <1>0, <1>4 DEF OnTerminated, InitiateTermination, WakeIfDone
<1>5. ASSUME NEW g \in Goroutines, Handler(g) PROVE ResetCounted'
  <2>1. CASE OnResponse(g)
    BY <1>0, <2>1 DEF OnResponse, InitiateTermination, WakeIfDone
  <2>2. CASE OnReconnecting(g) \/ OnResetState(g) \/ OnConnected(g)
    BY <2>2 DEF OnReconnecting, OnResetState, OnConnected, ownVars, committerVars
  <2> QED
    BY <1>5, <2>1, <2>2 DEF Handler
<1>6. ASSUME UNCHANGED <<resetting, resets>> PROVE ResetCounted'
  BY <1>6
<1>7. ASSUME NEW o \in Offsets, Deliver(o) \/ UserAck(o) PROVE ResetCounted'
  BY <1>7 DEF Deliver, UserAck, committerVars
<1>8. ASSUME NEW s \in Streams, ServerCommit(s) PROVE ResetCounted'
  BY <1>8 DEF ServerCommit, committerVars
<1>9. CASE Start \/ PollCommits \/ Idle \/ UNCHANGED vars
  BY <1>9 DEF Start, PollCommits, Idle, vars, ownVars, committerVars
<1>10. ASSUME NEW g \in Goroutines, Stream(g) PROVE ResetCounted'
  BY <1>10 DEF Stream, ownVars, committerVars
<1> QED
  BY <1>1, <1>2, <1>3, <1>4, <1>5, <1>7, <1>8, <1>9, <1>10 DEF Next

LEMMA InvHolds == Spec => [](Inv /\ ResetCounted)
<1>1. Init => Inv /\ ResetCounted
  BY InvInit DEF Init, ResetCounted
<1>2. Inv /\ ResetCounted /\ [Next]_vars => (Inv /\ ResetCounted)'
  BY InvStep, CountStep
<1> QED
  BY <1>1, <1>2, PTL DEF Spec

-----------------------------------------------------------------------------
(* The theorems *)

\* Whatever the number of messages, streams and goroutines, and however acks,
\* polls, reconnections, releases and resets interleave, neither the confirmed
\* offset nor a pending one is beyond a message that the user has not acked.
THEOREM TrackersFollowTheUser == Spec => []TrackedOnlyAcked
<1>1. Inv => TrackedOnlyAcked
  <2> SUFFICES ASSUME Inv, NEW o \in unacked
               PROVE  lastConfirmed <= o /\ \A i \in DOMAIN pending : pending[i] <= o
    BY DEF TrackedOnlyAcked
  <2>1. ackedPrefix \in Cursors /\ o \in Nat /\ ackedPrefix < o
    BY DEF Inv, Tracked
  <2>2. CommitOffset(ackedPrefix) \in Int /\ CommitOffset(ackedPrefix) <= o
    BY <2>1 DEF CommitOffset, Cursors, nilCursorOffset
  <2>3. lastConfirmed \in Int /\ lastConfirmed <= CommitOffset(ackedPrefix)
    BY DEF Inv, Covered, Cursors, nilCursorOffset
  <2>4. ASSUME NEW i \in DOMAIN pending PROVE pending[i] <= o
    <3>1. pending \in Seq(Nat) /\ i \in 1..Len(pending)
      BY LenProperties DEF Inv, Covered, Below
    <3>2. pending[i] \in Nat /\ pending[i] <= CommitOffset(ackedPrefix)
      BY <3>1, ElementOfSeq DEF Inv, Covered, Below
    <3> QED
      BY <2>1, <2>2, <3>2
  <2> QED
    BY <2>1, <2>2, <2>3, <2>4
<1> QED
  BY <1>1, InvHolds, PTL

\* Until the first seek of the subscription, the server's cursor is never
\* beyond a message that the user has not acked.
THEOREM CommitsAreAcked == Spec => [](resets = 0 => AckedBeforeCommitted)
<1>1. Inv => (resets = 0 => AckedBeforeCommitted)
  <2> SUFFICES ASSUME Inv, resets = 0, NEW o \in unacked PROVE cursor <= o
    BY DEF AckedBeforeCommitted
  <2>1. ackedPrefix \in Cursors /\ o \in Nat /\ ackedPrefix < o
    BY DEF Inv, Tracked
  <2>2. CommitOffset(ackedPrefix) \in Int /\ CommitOffset(ackedPrefix) <= o
    BY <2>1 DEF CommitOffset, Cursors, nilCursorOffset
  <2>3. cursor \in Int /\ cursor <= CommitOffset(ackedPrefix)
    BY DEF Inv, WireShape, WireCovered, Cursors, nilCursorOffset
  <2> QED
    BY <2>1, <2>2, <2>3
<1> QED
  BY <1>1, InvHolds, PTL
=============================================================================
