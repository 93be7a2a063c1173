------------------------------ MODULE AckTracker ------------------------------
(***************************************************************************)
(* The ack tracker and the commit cursor tracker of a subscriber           *)
(* (pubsublite/internal/wire/acks.go).  An outstanding ack is the offset   *)
(* of a message given to the user and whether the user has acked it.  An   *)
(* ack that has left the tracker was cleared: acking it has no effect.     *)
(***************************************************************************)
EXTENDS Integers, Sequences

VARIABLES
  outstanding,    \* ackTracker.outstandingAcks
  ackedPrefix,    \* ackTracker.ackedPrefixOffset
  enablePush,     \* ackTracker.enablePush
  lastConfirmed,  \* commitCursorTracker.lastConfirmedOffset
  pending         \* commitCursorTracker.pendingOffsets

trackerVars == <<outstanding, ackedPrefix, enablePush, lastConfirmed, pending>>

nilCursorOffset == -1

Acks == [offset : Nat, acked : BOOLEAN]

Cursors == Nat \cup {nilCursorOffset}

TrackerTypeOK ==
  /\ outstanding \in Seq(Acks)
  /\ ackedPrefix \in Cursors
  /\ enablePush \in BOOLEAN
  /\ lastConfirmed \in Cursors
  /\ pending \in Seq(Nat)

TrackerInit ==
  /\ outstanding = <<>>
  /\ ackedPrefix = nilCursorOffset
  /\ enablePush = TRUE
  /\ lastConfirmed = nilCursorOffset
  /\ pending = <<>>

\* Mutant: an unacked message is skipped.
AckedRunSkips(n) ==
  /\ n \in 0..Len(outstanding)
  /\ n > 0 => outstanding[n].acked

\* unsafeProcessAcks removes the first n acks: the longest prefix of
\* outstanding acks that the user has acked.
AckedRun(n) ==
  /\ n \in 0..Len(outstanding)
  /\ \A i \in 1..n : outstanding[i].acked
  /\ n < Len(outstanding) => ~outstanding[n + 1].acked

PrefixAfter(n) == IF n = 0 THEN ackedPrefix ELSE outstanding[n].offset

Remaining(n) == SubSeq(outstanding, n + 1, Len(outstanding))

\* Mutant: the first unacked message is committed too.
CommitOffsetPast(prefix) == IF prefix = nilCursorOffset THEN nilCursorOffset ELSE prefix + 2

\* CommitOffset: "from last acked to first unacked, which is the commit offset"
CommitOffset(prefix) == IF prefix = nilCursorOffset THEN nilCursorOffset ELSE prefix + 1

LastPending(offsets) ==
  IF offsets = <<>> THEN nilCursorOffset ELSE offsets[Len(offsets)]

\* NextOffset, given the processed prefix and the pending offsets
NextOffset(prefix, offsets) ==
  IF CommitOffset(prefix) <= lastConfirmed \/ CommitOffset(prefix) <= LastPending(offsets)
  THEN nilCursorOffset
  ELSE CommitOffset(prefix)

UpToDate(prefix, acks, confirmed) == CommitOffset(prefix) <= confirmed /\ acks = <<>>

\* Push drops the ack once the tracker was released, and refuses an ack that is
\* out of order; the caller ignores the error.
Push(o) ==
  outstanding' =
    IF /\ enablePush
       /\ o > ackedPrefix
       /\ outstanding = <<>> \/ o > outstanding[Len(outstanding)].offset
    THEN Append(outstanding, [offset |-> o, acked |-> FALSE])
    ELSE outstanding

\* ackConsumer.Ack of the message at offset o
Ack(o) ==
  outstanding' = [i \in DOMAIN outstanding |->
    IF outstanding[i].offset = o THEN [outstanding[i] EXCEPT !.acked = TRUE]
    ELSE outstanding[i]]

\* Release processes the acked prefix and discards the other acks.
Release ==
  \E n \in 0..Len(outstanding) :
    /\ AckedRun(n)
    /\ ackedPrefix' = PrefixAfter(n)
    /\ outstanding' = <<>>
    /\ enablePush' = FALSE

\* commitCursorTracker.Reset and ackTracker.Reset
TrackerReset ==
  /\ outstanding' = <<>>
  /\ ackedPrefix' = nilCursorOffset
  /\ enablePush' = TRUE
  /\ lastConfirmed' = nilCursorOffset
  /\ pending' = <<>>

\* Mutant: a response confirms all pending commits.
ConfirmAllOffsets(n) ==
  /\ n <= Len(pending)
  /\ lastConfirmed' = pending[Len(pending)]
  /\ pending' = <<>>

\* ConfirmOffsets of n pending offsets, which must have been sent
ConfirmOffsets(n) ==
  /\ n <= Len(pending)
  /\ lastConfirmed' = pending[n]
  /\ pending' = SubSeq(pending, n + 1, Len(pending))
=============================================================================
