--------------------------- MODULE AckTrackerProofs ---------------------------
(***************************************************************************)
(* What the operators of AckTracker preserve.                              *)
(***************************************************************************)
EXTENDS AckTracker, SequenceTheorems, TLAPS

\* How the acks of a tracker relate to the user: last is the last message that
\* was delivered, user are the delivered messages not yet acked.  The acks are
\* ordered and beyond the acked prefix; while acks are pushed, each unacked
\* message has its ack in the tracker, which therefore is never passed over.
Tracked(acks, prefix, push, last, user) ==
  /\ acks \in Seq(Acks)
  /\ prefix \in Cursors
  /\ last \in Cursors
  /\ user \in SUBSET Nat
  /\ prefix <= last
  /\ \A i, j \in 1..Len(acks) : i < j => acks[i].offset < acks[j].offset
  /\ \A i \in 1..Len(acks) : prefix < acks[i].offset /\ acks[i].offset <= last
  /\ \A o \in user : prefix < o /\ o <= last
  /\ push => \A o \in user : \E i \in 1..Len(acks) : acks[i].offset = o /\ ~acks[i].acked
  /\ ~push => acks = <<>>

\* Processing the acked run moves the prefix forward, but not to an unacked
\* message.
LEMMA ProcessPrefix ==
  ASSUME NEW last, NEW user, NEW n \in 0..Len(outstanding), AckedRun(n),
         Tracked(outstanding, ackedPrefix, enablePush, last, user)
  PROVE  /\ PrefixAfter(n) \in Cursors
         /\ ackedPrefix <= PrefixAfter(n) /\ PrefixAfter(n) <= last
         /\ \A o \in user : PrefixAfter(n) < o
<1>1. CASE n = 0
  BY <1>1 DEF PrefixAfter, Tracked, Cursors, nilCursorOffset
<1>2. CASE n # 0
  <2> USE DEF Tracked, Acks, Cursors, nilCursorOffset
  <2>0. outstanding \in Seq(Acks) /\ Len(outstanding) \in Nat
    BY LenProperties
  <2>1. Len(outstanding) \in Nat /\ n \in 1..Len(outstanding) /\ outstanding[n] \in Acks
    <3>1. n \in 1..Len(outstanding)
      BY <1>2, <2>0
    <3> QED
      BY <2>0, <3>1, ElementOfSeq
  <2>2. PrefixAfter(n) = outstanding[n].offset /\ outstanding[n].offset \in Nat
    BY <1>2, <2>1 DEF PrefixAfter
  <2>3. ASSUME NEW o \in user PROVE outstanding[n].offset < o
    <3>1. outstanding # <<>> /\ enablePush
      BY <2>1, EmptySeq
    <3>2. PICK i \in 1..Len(outstanding) : outstanding[i].offset = o /\ ~outstanding[i].acked
      BY <2>3, <3>1
    <3>3. n < i
      BY <2>1, <3>2 DEF AckedRun
    <3> QED
      BY <2>1, <3>2, <3>3
  <2> QED
    BY <2>1, <2>2, <2>3
<1> QED
  BY <1>1, <1>2

LEMMA ProcessTracked ==
  ASSUME NEW last, NEW user, NEW n \in 0..Len(outstanding), AckedRun(n),
         Tracked(outstanding, ackedPrefix, enablePush, last, user)
  PROVE  Tracked(Remaining(n), PrefixAfter(n), enablePush, last, user)
<1>1. outstanding \in Seq(Acks) /\ Len(outstanding) \in Nat
  BY LenProperties DEF Tracked
<1>2. /\ Remaining(n) \in Seq(Acks)
      /\ Len(Remaining(n)) = Len(outstanding) - n
      /\ \A i \in 1..Len(outstanding) - n : Remaining(n)[i] = outstanding[n + i]
  <2>1. \A i \in (n + 1)..Len(outstanding) : outstanding[i] \in Acks
    BY <1>1, ElementOfSeq
  <2> QED
    BY <1>1, <2>1, SubSeqProperties DEF Remaining
<1>3. ASSUME NEW i \in 1..Len(Remaining(n)) PROVE PrefixAfter(n) < Remaining(n)[i].offset
  <2>1. n + i \in 1..Len(outstanding) /\ outstanding[n + i] \in Acks
    BY <1>1, <1>2, ElementOfSeq
  <2> QED
    BY <1>1, <1>2, <2>1 DEF PrefixAfter, Tracked
<1>4. ASSUME enablePush, NEW o \in user
      PROVE  \E i \in 1..Len(Remaining(n)) :
               Remaining(n)[i].offset = o /\ ~Remaining(n)[i].acked
  <2>1. PICK i \in 1..Len(outstanding) : outstanding[i].offset = o /\ ~outstanding[i].acked
    BY <1>4 DEF Tracked
  <2>2. n < i
    BY <1>1, <2>1 DEF AckedRun
  <2>3. i - n \in 1..Len(Remaining(n)) /\ Remaining(n)[i - n] = outstanding[i]
    BY <1>1, <1>2, <2>2
  <2> QED
    BY <2>1, <2>3
<1>5. ~enablePush => Remaining(n) = <<>>
  BY <1>1, <1>2, SubSeqEmpty, EmptySeq DEF Tracked, Remaining
<1>6. /\ PrefixAfter(n) \in Cursors /\ PrefixAfter(n) <= last
      /\ \A o \in user : PrefixAfter(n) < o
  BY ProcessPrefix
<1>7. /\ \A i, j \in 1..Len(Remaining(n)) :
           i < j => Remaining(n)[i].offset < Remaining(n)[j].offset
      /\ \A i \in 1..Len(Remaining(n)) : Remaining(n)[i].offset <= last
  <2>1. \A i \in 1..Len(Remaining(n)) :
          n + i \in 1..Len(outstanding) /\ Remaining(n)[i] = outstanding[n + i]
    BY <1>1, <1>2
  <2>2. ASSUME NEW i \in 1..Len(Remaining(n)), NEW j \in 1..Len(Remaining(n)), i < j
        PROVE  Remaining(n)[i].offset < Remaining(n)[j].offset
    <3> DEFINE k == n + i
               l == n + j
    <3>1. k < l /\ k \in 1..Len(outstanding) /\ l \in 1..Len(outstanding)
      BY <1>1, <1>2, <2>2
    <3>2. Remaining(n)[i] = outstanding[k] /\ Remaining(n)[j] = outstanding[l]
      BY <2>1
    <3> HIDE DEF k, l
    <3>3. outstanding[k].offset < outstanding[l].offset
      BY <3>1 DEF Tracked
    <3> QED
      BY <3>2, <3>3
  <2>3. \A i \in 1..Len(outstanding) : outstanding[i].offset <= last
    BY DEF Tracked
  <2> QED
    BY <2>1, <2>2, <2>3
<1> QED
  BY <1>2, <1>3, <1>4, <1>5, <1>6, <1>7 DEF Tracked

LEMMA ReleaseTracked ==
  ASSUME NEW last, NEW user, NEW n \in 0..Len(outstanding), AckedRun(n),
         Tracked(outstanding, ackedPrefix, enablePush, last, user)
  PROVE  Tracked(<<>>, PrefixAfter(n), FALSE, last, user)
<1>1. /\ PrefixAfter(n) \in Cursors /\ PrefixAfter(n) <= last
      /\ \A o \in user : PrefixAfter(n) < o
  BY ProcessPrefix
<1>2. <<>> \in Seq(Acks) /\ 1..Len(<<>>) = {}
  BY EmptySeq
<1>3. last \in Cursors /\ user \in SUBSET Nat /\ \A o \in user : o <= last
  BY DEF Tracked
<1> QED
  BY <1>1, <1>2, <1>3 DEF Tracked

LEMMA PushTracked ==
  ASSUME NEW last, NEW user, NEW o \in Nat, last < o, Push(o),
         Tracked(outstanding, ackedPrefix, enablePush, last, user)
  PROVE  Tracked(outstanding', ackedPrefix, enablePush, o, user \cup {o})
<1> DEFINE ack == [offset |-> o, acked |-> FALSE]
<1>0. ack \in Acks /\ ack.offset = o /\ ~ack.acked
  BY DEF Acks
<1>1. outstanding \in Seq(Acks) /\ Len(outstanding) \in Nat
  BY LenProperties DEF Tracked
<1>2. CASE ~enablePush
  <2>1. outstanding' = outstanding
    BY <1>2 DEF Push
  <2> QED
    BY <1>1, <1>2, <2>1 DEF Tracked, Cursors, nilCursorOffset
<1>3. CASE enablePush
  <2>1. outstanding' = Append(outstanding, ack)
    <3>1. ackedPrefix < o
      BY DEF Tracked, Cursors, nilCursorOffset
    <3>2. outstanding = <<>> \/ outstanding[Len(outstanding)].offset < o
      <4> SUFFICES ASSUME outstanding # <<>> PROVE outstanding[Len(outstanding)].offset < o
        OBVIOUS
      <4>1. Len(outstanding) \in 1..Len(outstanding) /\ outstanding[Len(outstanding)] \in Acks
        BY <1>1, EmptySeq, ElementOfSeq
      <4> QED
        BY <4>1 DEF Tracked, Acks, Cursors, nilCursorOffset
    <3> QED
      BY <1>3, <3>1, <3>2 DEF Push
  <2>2. /\ outstanding' \in Seq(Acks)
        /\ Len(outstanding') = Len(outstanding) + 1
        /\ outstanding'[Len(outstanding) + 1] = ack
        /\ \A i \in 1..Len(outstanding) : outstanding'[i] = outstanding[i]
    BY <1>0, <1>1, <2>1, AppendProperties
  <2>3. \A i \in 1..Len(outstanding) : outstanding[i] \in Acks
    BY <1>1, ElementOfSeq
  <2> HIDE DEF ack
  <2>t. /\ ackedPrefix \in Int /\ last \in Int /\ ackedPrefix <= last
        /\ \A i \in 1..Len(outstanding) :
             /\ outstanding[i].offset \in Nat
             /\ ackedPrefix < outstanding[i].offset /\ outstanding[i].offset <= last
    BY <2>3 DEF Tracked, Acks, Cursors, nilCursorOffset
  <2>4. \A i, j \in 1..Len(outstanding') :
          i < j => outstanding'[i].offset < outstanding'[j].offset
    <3> SUFFICES ASSUME NEW i \in 1..Len(outstanding'), NEW j \in 1..Len(outstanding'), i < j
                 PROVE  outstanding'[i].offset < outstanding'[j].offset
      OBVIOUS
    <3>1. i \in 1..Len(outstanding)
      BY <1>1, <2>2
    <3>2. CASE j = Len(outstanding) + 1
      BY <1>0, <2>2, <2>t, <3>1, <3>2
    <3>3. CASE j # Len(outstanding) + 1
      <4>1. j \in 1..Len(outstanding)
        BY <1>1, <2>2, <3>3
      <4> QED
        BY <2>2, <3>1, <4>1 DEF Tracked
    <3> QED
      BY <3>2, <3>3
  <2>5. \A i \in 1..Len(outstanding') :
          ackedPrefix < outstanding'[i].offset /\ outstanding'[i].offset <= o
    <3> SUFFICES ASSUME NEW i \in 1..Len(outstanding')
                 PROVE  ackedPrefix < outstanding'[i].offset /\ outstanding'[i].offset <= o
      OBVIOUS
    <3>1. CASE i = Len(outstanding) + 1
      BY <1>0, <2>2, <2>t, <3>1
    <3>2. CASE i # Len(outstanding) + 1
      <4>1. i \in 1..Len(outstanding)
        BY <1>1, <2>2, <3>2
      <4> QED
        BY <2>2, <2>t, <4>1
    <3> QED
      BY <3>1, <3>2
  <2>6. ASSUME NEW u \in user \cup {o}
        PROVE  \E i \in 1..Len(outstanding') :
                 outstanding'[i].offset = u /\ ~outstanding'[i].acked
    <3>1. CASE u = o
      BY <1>0, <1>1, <2>2, <3>1
    <3>2. CASE u \in user
      <4>1. PICK i \in 1..Len(outstanding) :
              outstanding[i].offset = u /\ ~outstanding[i].acked
        BY <1>3, <3>2 DEF Tracked
      <4> QED
        BY <1>1, <2>2, <4>1
    <3> QED
      BY <2>6, <3>1, <3>2
  <2>7. user \in SUBSET Nat /\ \A u \in user : ackedPrefix < u /\ u <= last
    BY DEF Tracked
  <2>8. \A u \in user \cup {o} : ackedPrefix < u /\ u <= o
    BY <2>t, <2>7
  <2>9. ackedPrefix \in Cursors /\ o \in Cursors /\ ackedPrefix <= o /\ user \cup {o} \in SUBSET Nat
    BY <2>t, <2>7 DEF Tracked, Cursors
  <2> QED
    BY <1>3, <2>2, <2>4, <2>5, <2>6, <2>8, <2>9 DEF Tracked
<1> QED
  BY <1>2, <1>3

LEMMA AckTracked ==
  ASSUME NEW last, NEW user, NEW o, Ack(o),
         Tracked(outstanding, ackedPrefix, enablePush, last, user)
  PROVE  Tracked(outstanding', ackedPrefix, enablePush, last, user \ {o})
<1>1. outstanding \in Seq(Acks) /\ Len(outstanding) \in Nat
      /\ DOMAIN outstanding = 1..Len(outstanding)
  BY LenProperties DEF Tracked
<1>2. \A i \in 1..Len(outstanding) :
        /\ outstanding'[i] \in Acks
        /\ outstanding'[i].offset = outstanding[i].offset
        /\ outstanding[i].offset # o => outstanding'[i] = outstanding[i]
  <2> SUFFICES ASSUME NEW i \in 1..Len(outstanding)
               PROVE  /\ outstanding'[i] \in Acks
                      /\ outstanding'[i].offset = outstanding[i].offset
                      /\ outstanding[i].offset # o => outstanding'[i] = outstanding[i]
    OBVIOUS
  <2>1. outstanding[i] \in Acks
    BY <1>1, ElementOfSeq
  <2>2. outstanding'[i] = IF outstanding[i].offset = o
                          THEN [outstanding[i] EXCEPT !.acked = TRUE] ELSE outstanding[i]
    BY <1>1 DEF Ack
  <2> QED
    BY <2>1, <2>2 DEF Acks
<1>3. outstanding' \in [1..Len(outstanding) -> Acks]
  BY <1>1, <1>2 DEF Ack
<1>4. outstanding' \in Seq(Acks) /\ Len(outstanding') = Len(outstanding)
  <2>1. outstanding' \in Seq(Acks)
    BY <1>1, <1>3, SeqDef
  <2> QED
    BY <1>1, <1>3, <2>1, LenProperties
<1>5. ~enablePush => outstanding' = <<>>
  BY <1>1, <1>4, EmptySeq DEF Tracked
<1>6. ASSUME enablePush, NEW u \in user \ {o}
      PROVE  \E i \in 1..Len(outstanding') :
               outstanding'[i].offset = u /\ ~outstanding'[i].acked
  <2>1. PICK i \in 1..Len(outstanding) : outstanding[i].offset = u /\ ~outstanding[i].acked
    BY <1>6 DEF Tracked
  <2> QED
    BY <1>2, <1>4, <2>1
<1>7. /\ \A i, j \in 1..Len(outstanding') :
           i < j => outstanding'[i].offset < outstanding'[j].offset
      /\ \A i \in 1..Len(outstanding') :
           ackedPrefix < outstanding'[i].offset /\ outstanding'[i].offset <= last
  BY <1>2, <1>4 DEF Tracked
<1>8. /\ ackedPrefix \in Cursors /\ last \in Cursors /\ ackedPrefix <= last
      /\ user \ {o} \in SUBSET Nat
      /\ \A u \in user \ {o} : ackedPrefix < u /\ u <= last
  BY DEF Tracked
<1> QED
  BY <1>4, <1>5, <1>6, <1>7, <1>8 DEF Tracked

\* A later prefix allows every commit that an earlier one did.
LEMMA CommitOffsetMonotonic ==
  ASSUME NEW p \in Cursors, NEW q \in Cursors, p <= q
  PROVE  /\ CommitOffset(p) \in Cursors
         /\ CommitOffset(p) <= CommitOffset(q)
BY DEF CommitOffset, Cursors, nilCursorOffset

LEMMA NextOffsetIsCommit ==
  ASSUME NEW p \in Cursors, NEW offsets, NextOffset(p, offsets) # nilCursorOffset
  PROVE  NextOffset(p, offsets) = CommitOffset(p) /\ CommitOffset(p) \in Nat
BY DEF NextOffset, CommitOffset, Cursors, nilCursorOffset
=============================================================================
