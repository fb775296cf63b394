-------------------------- MODULE LogicAnalyzerProof --------------------------
(***************************************************************************)
(* The lock-free ring of LogicAnalyzer is free of data races and is a      *)
(* bounded FIFO, for every ring size, every counter width and every number *)
(* of samples: proved with TLAPS.                                          *)
(*                                                                         *)
(* The argument.  Between the test for room and the publication the slot   *)
(* after g_head is not g_tail, since g_tail only moves away from it; while *)
(* the analyzer reads, the slot after cur is g_tail.  So g_head # cur.     *)
(* The analyzer releases a slot only if there is one: what is left of its  *)
(* batch never exceeds what is in the ring.                                *)
(***************************************************************************)
EXTENDS LogicAnalyzer, SequenceTheorems, TLAPS

Writing == spc \in {"level", "timestamp", "publish"}

\* Room found by the sampler stays: the analyzer can only make more of it.
RoomKept == Writing => Succ(g_head) # g_tail

\* The slot being read is the one released last.
ReadsReleased == Reading => Succ(cur) = g_tail

\* Slots of the batch that the analyzer has not released yet
batch_left == IF snapshot >= g_tail THEN snapshot - g_tail
                                    ELSE snapshot - g_tail + BUF_SIZE

\* They all hold published samples.
BatchPublished == apc = "loop" \/ Reading => batch_left <= buf_count

RingInv == TypeOK /\ RoomKept /\ ReadsReleased /\ BatchPublished

-----------------------------------------------------------------------------
(* The index arithmetic *)

\* The slot after a slot is a slot, and Succ is injective.
LEMMA SuccSlot ==
    /\ \A x \in Slots : Succ(x) \in Slots
    /\ \A x, y \in Slots : Succ(x) = Succ(y) => x = y
  BY LogicAnalyzerAssumption DEF Slots, Succ

\* A counter that wraps stays in its range.
LEMMA WrapRange == \A n \in Int : Wrap(n) \in Words
  BY LogicAnalyzerAssumption DEF Wrap, Words

-----------------------------------------------------------------------------
(* The invariant *)

LEMMA InitRing == Init => RingInv
  BY LogicAnalyzerAssumption
     DEF Init, RingInv, TypeOK, RoomKept, ReadsReleased, BatchPublished, Writing,
         Reading, batch_left, buf_count, Zero, Slots, Samples, Levels, Sums, Words

\* Every step keeps the types.
LEMMA NextTypes == TypeOK /\ [Next]_vars => TypeOK'
  <1> SUFFICES ASSUME TypeOK, [Next]_vars PROVE TypeOK'
    OBVIOUS
  <1> USE DEF TypeOK, ring, sampVs, anaVs, stats
  <1>1. CASE Sample
    BY <1>1, WrapRange DEF Sample, Samples, Words
  <1>2. CASE HasRoom
    BY <1>2 DEF HasRoom
  <1>3. CASE Drop
    BY <1>3, WrapRange DEF Drop, Words
  <1>4. CASE StoreLevel
    BY <1>4 DEF StoreLevel, Samples
  <1>5. CASE StoreTimestamp
    BY <1>5 DEF StoreTimestamp, Samples
  <1>6. CASE Publish
    BY <1>6, SuccSlot DEF Publish
  <1>7. CASE Poll
    BY <1>7 DEF Poll
  <1>8. CASE DelayEnds
    BY <1>8 DEF DelayEnds
  <1>9. CASE Snapshot
    BY <1>9 DEF Snapshot
  <1>10. CASE Release
    BY <1>10, SuccSlot DEF Release
  <1>11. CASE BatchEnds
    BY <1>11 DEF BatchEnds
  <1>12. CASE Compare
    BY <1>12 DEF Compare
  <1>13. CASE Measure
    <2>1. Wrap(g_buf[cur].timestamp - prev.timestamp) \in Words
      BY WrapRange DEF Samples, Slots
    <2>2. \A n \in Words, s \in Sums : Add(s, n) \in Sums
      BY WrapRange DEF Add, Sums, Words
    <2>3. high' \in Sums /\ low' \in Sums
      BY <1>13, <2>1, <2>2 DEF Measure
    <2> QED
      BY <1>13, <2>3, WrapRange DEF Measure, Words
  <1>14. CASE Remember
    BY <1>14 DEF Remember
  <1>15. CASE UNCHANGED vars
    BY <1>15 DEF vars
  <1> QED
    BY <1>1, <1>2, <1>3, <1>4, <1>5, <1>6, <1>7, <1>8, <1>9, <1>10, <1>11,
       <1>12, <1>13, <1>14, <1>15 DEF Next, Sampler, Store, Analyzer

\* Only a publication, a release and a snapshot move an index; the sampler
\* and the analyzer move their own towards the other's, never past it.
LEMMA NextRing == RingInv /\ [Next]_vars => RingInv'
  <1> SUFFICES ASSUME RingInv, [Next]_vars
               PROVE  RoomKept' /\ ReadsReleased' /\ BatchPublished'
    BY NextTypes DEF RingInv
  <1> USE LogicAnalyzerAssumption
      DEF RingInv, TypeOK, RoomKept, ReadsReleased, BatchPublished, Writing,
          Reading, batch_left, buf_count, Slots, ring, sampVs, anaVs, stats
  <1>1. CASE Sample
    BY <1>1 DEF Sample, Succ
  <1>2. CASE HasRoom
    BY <1>2 DEF HasRoom, Succ
  <1>3. CASE Drop
    BY <1>3 DEF Drop, Succ
  <1>4. CASE StoreLevel \/ StoreTimestamp
    BY <1>4 DEF StoreLevel, StoreTimestamp, Succ
  <1>5. CASE Publish
    BY <1>5, SMTT(60) DEF Publish, Succ
  <1>6. CASE Poll \/ DelayEnds \/ BatchEnds
    BY <1>6 DEF Poll, DelayEnds, BatchEnds, Succ
  <1>7. CASE Snapshot
    BY <1>7 DEF Snapshot, Succ
  <1>8. CASE Release
    <2> USE <1>8 DEF Release, Succ
    <2>1. g_head # g_tail
      OBVIOUS
    <2>2. RoomKept'
      BY <2>1
    <2>3. ReadsReleased'
      OBVIOUS
    <2>4. BatchPublished'
      BY <2>1, SMTT(60)
    <2> QED
      BY <2>2, <2>3, <2>4
  <1>9. CASE Compare \/ Measure \/ Remember
    BY <1>9 DEF Compare, Measure, Remember, Succ
  <1>10. CASE UNCHANGED vars
    BY <1>10 DEF vars, Succ
  <1> QED
    BY <1>1, <1>2, <1>3, <1>4, <1>5, <1>6, <1>7, <1>8, <1>9, <1>10
       DEF Next, Sampler, Store, Analyzer

LEMMA RingInvariant == Spec => []RingInv
  BY InitRing, NextRing, PTL DEF Spec

\* The slot being read and the slot being written have different successors.
LEMMA NoRace == RingInv => NoDataRace
  BY DEF RingInv, TypeOK, RoomKept, ReadsReleased, NoDataRace, Writing

\* The sampler never writes the slot the analyzer reads, although the slot was
\* given back before it is read and nothing is locked; all variables keep
\* their types.
THEOREM RaceFree == Spec => [](TypeOK /\ NoDataRace)
  <1>1. RingInv => TypeOK /\ NoDataRace
    BY NoRace DEF RingInv
  <1> QED
    BY <1>1, RingInvariant, PTL

-----------------------------------------------------------------------------
(* The ring is a bounded FIFO. *)

\* Slot k of what is unread
Position(k) == IF g_tail + k - 1 < BUF_SIZE THEN g_tail + k - 1
                                            ELSE g_tail + k - 1 - BUF_SIZE
last == IF Reading THEN g_buf[cur] ELSE prev

\* Unread is the sequence of the buf_count samples from g_tail on.
UnreadRuns ==
    /\ Unread \in Seq(Samples)
    /\ Len(Unread) = buf_count
    /\ buf_count \in 0..(BUF_SIZE - 1)
    /\ \A k \in 1..buf_count :
        Position(k) \in Slots /\ Unread[k] = g_buf[Position(k)]

LEMMA UnreadIsSeq == RingInv => UnreadRuns
  <1> SUFFICES ASSUME RingInv PROVE UnreadRuns
    OBVIOUS
  <1> USE LogicAnalyzerAssumption DEF RingInv, TypeOK, Slots
  <1>1. buf_count \in 0..(BUF_SIZE - 1)
    BY DEF buf_count
  <1>2. \A k \in 1..buf_count : Position(k) \in Slots
    BY <1>1 DEF Position
  <1>3. Unread = [k \in 1..buf_count |-> g_buf[Position(k)]]
    BY DEF Unread, Position
  <1>4. Unread \in [1..buf_count -> Samples]
    BY <1>2, <1>3
  <1>5. Unread \in Seq(Samples) /\ Len(Unread) = buf_count
    BY <1>1, <1>4
  <1> QED
    BY <1>1, <1>2, <1>3, <1>5 DEF UnreadRuns

\* Storing into the slot after the last leaves what is unread, and what is
\* being read, as it was.
LEMMA StoreInvisible ==
    ASSUME RingInv, RingInv', StoreLevel \/ StoreTimestamp
    PROVE  UNCHANGED <<Unread, last>>
  <1> USE LogicAnalyzerAssumption DEF RingInv, TypeOK, Slots
  <1>1. \A p \in Slots : p # g_head => g_buf'[p] = g_buf[p]
    BY DEF StoreLevel, StoreTimestamp
  <1>2. ASSUME NEW k \in 1..buf_count
        PROVE  Position(k) \in Slots /\ Position(k) # g_head
    <2>1. CASE g_head >= g_tail
      BY <2>1 DEF Position, buf_count
    <2>2. CASE g_head < g_tail
      BY <2>2, SMTT(60) DEF Position, buf_count
    <2> QED
      BY <2>1, <2>2
  <1>3. UNCHANGED Unread
    <2>1. buf_count' = buf_count /\ g_tail' = g_tail
      BY DEF buf_count, StoreLevel, StoreTimestamp
    <2>2. \A k \in 1..buf_count : g_buf'[Position(k)] = g_buf[Position(k)]
      BY <1>1, <1>2
    <2> QED
      BY <2>1, <2>2 DEF Unread, Position
  <1>4. UNCHANGED last
    <2>1. Reading => cur # g_head
      BY NoRace DEF NoDataRace, StoreLevel, StoreTimestamp
    <2> QED
      BY <2>1, <1>1 DEF last, Reading, StoreLevel, StoreTimestamp, anaVs
  <1> QED
    BY <1>3, <1>4

\* A publication appends the sample in the slot at g_head.
LEMMA PublishAccepts ==
    ASSUME RingInv, RingInv', Publish
    PROVE  Fifo!Accept
  <1> USE LogicAnalyzerAssumption DEF RingInv, TypeOK, Slots
  <1>1. /\ buf_count' = buf_count + 1 /\ buf_count + 1 \in 0..(BUF_SIZE - 1)
        /\ Position(buf_count + 1) = g_head
    <2>1. Succ(g_head) # g_tail /\ g_head' = Succ(g_head) /\ g_tail' = g_tail
      BY DEF Publish, RoomKept, Writing
    <2>2. CASE g_head >= g_tail
      BY <2>1, <2>2 DEF buf_count, Position, Succ
    <2>3. CASE g_head < g_tail
      BY <2>1, <2>3, SMTT(60) DEF buf_count, Position, Succ
    <2> QED
      BY <2>2, <2>3
  <1>2. \A k : Position(k)' = Position(k)
    BY DEF Position, Publish
  <1>runs. UnreadRuns /\ UnreadRuns'
    BY UnreadIsSeq, PTL
  <1> USE <1>runs DEF UnreadRuns
  <1>3. Unread' = Append(Unread, g_buf[g_head])
    <2> DEFINE app == Append(Unread, g_buf[g_head])
    <2>1. g_buf[g_head] \in Samples
      OBVIOUS
    <2>2. app \in Seq(Samples) /\ Len(app) = buf_count + 1
      BY <2>1, AppendProperties
    <2>3. Unread' \in Seq(Samples) /\ Len(Unread') = buf_count + 1
      BY <1>1
    <2>4. ASSUME NEW k \in 1..(buf_count + 1) PROVE Unread'[k] = app[k]
      <3>1. Unread'[k] = g_buf[Position(k)]
        BY <1>1, <1>2 DEF Publish
      <3>2. CASE k = buf_count + 1
        BY <3>1, <3>2, <1>1, <2>1, AppendProperties
      <3>3. CASE k \in 1..buf_count
        BY <3>1, <3>3, <2>1, AppendProperties
      <3> QED
        BY <3>2, <3>3
    <2> QED
      BY <2>2, <2>3, <2>4, SeqEqual
  <1>4. UNCHANGED last
    BY DEF last, Reading, Publish, anaVs
  <1>5. Len(Unread) < BUF_SIZE - 1
    BY <1>1
  <1> QED
    BY <1>3, <1>4, <1>5 DEF Fifo!Accept, last

\* A release takes the oldest sample in hand.
LEMMA ReleaseDelivers ==
    ASSUME RingInv, RingInv', Release
    PROVE  Fifo!Deliver
  <1> USE LogicAnalyzerAssumption DEF RingInv, TypeOK, Slots
  <1>1. buf_count \in 1..(BUF_SIZE - 1) /\ buf_count' = buf_count - 1
    BY SMTT(60) DEF Release, BatchPublished, batch_left, buf_count, Succ
  <1>2. \A k \in 1..(buf_count - 1) : Position(k)' = Position(k + 1)
    BY SMTT(60) DEF Position, Release, Succ, buf_count
  <1>runs. UnreadRuns /\ UnreadRuns'
    BY UnreadIsSeq, PTL
  <1> USE <1>runs DEF UnreadRuns
  <1>3. Unread # <<>> /\ Head(Unread) = g_buf[g_tail]
    BY <1>1 DEF Position
  <1>4. Unread' = Tail(Unread)
    <2>1. Tail(Unread) \in Seq(Samples) /\ Len(Tail(Unread)) = buf_count - 1
      BY <1>1, <1>3, HeadTailProperties
    <2>2. Unread' \in Seq(Samples) /\ Len(Unread') = buf_count - 1
      BY <1>1
    <2>3. ASSUME NEW k \in 1..(buf_count - 1) PROVE Unread'[k] = Tail(Unread)[k]
      <3>1. Unread'[k] = g_buf[Position(k + 1)]
        BY <1>1, <1>2 DEF Release
      <3>2. Tail(Unread)[k] = Unread[k + 1]
        BY <2>1, <1>3, HeadTailProperties
      <3> QED
        BY <3>1, <3>2, <1>1
    <2> QED
      BY <2>1, <2>2, <2>3, SeqEqual
  <1>5. last' = g_buf[g_tail]
    BY DEF last, Reading, Release
  <1> QED
    BY <1>3, <1>4, <1>5 DEF Fifo!Deliver, last

\* All other steps are invisible: in particular those that read the sample in
\* hand, and the one that remembers it.
LEMMA OthersInvisible ==
    ASSUME RingInv, Next, ~Publish, ~Release, ~StoreLevel, ~StoreTimestamp
    PROVE  UNCHANGED <<Unread, last>>
  <1>1. UNCHANGED ring
    BY DEF Next, Sampler, Store, Analyzer, Sample, HasRoom, Drop, Poll, DelayEnds,
           Snapshot, BatchEnds, Compare, Measure, Remember, sampVs, anaVs
  <1>2. UNCHANGED Unread
    BY <1>1 DEF ring, Unread, buf_count
  <1>3. UNCHANGED last
    BY <1>1 DEF ring, last, Reading, Next, Sampler, Store, Analyzer, Sample, HasRoom,
           Drop, Poll, DelayEnds, Snapshot, BatchEnds, Compare, Measure, Remember,
           sampVs, anaVs, stats
  <1> QED
    BY <1>2, <1>3

\* Every behaviour of the two tasks is one of a bounded FIFO of BUF_SIZE - 1
\* samples: no sample is lost, repeated or reordered between its publication
\* and its analysis, none changes in the analyzer's hands.
THEOREM RingImplementsFifo == Spec => RingIsFifo
  <1>1. Init => Fifo!Init
    BY DEF Init, Fifo!Init, Unread, buf_count, Reading
  <1>2. RingInv /\ RingInv' /\ [Next]_vars => [Fifo!Next]_(Fifo!vars)
    <2> SUFFICES ASSUME RingInv, RingInv', [Next]_vars
                 PROVE  Fifo!Accept \/ Fifo!Deliver \/ UNCHANGED <<Unread, last>>
      BY DEF Fifo!Next, Fifo!vars, last
    <2>1. CASE Publish
      BY <2>1, PublishAccepts
    <2>2. CASE Release
      BY <2>2, ReleaseDelivers
    <2>3. CASE StoreLevel \/ StoreTimestamp
      BY <2>3, StoreInvisible
    <2>4. CASE UNCHANGED vars
      BY <2>4 DEF vars, ring, anaVs, Unread, buf_count, last, Reading
    <2> QED
      BY <2>1, <2>2, <2>3, <2>4, OthersInvisible
  <1> QED
    BY <1>1, <1>2, RingInvariant, PTL DEF Spec, Fifo!Spec, RingIsFifo

=============================================================================
