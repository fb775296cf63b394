--------------------------- MODULE SensorQueueProof ---------------------------
(***************************************************************************)
(* No packet of SensorQueue is lost, duplicated or reordered unless a       *)
(* counter says so, for any number of producers, queue depth and number of  *)
(* iterations: proved with TLAPS.                                           *)
(*                                                                          *)
(* The argument.  A packet is at each moment in one of five places: in the  *)
(* hands of its producer, counted as dropped, in the queue, in the hands of *)
(* the consumer, or counted as received; every step moves it from one place *)
(* to the next.  A task that app_main has not created is in none of its     *)
(* program points, so that its creation disturbs nothing.                   *)
(***************************************************************************)
EXTENDS SensorQueue, FunctionTheorems, FiniteSetTheorems, SequenceTheorems, TLAPS

\* A producer stays absent until app_main creates it, as does the consumer.
NotYetCreated ==
    /\ \A k \in 1..Len(Producers) : k > created => ppc[Producers[k]] = "absent"
    /\ created <= Len(Producers) => cpc = "absent"

\* The packet in a producer's hands has a number.
SendsSomething == \A s \in SensorIds : ppc[s] = "send" => iter[s] >= 1

QueueInv == TypeOK /\ NotYetCreated /\ SendsSomething /\ Conservation

-----------------------------------------------------------------------------
(* Counting the packets of one sensor in a sequence *)

\* It is a finite set of positions.
LEMMA OfFinite ==
    ASSUME NEW q \in Seq(Packets), NEW s
    PROVE  IsFiniteSet(Of(s, q)) /\ Cardinality(Of(s, q)) \in Nat
  <1>1. Len(q) \in Nat /\ Of(s, q) \in SUBSET (1..Len(q))
    BY LenProperties DEF Of
  <1>2. IsFiniteSet(1..Len(q))
    BY <1>1, FS_Interval
  <1>3. IsFiniteSet(Of(s, q))
    BY <1>1, <1>2, FS_Subset
  <1> QED
    BY <1>3, FS_CardinalityType

\* A packet at the back counts for its own sensor only.
LEMMA OfAppend ==
    ASSUME NEW q \in Seq(Packets), NEW p \in Packets, NEW s
    PROVE  Cardinality(Of(s, Append(q, p)))
               = Cardinality(Of(s, q)) + (IF p.sensor_id = s THEN 1 ELSE 0)
  <1> DEFINE app == Append(q, p)
             n   == Len(q) + 1
  <1>1. /\ app \in Seq(Packets) /\ Len(q) \in Nat /\ Len(app) = n
        /\ app[n] = p
        /\ \A k \in 1..Len(q) : app[k] = q[k]
    BY AppendProperties, LenProperties
  <1>2. IsFiniteSet(Of(s, q)) /\ Cardinality(Of(s, q)) \in Nat
    BY OfFinite
  <1>3. CASE p.sensor_id = s
    <2>0. n \notin Of(s, q)
      BY <1>1 DEF Of
    <2>1. Of(s, app) = Of(s, q) \cup {n}
      BY <1>1, <1>3 DEF Of
    <2> QED
      BY <2>0, <2>1, <1>2, <1>3, FS_AddElement, ZenonT(60)
  <1>4. CASE p.sensor_id # s
    <2>1. Of(s, app) = Of(s, q)
      BY <1>1, <1>4 DEF Of
    <2> QED
      BY <2>1, <1>2, <1>4
  <1> QED
    BY <1>3, <1>4

\* Without its first packet, a sequence counts one less for that packet's
\* sensor: the other positions move up by one.
LEMMA OfTail ==
    ASSUME NEW q \in Seq(Packets), q # <<>>, NEW s
    PROVE  Cardinality(Of(s, q))
               = Cardinality(Of(s, Tail(q)))
                 + (IF Head(q).sensor_id = s THEN 1 ELSE 0)
  <1> DEFINE rest == Of(s, q) \ {1}
             move == [k \in Of(s, Tail(q)) |-> k + 1]
  <1>1. /\ Len(q) \in Nat \ {0} /\ Len(Tail(q)) = Len(q) - 1 /\ Tail(q) \in Seq(Packets)
        /\ \A k \in 1..(Len(q) - 1) : Tail(q)[k] = q[k + 1]
        /\ Head(q) = q[1]
    BY HeadTailProperties, LenProperties, EmptySeq
  <1>2. /\ IsFiniteSet(Of(s, q)) /\ Cardinality(Of(s, q)) \in Nat
        /\ IsFiniteSet(Of(s, Tail(q))) /\ Cardinality(Of(s, Tail(q))) \in Nat
    BY <1>1, OfFinite
  <1>3. Cardinality(rest) = Cardinality(Of(s, Tail(q)))
    <2>1. move \in [Of(s, Tail(q)) -> rest]
      BY <1>1 DEF Of
    <2>2. \A j, k \in Of(s, Tail(q)) : move[j] = move[k] => j = k
      BY <1>1 DEF Of
    <2>3. \A m \in rest : \E k \in Of(s, Tail(q)) : move[k] = m
      <3> SUFFICES ASSUME NEW m \in rest
                   PROVE  m - 1 \in Of(s, Tail(q)) /\ move[m - 1] = m
        OBVIOUS
      <3> QED
        BY <1>1 DEF Of
    <2>4. move \in Bijection(Of(s, Tail(q)), rest)
      BY <2>1, <2>2, <2>3, Fun_IsBij
    <2>5. ExistsBijection(Of(s, Tail(q)), rest)
      BY <2>4 DEF ExistsBijection
    <2> QED
      BY <2>5, <1>2, FS_Bijection
  <1>4. 1 \in Of(s, q) <=> Head(q).sensor_id = s
    BY <1>1 DEF Of
  <1>5. Cardinality(rest) = IF 1 \in Of(s, q) THEN Cardinality(Of(s, q)) - 1
                                             ELSE Cardinality(Of(s, q))
    BY <1>2, FS_RemoveElement
  <1> QED
    BY <1>2, <1>3, <1>4, <1>5

-----------------------------------------------------------------------------
(* The invariant *)

LEMMA InitQueue == Init => QueueInv
  <1> SUFFICES ASSUME Init PROVE QueueInv
    OBVIOUS
  <1>0. Len(Producers) \in Nat /\ \A k \in 1..Len(Producers) : Producers[k] \in SensorIds
    BY SensorQueueAssumption DEF SensorIds
  <1>1. TypeOK /\ NotYetCreated /\ SendsSomething
    <2>1. queue \in Seq(Packets) /\ Len(queue) <= QUEUE_DEPTH
      BY SensorQueueAssumption DEF Init
    <2>2. TypeOK
      BY <1>0, <2>1, SensorQueueAssumption DEF Init, TypeOK
    <2>3. NotYetCreated /\ SendsSomething
      BY <1>0 DEF Init, NotYetCreated, SendsSomething
    <2> QED
      BY <2>2, <2>3
  <1>2. \A s : Cardinality(Of(s, queue)) = 0
    BY FS_EmptySet DEF Init, Of
  <1>3. Conservation
    BY <1>2 DEF Init, Conservation, Unsent, Uncounted
  <1> QED
    BY <1>1, <1>3 DEF QueueInv

LEMMA NextTypes == QueueInv /\ [Next]_vars => (TypeOK /\ NotYetCreated /\ SendsSomething)'
  <1> SUFFICES ASSUME QueueInv, [Next]_vars
               PROVE  (TypeOK /\ NotYetCreated /\ SendsSomething)'
    OBVIOUS
  <1>0. /\ Len(Producers) \in Nat
        /\ \A k \in 1..Len(Producers) : Producers[k] \in SensorIds
        /\ \A k, m \in 1..Len(Producers) : Producers[k] = Producers[m] => k = m
    BY SensorQueueAssumption, LenProperties DEF SensorIds
  <1> USE <1>0 DEF QueueInv, TypeOK, NotYetCreated, SendsSomething, prodVs, consVs
  <1>1. CASE QueueCreateFails
    BY <1>1 DEF QueueCreateFails
  <1>2. CASE CreateProducer
    BY <1>2 DEF CreateProducer
  <1>3. CASE CreateConsumer
    BY <1>3 DEF CreateConsumer
  <1>4. CASE Receive
    <2>1. Head(queue) \in Packets /\ Tail(queue) \in Seq(Packets)
          /\ Len(Tail(queue)) = Len(queue) - 1 /\ Len(queue) \in Nat
      BY <1>4, HeadTailProperties, LenProperties DEF Receive
    <2> QED
      BY <1>4, <2>1, SensorQueueAssumption DEF Receive
  <1>10. CASE Count
    BY <1>10 DEF Count, Packets
  <1>11. CASE ReceiveTimesOut \/ PrintSummary
    BY <1>11 DEF ReceiveTimesOut, PrintSummary
  <1>5. ASSUME NEW s \in SensorIds, Produce(s)
        PROVE  (TypeOK /\ NotYetCreated /\ SendsSomething)'
    <2>1. iter' \in [SensorIds -> 0..MaxIter] /\ iter'[s] >= 1
      BY <1>5, SensorQueueAssumption DEF Produce
    <2>2. \A r \in SensorIds : r # s => iter'[r] = iter[r] /\ ppc'[r] = ppc[r]
      BY <1>5 DEF Produce
    <2>3. TypeOK'
      BY <1>5, <2>1 DEF Produce
    <2>4. NotYetCreated'
      BY <1>5, <1>0 DEF Produce
    <2>5. SendsSomething'
      BY <2>1, <2>2
    <2> QED
      BY <2>3, <2>4, <2>5
  <1>6. ASSUME NEW s \in SensorIds, SendSucceeds(s)
        PROVE  (TypeOK /\ NotYetCreated /\ SendsSomething)'
    <2> DEFINE p == [sensor_id |-> s, iter |-> iter[s]]
    <2>1. p \in Packets
      BY <1>6, SensorQueueAssumption DEF SendSucceeds, Packets
    <2>2. Append(queue, p) \in Seq(Packets) /\ Len(Append(queue, p)) = Len(queue) + 1
      BY <2>1, AppendProperties
    <2> QED
      BY <1>6, <2>2, SensorQueueAssumption, SMTT(60) DEF SendSucceeds
  <1>7. ASSUME NEW s \in SensorIds, SendTimesOut(s)
        PROVE  (TypeOK /\ NotYetCreated /\ SendsSomething)'
    BY <1>7, SMTT(60) DEF SendTimesOut
  <1>8. ASSUME NEW s \in SensorIds, DelayEnds(s)
        PROVE  (TypeOK /\ NotYetCreated /\ SendsSomething)'
    BY <1>8 DEF DelayEnds
  <1>9. CASE UNCHANGED vars
    BY <1>9 DEF vars
  <1> QED
    BY <1>1, <1>2, <1>3, <1>4, <1>5, <1>6, <1>7, <1>8, <1>9, <1>10, <1>11
       DEF Next, AppMain, Consumer, Producer

\* Every step moves a packet from one place of the account to the next.
LEMMA NextConservation == QueueInv /\ [Next]_vars => Conservation'
  <1> SUFFICES ASSUME QueueInv, [Next]_vars, NEW t \in SensorIds
               PROVE  iter'[t] = Unsent(t)' + dropped'[t] + Cardinality(Of(t, queue'))
                                 + Uncounted(t)' + received'[t]
    BY DEF Conservation
  <1>0. /\ queue \in Seq(Packets) /\ Cardinality(Of(t, queue)) \in Nat
        /\ iter[t] = Unsent(t) + dropped[t] + Cardinality(Of(t, queue))
                     + Uncounted(t) + received[t]
    BY OfFinite DEF QueueInv, TypeOK, Conservation
  <1>types. /\ ppc \in [SensorIds -> {"absent", "ready", "send", "delay"}]
            /\ iter \in [SensorIds -> Nat] /\ dropped \in [SensorIds -> Nat]
            /\ received \in [SensorIds -> Nat]
            /\ cpc = "count" => rx \in Packets
    BY SensorQueueAssumption DEF QueueInv, TypeOK
  <1> USE <1>0, <1>types DEF Unsent, Uncounted, prodVs, consVs
  <1>1. CASE QueueCreateFails
    BY <1>1 DEF QueueCreateFails
  <1>2. CASE CreateProducer
    <2>1. ppc[Producers[created + 1]] = "absent"
      BY <1>2, SensorQueueAssumption, LenProperties
         DEF CreateProducer, QueueInv, NotYetCreated, TypeOK
    <2> QED
      BY <1>2, <2>1 DEF CreateProducer
  <1>3. CASE CreateConsumer
    <2>1. cpc = "absent"
      BY <1>3 DEF CreateConsumer, QueueInv, NotYetCreated, TypeOK
    <2> QED
      BY <1>3, <2>1 DEF CreateConsumer
  <1>4. CASE Receive
    <2>1. Cardinality(Of(t, queue)) = Cardinality(Of(t, queue'))
                                      + (IF rx'.sensor_id = t THEN 1 ELSE 0)
      BY <1>4, OfTail DEF Receive
    <2>2. queue' \in Seq(Packets)
      BY <1>4, HeadTailProperties DEF Receive
    <2>3. Cardinality(Of(t, queue')) \in Nat
      BY <2>2, OfFinite
    <2>4. /\ Uncounted(t) = 0
          /\ Uncounted(t)' = IF rx'.sensor_id = t THEN 1 ELSE 0
      BY <1>4 DEF Receive
    <2>5. UNCHANGED <<iter, Unsent(t), dropped, received>>
      BY <1>4 DEF Receive
    <2> HIDE DEF Unsent, Uncounted
    <2>6. Unsent(t) \in Nat
      BY DEF Unsent
    <2> QED
      BY <2>1, <2>3, <2>4, <2>5, <2>6
  <1>5. CASE Count
    <2>1. rx.sensor_id \in SensorIds
      BY <1>5 DEF Count, Packets
    <2>2. /\ received'[t] = received[t] + (IF rx.sensor_id = t THEN 1 ELSE 0)
          /\ received[t] \in Nat /\ dropped[t] \in Nat
      BY <1>5, <2>1 DEF Count
    <2>3. /\ Uncounted(t) = IF rx.sensor_id = t THEN 1 ELSE 0
          /\ Uncounted(t)' = 0
      BY <1>5 DEF Count
    <2>4. UNCHANGED <<iter, Unsent(t), dropped, queue>>
      BY <1>5 DEF Count
    <2> HIDE DEF Unsent, Uncounted
    <2>5. Unsent(t) \in Nat
      BY DEF Unsent
    <2> QED
      BY <2>2, <2>3, <2>4, <2>5
  <1>6. CASE ReceiveTimesOut \/ PrintSummary
    BY <1>6 DEF ReceiveTimesOut, PrintSummary
  <1>7. ASSUME NEW s \in SensorIds, Produce(s)
        PROVE  iter'[t] = Unsent(t)' + dropped'[t] + Cardinality(Of(t, queue'))
                          + Uncounted(t)' + received'[t]
    BY <1>7, SMTT(60) DEF Produce
  <1>8. ASSUME NEW s \in SensorIds, SendSucceeds(s)
        PROVE  iter'[t] = Unsent(t)' + dropped'[t] + Cardinality(Of(t, queue'))
                          + Uncounted(t)' + received'[t]
    <2> DEFINE p == [sensor_id |-> s, iter |-> iter[s]]
    <2>1. p \in Packets
      BY <1>8, SensorQueueAssumption
         DEF SendSucceeds, Packets, QueueInv, SendsSomething, TypeOK
    <2>2. Cardinality(Of(t, queue')) = Cardinality(Of(t, queue))
                                       + (IF s = t THEN 1 ELSE 0)
      BY <1>8, <2>1, OfAppend DEF SendSucceeds
    <2> QED
      BY <1>8, <2>2 DEF SendSucceeds
  <1>9. ASSUME NEW s \in SensorIds, SendTimesOut(s)
        PROVE  iter'[t] = Unsent(t)' + dropped'[t] + Cardinality(Of(t, queue'))
                          + Uncounted(t)' + received'[t]
    BY <1>9 DEF SendTimesOut
  <1>10. ASSUME NEW s \in SensorIds, DelayEnds(s)
         PROVE  iter'[t] = Unsent(t)' + dropped'[t] + Cardinality(Of(t, queue'))
                           + Uncounted(t)' + received'[t]
    BY <1>10 DEF DelayEnds
  <1>11. CASE UNCHANGED vars
    BY <1>11 DEF vars
  <1> QED
    BY <1>1, <1>2, <1>3, <1>4, <1>5, <1>6, <1>7, <1>8, <1>9, <1>10, <1>11
       DEF Next, AppMain, Consumer, Producer

LEMMA QueueInvariant == Spec => []QueueInv
  <1>1. QueueInv /\ [Next]_vars => QueueInv'
    BY NextTypes, NextConservation DEF QueueInv
  <1> QED
    BY <1>1, InitQueue, PTL DEF Spec

\* Whatever the tasks' interleaving and the timeouts, iter, dropped, received
\* and the packets on their way account for every packet of every sensor.
THEOREM AllAccountedFor == Spec => [](TypeOK /\ Conservation)
  <1>1. QueueInv => TypeOK /\ Conservation
    BY DEF QueueInv
  <1> QED
    BY <1>1, QueueInvariant, PTL

-----------------------------------------------------------------------------
(* The queue is a bounded FIFO. *)

\* Every step of the tasks is a step of the channel or leaves it alone: the
\* consumer's packets are the accepted ones, in order, once each.  (That every
\* accepted packet is received is the liveness part of QueueIsFifo.)
THEOREM QueueImplementsFifo == Spec => Fifo!Spec
  <1>1. Init => Fifo!Init
    BY DEF Init, Fifo!Init
  <1>2. QueueInv /\ [Next]_vars => [Fifo!Next]_(Fifo!vars)
    <2> SUFFICES ASSUME QueueInv, [Next]_vars PROVE [Fifo!Next]_(Fifo!vars)
      OBVIOUS
    <2> USE DEF Fifo!Next, Fifo!vars, prodVs, consVs
    <2>1. ASSUME NEW s \in SensorIds, SendSucceeds(s) PROVE Fifo!Accept
      <3>1. [sensor_id |-> s, iter |-> iter[s]] \in Packets
        BY <2>1 DEF SendSucceeds, Packets, QueueInv, SendsSomething, TypeOK
      <3> QED
        BY <2>1, <3>1 DEF SendSucceeds, Fifo!Accept
    <2>2. CASE Receive
      BY <2>2 DEF Receive, Fifo!Deliver
    <2>3. ASSUME NEW s \in SensorIds, Produce(s) \/ SendTimesOut(s) \/ DelayEnds(s)
          PROVE  UNCHANGED <<queue, rx>>
      BY <2>3 DEF Produce, SendTimesOut, DelayEnds
    <2>4. CASE AppMain
      BY <2>4 DEF AppMain, QueueCreateFails, CreateProducer, CreateConsumer
    <2>5. CASE Count \/ ReceiveTimesOut \/ PrintSummary
      BY <2>5 DEF Count, ReceiveTimesOut, PrintSummary
    <2>6. CASE UNCHANGED vars
      BY <2>6 DEF vars
    <2> QED
      BY <2>1, <2>2, <2>3, <2>4, <2>5, <2>6 DEF Next, Consumer, Producer
  <1> QED
    BY <1>1, <1>2, QueueInvariant, PTL DEF Spec, Fifo!Spec

=============================================================================
