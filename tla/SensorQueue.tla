----------------------------- MODULE SensorQueue -----------------------------
(***************************************************************************)
(* examples/04_queues: producer tasks send sensor packets into one FreeRTOS *)
(* queue, a single consumer counts them per sensor.                         *)
(*                                                                          *)
(* Tasks interleave in any order here and every bounded wait may end at any *)
(* moment at which the kernel lets it: xQueueSend fails only while the      *)
(* queue is full and xQueueReceive only while it is empty, because the      *)
(* kernel looks at the queue once more when the timeout expires.  A packet  *)
(* is its sensor and its iteration: value and timestamp are functions of    *)
(* these two.  SensorQueueTimed adds priorities and time.                   *)
(***************************************************************************)
EXTENDS SensorQueueParameters, FiniteSets

SensorIds == {Producers[k] : k \in 1..Len(Producers)}
Packets == [sensor_id : SensorIds, iter : 1..MaxIter]

\* The consumer's SensorData_t before the first xQueueReceive fills it in.
Unfilled == [sensor_id |-> 0, iter |-> 0]

VARIABLES
    created,   \* tasks app_main has created: the producers, then the consumer
    queue,     \* g_data_queue
    ppc,       \* where each producer is
    iter,      \* each producer's iteration count
    dropped,   \* each producer's count of packets the queue refused
    cpc,       \* where the consumer is
    rx,        \* the consumer's packet variable
    received,  \* the consumer's count per sensor
    total      \* the consumer's count

prodVs == <<ppc, iter, dropped>>
consVs == <<cpc, rx, received, total>>
vars   == <<created, queue, prodVs, consVs>>

-----------------------------------------------------------------------------
(* app_main *)

\* xQueueCreate: out of memory, app_main logs and returns before any task.
QueueCreateFails ==
    /\ created = 0
    /\ created' = Len(Producers) + 2
    /\ UNCHANGED <<queue, prodVs, consVs>>

CreateProducer ==
    /\ created < Len(Producers)
    /\ created' = created + 1
    /\ ppc' = [ppc EXCEPT ![Producers[created + 1]] = "ready"]
    /\ UNCHANGED <<queue, iter, dropped, consVs>>

CreateConsumer ==
    /\ created = Len(Producers)
    /\ created' = created + 1
    /\ cpc' = "receive"
    /\ UNCHANGED <<queue, prodVs, rx, received, total>>

-----------------------------------------------------------------------------
(* producer_task *)

\* iter++ and the packet is filled in
Produce(s) ==
    /\ ppc[s] = "ready" /\ iter[s] < MaxIter
    /\ iter' = [iter EXCEPT ![s] = @ + 1]
    /\ ppc' = [ppc EXCEPT ![s] = "send"]
    /\ UNCHANGED <<created, queue, dropped, consVs>>

\* xQueueSend copies the packet to the back of the queue.
SendSucceeds(s) ==
    /\ ppc[s] = "send" /\ Len(queue) < QUEUE_DEPTH
    /\ queue' = Append(queue, [sensor_id |-> s, iter |-> iter[s]])
    /\ ppc' = [ppc EXCEPT ![s] = "delay"]
    /\ UNCHANGED <<created, iter, dropped, consVs>>

\* Faulty: the drop is not counted; or the send gives up one packet early.
FaultySilentDrop(s) ==
    /\ ppc[s] = "send" /\ Len(queue) = QUEUE_DEPTH
    /\ ppc' = [ppc EXCEPT ![s] = "delay"]
    /\ UNCHANGED <<created, queue, iter, dropped, consVs>>
\* 50 ms have passed and the queue is still full: the packet is lost.
SendTimesOut(s) ==
    /\ ppc[s] = "send" /\ Len(queue) = QUEUE_DEPTH
    /\ dropped' = [dropped EXCEPT ![s] = @ + 1]
    /\ ppc' = [ppc EXCEPT ![s] = "delay"]
    /\ UNCHANGED <<created, queue, iter, consVs>>

\* vTaskDelay(periods[id]) ends.
DelayEnds(s) ==
    /\ ppc[s] = "delay"
    /\ ppc' = [ppc EXCEPT ![s] = "ready"]
    /\ UNCHANGED <<created, queue, iter, dropped, consVs>>

-----------------------------------------------------------------------------
(* consumer_task *)

\* Faulty: xQueuePeek, which leaves the packet in the queue.
FaultyPeek ==
    /\ cpc = "receive" /\ queue # <<>>
    /\ rx' = Head(queue)
    /\ cpc' = "count"
    /\ UNCHANGED <<created, queue, prodVs, received, total>>

Receive ==
    /\ cpc = "receive" /\ queue # <<>>
    /\ rx' = Head(queue)
    /\ queue' = Tail(queue)
    /\ cpc' = "count"
    /\ UNCHANGED <<created, prodVs, received, total>>

Count ==
    /\ cpc = "count"
    /\ total' = total + 1
    /\ received' = [received EXCEPT ![rx.sensor_id] = @ + 1]
    /\ cpc' = "receive"
    /\ UNCHANGED <<created, queue, prodVs, rx>>

\* 2 s without a packet: the summary is printed, then the loop goes on.
ReceiveTimesOut ==
    /\ cpc = "receive" /\ queue = <<>>
    /\ cpc' = "summary"
    /\ UNCHANGED <<created, queue, prodVs, rx, received, total>>

PrintSummary ==
    /\ cpc = "summary"
    /\ cpc' = "receive"
    /\ UNCHANGED <<created, queue, prodVs, rx, received, total>>

-----------------------------------------------------------------------------

Init ==
    /\ created = 0
    /\ queue = <<>>
    /\ ppc = [s \in SensorIds |-> "absent"]
    /\ iter = [s \in SensorIds |-> 0]
    /\ dropped = [s \in SensorIds |-> 0]
    /\ cpc = "absent"
    /\ rx = Unfilled
    /\ received = [s \in SensorIds |-> 0]
    /\ total = 0

Producer(s) == Produce(s) \/ SendSucceeds(s) \/ SendTimesOut(s) \/ DelayEnds(s)
Consumer    == Receive \/ Count \/ ReceiveTimesOut \/ PrintSummary
AppMain     == QueueCreateFails \/ CreateProducer \/ CreateConsumer

Next == AppMain \/ Consumer \/ \E s \in SensorIds : Producer(s)

Spec == Init /\ [][Next]_vars

\* Every task gets the processor again and again.  A consumer that is given
\* the processor takes a packet when there is one.
Fairness ==
    /\ WF_vars(CreateProducer \/ CreateConsumer)
    /\ WF_vars(Consumer)
    /\ \A s \in SensorIds : WF_vars(Producer(s))

FairSpec == Spec /\ Fairness

-----------------------------------------------------------------------------
(* Properties *)

Of(s, packets) == {k \in 1..Len(packets) : packets[k].sensor_id = s}

\* Every variable stays in its domain and the queue within its capacity.
TypeOK ==
    /\ created \in 0..(Len(Producers) + 2)
    /\ queue \in Seq(Packets) /\ Len(queue) <= QUEUE_DEPTH
    /\ ppc \in [SensorIds -> {"absent", "ready", "send", "delay"}]
    /\ iter \in [SensorIds -> 0..MaxIter]
    /\ dropped \in [SensorIds -> Nat]
    /\ cpc \in {"absent", "receive", "count", "summary"}
    /\ rx \in Packets \cup {Unfilled}
    /\ cpc = "count" => rx \in Packets
    /\ received \in [SensorIds -> Nat]
    /\ total \in Nat

Unsent(s)    == IF ppc[s] = "send" THEN 1 ELSE 0
Uncounted(s) == IF cpc = "count" /\ rx.sensor_id = s THEN 1 ELSE 0

\* No packet vanishes or is counted twice: of what a producer has made, the
\* three counts of the program (iter, dropped and received) and the packets
\* on their way give a complete account, by sensor.
Conservation ==
    \A s \in SensorIds :
        iter[s] = Unsent(s) + dropped[s] + Cardinality(Of(s, queue))
                  + Uncounted(s) + received[s]

\* The queue between the tasks is a bounded FIFO channel.
Fifo == INSTANCE BoundedFifo
            WITH Messages <- Packets,
                 Depth    <- QUEUE_DEPTH,
                 Nothing  <- Unfilled,
                 contents <- queue,
                 last     <- rx

\* The producers' sends and the consumer's receives are the steps of a
\* bounded FIFO: nothing is reordered, duplicated or invented on the way,
\* and what was accepted is received.
QueueIsFifo == Fifo!FairSpec

=============================================================================
