-------------------------- MODULE SensorQueueTimed --------------------------
(***************************************************************************)
(* examples/04_queues with the priorities and the delays of its tasks.     *)
(*                                                                         *)
(* One unit of time is 50 ms.  A task needs far less than a unit for a     *)
(* turn of its loop, so time advances only when no task is ready, and a    *)
(* task takes a step only when no ready task has a higher priority.        *)
(***************************************************************************)
EXTENDS SensorQueue

CONSTANTS
    Period,       \* the periods[] of each producer, in units
    SendWait,     \* xQueueSend's timeout: 1 unit (50 ms)
    ReceiveWait,  \* xQueueReceive's timeout: 40 units (2 s)
    ConsumerPrio, \* 5
    ProducerPrio, \* 4
    MainPrio      \* 1, the ESP-IDF default of the main task

\* What the constants must be.
TimedAssumption ==
    /\ Period \in [SensorIds -> Nat \ {0}]
    /\ SendWait \in Nat \ {0}
    /\ ReceiveWait \in Nat \ {0}
    /\ ConsumerPrio \in Nat
    /\ ProducerPrio \in Nat
    /\ MainPrio \in Nat

VARIABLES
    ptimer,   \* units left of each producer's delay or send timeout
    ctimer    \* units left of the consumer's receive timeout

tvars == <<vars, ptimer, ctimer>>

-----------------------------------------------------------------------------
(* Scheduling *)

MainReady == created <= Len(Producers)

ProducerReady(s) ==
    \/ ppc[s] = "ready" /\ iter[s] < MaxIter
    \/ ppc[s] = "send"  /\ (Len(queue) < QUEUE_DEPTH \/ ptimer[s] = 0)
    \/ ppc[s] = "delay" /\ ptimer[s] = 0

\* Faulty: the consumer sleeps for the 2 s instead of waiting on the queue.
FaultyConsumerReady ==
    \/ cpc \in {"count", "summary"}
    \/ cpc = "receive" /\ ctimer = 0

ConsumerReady ==
    \/ cpc \in {"count", "summary"}
    \/ cpc = "receive" /\ (queue # <<>> \/ ctimer = 0)

ReadyPrios ==
    (IF MainReady THEN {MainPrio} ELSE {})
        \cup (IF ConsumerReady THEN {ConsumerPrio} ELSE {})
        \cup (IF \E s \in SensorIds : ProducerReady(s) THEN {ProducerPrio} ELSE {})

Highest(p) == \A q \in ReadyPrios : q <= p

-----------------------------------------------------------------------------
(* The steps of SensorQueue, with the timers they start and wait for *)

TimedMain ==
    /\ Highest(MainPrio)
    /\ AppMain
    /\ ctimer' = IF cpc' # cpc THEN ReceiveWait ELSE ctimer
    /\ UNCHANGED ptimer

TimedProduce(s) ==
    /\ Produce(s)
    /\ ptimer' = [ptimer EXCEPT ![s] = SendWait]

TimedSend(s) ==
    /\ SendSucceeds(s) \/ (SendTimesOut(s) /\ ptimer[s] = 0)
    /\ ptimer' = [ptimer EXCEPT ![s] = Period[s]]

TimedDelayEnds(s) ==
    /\ DelayEnds(s) /\ ptimer[s] = 0
    /\ UNCHANGED ptimer

TimedProducer(s) ==
    /\ Highest(ProducerPrio)
    /\ TimedProduce(s) \/ TimedSend(s) \/ TimedDelayEnds(s)
    /\ UNCHANGED ctimer

TimedConsumer ==
    /\ Highest(ConsumerPrio)
    /\ \/ (Receive \/ (ReceiveTimesOut /\ ctimer = 0)) /\ UNCHANGED ctimer
       \/ (Count \/ PrintSummary) /\ ctimer' = ReceiveWait
    /\ UNCHANGED ptimer

\* Every task is blocked: one unit passes.
Countdown(n) == IF n > 0 THEN n - 1 ELSE 0

Tick ==
    /\ ReadyPrios = {}
    /\ ptimer' = [s \in SensorIds |-> Countdown(ptimer[s])]
    /\ ctimer' = Countdown(ctimer)
    /\ UNCHANGED vars

TimedInit ==
    /\ Init
    /\ ptimer = [s \in SensorIds |-> 0]
    /\ ctimer = 0

TimedNext ==
    \/ TimedMain \/ TimedConsumer \/ Tick
    \/ \E s \in SensorIds : TimedProducer(s)

TimedSpec == TimedInit /\ [][TimedNext]_tvars

-----------------------------------------------------------------------------
(* Properties *)

\* The consumer outranks the producers, so the queue never holds more than
\* the one packet of each producer that it found when it was created, and a
\* single packet afterwards: a depth of 8 is never needed.
BacklogOnlyAtStart ==
    IF cpc = "absent" \/ total < Len(Producers)
    THEN Len(queue) <= Len(Producers)
    ELSE Len(queue) <= 1

=============================================================================
