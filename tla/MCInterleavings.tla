--------------------------- MODULE MCInterleavings ---------------------------
(* One board, flashed with one of the examples that are modelled at the     *)
(* finest grain, with every order of the tasks' steps, timeouts and resets: *)
(* RaceMutex, SensorQueue, LogicAnalyzer, EventGroups or LowPower.  Which   *)
(* one is chosen at the start; the variables of the others never change.    *)
EXTENDS EventGroups, RaceMutexParameters, SensorQueueParameters, LogicAnalyzerParameters

CONSTANT MaxSleeps   \* 06: bound on the deep sleeps

ASSUME BoardAssumption == MaxSleeps \in Nat

VARIABLES
    example,
    mainPrio, g_counter, g_done_count, holder, phase, mpc, created, rounds, wpc, r_i,
    reg, result,
    q_created, queue, ppc, iter, dropped, q_cpc, rx, received, total,
    g_buf, g_head, g_tail, clock, l_spc, smp, l_dropped, l_apc, snapshot, cur, prev,
    edge_count, high, low,
    pc, timer, boot_count, total_wake_ms, said, wakeups, sleeps

rVars == <<mainPrio, g_counter, g_done_count, holder, phase, mpc, created, rounds, wpc,
           r_i, reg, result>>
qVars == <<q_created, queue, ppc, iter, dropped, q_cpc, rx, received, total>>
lVars == <<g_buf, g_head, g_tail, clock, l_spc, smp, l_dropped, l_apc, snapshot, cur,
           prev, edge_count, high, low>>
pVars == <<pc, timer, boot_count, total_wake_ms, said, wakeups, sleeps>>
boardVars == <<example, vars, rVars, qVars, lVars, pVars>>

R == INSTANCE RaceMutex WITH i <- r_i
Q == INSTANCE SensorQueue WITH created <- q_created, cpc <- q_cpc
L == INSTANCE LogicAnalyzer WITH spc <- l_spc, dropped <- l_dropped, apc <- l_apc
P == INSTANCE LowPower

TwoSensors   == {"A", "B"}
TaskNames    == TwoSensors \cup {"controller"}
BitNames     == TwoSensors \cup {"BIT_ALARM", "BIT_DONE"}
TwoProducers == <<0, 1>>

-----------------------------------------------------------------------------

\* What an example leaves open at the start is fixed when it is not flashed.
BoardInit ==
    /\ example \in {"07_race_mutex", "04_queues", "11_logic_analyzer", "24_event_groups",
                    "06_low_power"}
    /\ Init /\ R!Init /\ Q!Init /\ L!Init /\ P!Init
    /\ example # "07_race_mutex" => mainPrio = TaskPrio

RaceMutexStep(A) ==
    /\ example = "07_race_mutex" /\ A
    /\ UNCHANGED <<example, vars, qVars, lVars, pVars>>
SensorQueueStep(A) ==
    /\ example = "04_queues" /\ A
    /\ UNCHANGED <<example, vars, rVars, lVars, pVars>>
LogicAnalyzerStep ==
    /\ example = "11_logic_analyzer" /\ L!Next
    /\ UNCHANGED <<example, vars, rVars, qVars, pVars>>
EventGroupsStep(A) ==
    /\ example = "24_event_groups" /\ A
    /\ UNCHANGED <<example, rVars, qVars, lVars, pVars>>
LowPowerStep ==
    /\ example = "06_low_power" /\ P!Next
    /\ UNCHANGED <<example, vars, rVars, qVars, lVars>>

\* The endless loops of 04 and 24 have reached their bounds.
Bounded ==
    /\ \/ /\ example = "04_queues"
          /\ q_created = Len(Producers) + 2 /\ q_cpc = "absent"
       \/ /\ example = "24_event_groups" /\ apc = "deleted" /\ cpc = "deleted"
          /\ \A s \in Sensors : spc[s] = "sampling" /\ samples[s] = MaxSamples
    /\ UNCHANGED boardVars

BoardNext ==
    \/ RaceMutexStep(R!Next) \/ SensorQueueStep(Q!Next) \/ LogicAnalyzerStep
    \/ EventGroupsStep(Next) \/ LowPowerStep \/ Bounded

\* The fairness of the examples whose tasks must get on
BoardFairness ==
    /\ WF_boardVars(RaceMutexStep(R!MainTask))
    /\ WF_boardVars(RaceMutexStep(R!DelayExpires))
    /\ \A w \in R!Workers : WF_boardVars(RaceMutexStep(R!Worker(w)))
    /\ WF_boardVars(SensorQueueStep(Q!CreateProducer \/ Q!CreateConsumer))
    /\ WF_boardVars(SensorQueueStep(Q!Consumer))
    /\ WF_boardVars(EventGroupsStep(ControllerTask))
    /\ WF_boardVars(EventGroupsStep(RaiseAlarm))
    /\ \A s \in Sensors : WF_boardVars(EventGroupsStep(Sensor(s)))

BoardSpec == BoardInit /\ [][BoardNext]_boardVars /\ BoardFairness

-----------------------------------------------------------------------------

\* The type invariants of the five examples.
TypesOK == TypeOK /\ R!TypeOK /\ Q!TypeOK /\ L!TypeOK /\ P!TypeOK

\* 07: with the mutex no increment is lost, however loads and stores mix.
MutexExact == R!MutexExact

\* 07: the counter is read when both tasks are done with it.
ReadAfterAllFinished == R!ReadAfterAllFinished

\* 07: at the code's priorities both phases and the benchmark come to an end.
Terminates == example = "07_race_mutex" => R!Terminates

\* 04: iter, dropped and received account for every packet.
Conservation == Q!Conservation

\* 04: producers, queue and consumer implement BoundedFifo.
QueueIsFifo == Q!QueueIsFifo

\* 11: the sampler never writes the slot that is being read.
NoDataRace == L!NoDataRace

\* 11: the ring implements BoundedFifo with one slot less than it has.
RingIsFifo == L!RingIsFifo

\* 24: the controller gets through its rounds whatever the sensors do.
ControllerFinishes == example = "24_event_groups" => AllRoundsEnd

\* 06: the wakeups printed are those from deep sleep, and none is lost.
WakeupsCounted == P!WakeupsCounted

=============================================================================
