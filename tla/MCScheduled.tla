----------------------------- MODULE MCScheduled -----------------------------
(* One board, flashed with one of the examples whose properties depend on   *)
(* priorities and time: PriorityInversion, SensorQueueTimed,                *)
(* EventGroupsTimed, Watchdog or TasksDemo, with the delays of the code.    *)
(* Which one is chosen at the start; the variables of the others never      *)
(* change.                                                                  *)
EXTENDS PriorityInversion, Sequences

CONSTANTS
    Producers, Period, QUEUE_DEPTH, MaxIter, SendWait, ReceiveWait,
    ConsumerPrio, ProducerPrio,                            \* SensorQueueTimed's
    GroupSensors, SensorA, SamplingTime, Rounds, MaxSamples, DoneWait, AndWait, OrWait,
    PulseTime, AlarmTime, NoWait,                          \* EventGroupsTimed's
    Timeout, HangTick,                                     \* Watchdog's
    SensorDelay, ProcessDelay, LoggerDelay, MonitorStart, MonitorDelay \* TasksDemo's

VARIABLES
    example,
    created, queue, ppc, iter, dropped, q_cpc, rx, received, total, ptimer, ctimer,
    bits, waiting, value, spc, samples, e_apc, e_cpc, round, ready, e_timer, alarmTimer,
    preInit, reason, w_mpc, apc, atick, atimer, bpc, btimer, g_simulate_hang,
    subscribed, checkedIn, elapsed, panics, warnings, hungFor,
    t_created, state, wakes, sensor_runs, process_runs, started, lag

qVars == <<created, queue, ppc, iter, dropped, q_cpc, rx, received, total,
           ptimer, ctimer>>
eVars == <<bits, waiting, value, spc, samples, e_apc, e_cpc, round, ready, e_timer, alarmTimer>>
wVars == <<preInit, reason, w_mpc, apc, atick, atimer, bpc, btimer, g_simulate_hang,
           subscribed, checkedIn, elapsed, panics, warnings, hungFor>>
tVars == <<t_created, state, wakes, sensor_runs, process_runs, started, lag>>
boardVars == <<example, vars, qVars, eVars, wVars, tVars>>

\* 04: in units of 50 ms
TempHumidPress == <<0, 1, 2>>
PeriodUnits    == [s \in {0, 1, 2} |-> CASE s = 0 -> 10 [] s = 1 -> 20 [] s = 2 -> 40]

Q == INSTANCE SensorQueueTimed WITH cpc <- q_cpc

\* 24: in units of 100 ms
ABCDelay == [s \in {"A", "B", "C"} |-> CASE s = "A" -> 3 [] s = "B" -> 6 [] s = "C" -> 9]

GroupTasks == GroupSensors \cup {"controller"}
GroupBits  == GroupSensors \cup {"BIT_ALARM", "BIT_DONE"}

E == INSTANCE EventGroupsTimed WITH
        Sensors <- GroupSensors, Controller <- "controller", Tasks <- GroupTasks, Bits <- GroupBits,
        apc <- e_apc, cpc <- e_cpc, timer <- e_timer

\* 05: in seconds
W == INSTANCE Watchdog WITH mpc <- w_mpc

\* 03: in units of 50 ms; the longer delays are cut down in Scheduled.cfg
T == INSTANCE TasksDemo WITH created <- t_created

ASSUME BoardAssumption ==
    /\ Q!SensorQueueAssumption /\ Q!TimedAssumption
    /\ E!ConstantsAssumption /\ E!TimedAssumption
    /\ W!ConstantsAssumption
    /\ T!DelaysAssumption

BoardInit ==
    /\ example \in {"08_priority_inversion", "04_queues", "24_event_groups", "05_watchdog",
                    "03_tasks"}
    /\ Init /\ Q!TimedInit /\ E!TimedInit /\ W!Init /\ T!Init
    /\ example # "05_watchdog" => ~preInit

PriorityInversionStep ==
    /\ example = "08_priority_inversion" /\ Next
    /\ UNCHANGED <<example, qVars, eVars, wVars, tVars>>
SensorQueueStep ==
    /\ example = "04_queues" /\ Q!TimedNext
    /\ UNCHANGED <<example, vars, eVars, wVars, tVars>>
EventGroupsStep ==
    /\ example = "24_event_groups" /\ E!TimedNext
    /\ UNCHANGED <<example, vars, qVars, wVars, tVars>>
WatchdogStep ==
    /\ example = "05_watchdog" /\ W!Next
    /\ UNCHANGED <<example, vars, qVars, eVars, tVars>>
TasksStep ==
    /\ example = "03_tasks" /\ T!Next
    /\ UNCHANGED <<example, vars, qVars, eVars, wVars>>

BoardNext ==
    \/ PriorityInversionStep \/ SensorQueueStep \/ EventGroupsStep
    \/ WatchdogStep \/ TasksStep

BoardSpec == BoardInit /\ [][BoardNext]_boardVars

-----------------------------------------------------------------------------

\* The type invariants of the five examples.
TypesOK == TypeOK /\ Q!TypeOK /\ E!TypeOK /\ W!TypeOK /\ T!TypeOK

\* 04: before the consumer has caught up with the first round the queue holds
\* one packet of each producer, and afterwards one in all.
BacklogOnlyAtStart == Q!BacklogOnlyAtStart

\* 24: no round times out, and every sensor meets the DONE pulse of its round.
RoundsInLockstep == E!RoundsInLockstep

\* 03: the lowest task prints its report on time.
LoggerKeepsPace == T!LoggerKeepsPace

\* 05: task B does not spin for longer than the watchdog's timeout.
FiresInTime == W!FiresInTime

\* 05: the watchdog fires on the hang and on nothing else, and blames B.
FiresOnlyOnHang == W!FiresOnlyOnHang

=============================================================================
