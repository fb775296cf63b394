------------------------------ MODULE TasksDemo ------------------------------
(***************************************************************************)
(* examples/03_tasks: four tasks of different priorities on one core.      *)
(* Sensor and Process count their runs, Logger prints the two counts,      *)
(* Monitor prints the stacks of the other three.                           *)
(*                                                                         *)
(* One unit of time is 50 ms.  Process computes for up to a unit; the      *)
(* other tasks need far less than a unit between two delays.  A task takes *)
(* a step only when no ready task has a higher priority, and time passes   *)
(* when Process computes or every task sleeps.                             *)
(***************************************************************************)
EXTENDS Naturals, Sequences, FiniteSets

CONSTANTS
    SensorDelay, ProcessDelay, LoggerDelay,  \* 4, 1 and 40 units
    MonitorStart, MonitorDelay               \* 20 and 100

Delays == {SensorDelay, ProcessDelay, LoggerDelay, MonitorStart, MonitorDelay}

\* What the constants must be.
DelaysAssumption == Delays \subseteq Nat \ {0}

\* In the order app_main creates them
Created == <<"Sensor", "Process", "Logger", "Monitor">>
Names   == {Created[k] : k \in DOMAIN Created}

VARIABLES
    created,                    \* how many tasks app_main has created
    state,                      \* of each task
    wakes,                      \* units left of each task's delay
    sensor_runs, process_runs,  \* counted from the Logger's last report
    started,                    \* Monitor has waited its first second
    lag                         \* history: units the Logger has been ready for

vars == <<created, state, wakes, sensor_runs, process_runs, started, lag>>

-----------------------------------------------------------------------------
(* Scheduling *)

Prio(t) == CASE t = "Sensor" -> 10 [] t = "Process" -> 5 [] t = "Monitor" -> 2 [] OTHER -> 1
Ready(t) == state[t] \notin {"absent", "delay"}
MainReady == created < Len(Created)
Runs(t) == Ready(t) /\ \A u \in Names : Ready(u) => Prio(u) <= Prio(t)
MainRuns == MainReady /\ \A u \in Names : Ready(u) => Prio(u) <= 1

SleepFor(t, n) ==
    /\ state' = [state EXCEPT ![t] = "delay"]
    /\ wakes' = [wakes EXCEPT ![t] = n]

-----------------------------------------------------------------------------
(* The tasks *)

CreateTask ==
    /\ MainRuns
    /\ created' = created + 1
    /\ state' = [state EXCEPT ![Created[created + 1]] = "ready"]
    /\ UNCHANGED <<wakes, sensor_runs, process_runs, started, lag>>

SensorTurn ==
    /\ Runs("Sensor")
    /\ sensor_runs' = sensor_runs + 1
    /\ SleepFor("Sensor", SensorDelay)
    /\ UNCHANGED <<created, process_runs, started, lag>>

\* The computation may end before time passes, or after.
ProcessStarts ==
    /\ Runs("Process") /\ state["Process"] = "ready"
    /\ process_runs' = process_runs + 1
    /\ state' = [state EXCEPT !["Process"] = "computing"]
    /\ UNCHANGED <<created, wakes, sensor_runs, started, lag>>

\* Faulty: the computation is followed by no delay.
FaultyProcessEnds ==
    /\ Runs("Process") /\ state["Process"] \in {"computing", "computed"}
    /\ state' = [state EXCEPT !["Process"] = "ready"]
    /\ UNCHANGED <<created, wakes, sensor_runs, process_runs, started, lag>>

ProcessEnds ==
    /\ Runs("Process") /\ state["Process"] \in {"computing", "computed"}
    /\ SleepFor("Process", ProcessDelay)
    /\ UNCHANGED <<created, sensor_runs, process_runs, started, lag>>

\* The code's counters run on; here they start anew with each report, so that
\* they show what a report has grown by and stay bounded.
LoggerTurn ==
    /\ Runs("Logger")
    /\ sensor_runs' = 0 /\ process_runs' = 0 /\ lag' = 0
    /\ SleepFor("Logger", LoggerDelay)
    /\ UNCHANGED <<created, started>>

MonitorTurn ==
    /\ Runs("Monitor")
    /\ started' = TRUE
    /\ SleepFor("Monitor", IF started THEN MonitorDelay ELSE MonitorStart)
    /\ UNCHANGED <<created, sensor_runs, process_runs, lag>>

\* One unit passes: nobody is ready, or Process computes for all of it.
Tick ==
    /\ \/ ~MainReady /\ \A t \in Names : ~Ready(t)
       \/ Runs("Process") /\ state["Process"] = "computing"
    /\ wakes' = [t \in Names |-> IF state[t] = "delay" THEN wakes[t] - 1 ELSE 0]
    /\ state' = [t \in Names |->
            CASE state[t] = "delay" /\ wakes[t] = 1 -> "ready"
              [] t = "Process" /\ state[t] = "computing" -> "computed"
              [] OTHER -> state[t]]
    /\ lag' = IF state["Logger"] = "ready" THEN lag + 1 ELSE lag
    /\ UNCHANGED <<created, sensor_runs, process_runs, started>>

Init ==
    /\ created = 0 /\ state = [t \in Names |-> "absent"] /\ wakes = [t \in Names |-> 0]
    /\ sensor_runs = 0 /\ process_runs = 0 /\ started = FALSE /\ lag = 0

Next ==
    \/ CreateTask \/ SensorTurn \/ ProcessStarts \/ ProcessEnds
    \/ LoggerTurn \/ MonitorTurn \/ Tick

-----------------------------------------------------------------------------
(* Properties *)

\* Every variable stays in its domain.
TypeOK ==
    /\ created \in 0..Len(Created)
    /\ state \in [Names -> {"absent", "ready", "computing", "computed", "delay"}]
    /\ wakes \in [Names -> UNION {0..d : d \in Delays}]
    /\ sensor_runs \in Nat /\ process_runs \in Nat
    /\ started \in BOOLEAN /\ lag \in Nat

\* "vTaskDelay allows lower-priority tasks to run": the Logger, below all the
\* others, waits for one computation of Process at most, so its report every
\* two seconds counts no more runs of Sensor and of Process than fit into them
\* and that one computation.
LoggerKeepsPace ==
    /\ lag <= 1
    /\ sensor_runs <= LoggerDelay \div SensorDelay + 1
    /\ process_runs <= LoggerDelay \div ProcessDelay + 2

=============================================================================
