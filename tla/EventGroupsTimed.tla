-------------------------- MODULE EventGroupsTimed --------------------------
(***************************************************************************)
(* examples/24_event_groups with the priorities and times of its tasks.    *)
(* One unit of time is 100 ms.  A task needs far less than a unit between  *)
(* two waits, so time advances only when no task is ready, and a task      *)
(* takes a step only when no ready task has a higher priority: controller  *)
(* (5), sensors (4), alarm (3).                                            *)
(***************************************************************************)
EXTENDS EventGroups

CONSTANTS
    SamplingTime,  \* delay_ms of each sensor: 3, 6 and 9 units
    DoneWait,      \* the sensors' timeout for BIT_DONE: 20
    AndWait,       \* the controller's timeout for all sensors: 50
    OrWait,        \* its timeout for the OR wait: 50
    PulseTime,     \* how long BIT_DONE is up: 1
    AlarmTime      \* when the alarm is raised: 35

\* What the constants must be.
TimedAssumption ==
    /\ SamplingTime \in [Sensors -> Nat \ {0}]
    /\ {DoneWait, AndWait, OrWait, PulseTime, AlarmTime} \subseteq Nat \ {0}

VARIABLES
    timer,       \* units left of each sensor's and the controller's wait
    alarmTimer   \* units left of the alarm task's delay

tvars == <<vars, timer, alarmTimer>>

-----------------------------------------------------------------------------
(* Scheduling *)

ControllerReady ==
    \/ cpc \in {"head", "set_done"}
    \/ cpc \in {"and", "or"} /\ (~Blocked(Controller) \/ timer[Controller] = 0)
    \/ cpc = "pulse" /\ timer[Controller] = 0

SensorReady(s) ==
    \/ spc[s] = "sampling" /\ timer[s] = 0 /\ samples[s] < MaxSamples
    \/ spc[s] \in {"set", "wait"}
    \/ spc[s] = "waiting" /\ (~Blocked(s) \/ timer[s] = 0)

AlarmReady == apc = "delay" /\ alarmTimer = 0

AnySensorReady == \E s \in Sensors : SensorReady(s)

-----------------------------------------------------------------------------
(* The steps of EventGroups, with the timers they start and wait for *)

TimedController ==
    /\ ControllerReady
    /\ ControllerTask
    /\ timer' = [timer EXCEPT ![Controller] =
                    CASE cpc = "head" /\ cpc' = "and" -> AndWait
                      [] cpc = "head" /\ cpc' = "or"  -> OrWait
                      [] cpc' = "pulse"               -> PulseTime
                      [] OTHER                        -> @]
    /\ UNCHANGED alarmTimer

TimedSensor(s) ==
    /\ SensorReady(s) /\ ~ControllerReady
    /\ Sensor(s)
    /\ timer' = [timer EXCEPT ![s] =
                    CASE spc'[s] = "sampling"                   -> SamplingTime[s]
                      [] spc[s] = "wait" /\ spc'[s] = "waiting" -> DoneWait
                      [] OTHER                                  -> @]
    /\ UNCHANGED alarmTimer

TimedAlarm ==
    /\ AlarmReady /\ ~ControllerReady /\ ~AnySensorReady
    /\ RaiseAlarm
    /\ UNCHANGED <<timer, alarmTimer>>

Countdown(n) == IF n > 0 THEN n - 1 ELSE 0

\* Every task is blocked: one unit passes.
Tick ==
    /\ ~ControllerReady /\ ~AnySensorReady /\ ~AlarmReady
    /\ timer' = [t \in Tasks |-> Countdown(timer[t])]
    /\ alarmTimer' = Countdown(alarmTimer)
    /\ UNCHANGED vars

TimedInit ==
    /\ Init
    /\ timer = [t \in Tasks |-> IF t \in Sensors THEN SamplingTime[t] ELSE 0]
    /\ alarmTimer = AlarmTime

TimedNext ==
    \/ TimedController \/ TimedAlarm \/ Tick
    \/ \E s \in Sensors : TimedSensor(s)

TimedSpec == TimedInit /\ [][TimedNext]_tvars

-----------------------------------------------------------------------------
(* Properties *)

\* No round times out, and every sensor sees the 100 ms pulse once: when the
\* controller pulses BIT_DONE in round r it has reported r complete rounds and
\* every sensor has sampled exactly r times, and when it clears the bit all of
\* them are taking the next sample.
RoundsInLockstep ==
    /\ cpc = "pulse" => ready = round /\ \A s \in Sensors : samples[s] = round
    /\ cpc = "head" /\ round > 0 =>
            \A s \in Sensors : spc[s] = "sampling" /\ samples[s] = round

=============================================================================
