----------------------------- MODULE EventGroups -----------------------------
(***************************************************************************)
(* examples/24_event_groups: three sensors announce a sample with a bit    *)
(* each, a controller waits for all of them three times and pulses         *)
(* BIT_DONE after each round, then waits for sensor A or an alarm.         *)
(*                                                                         *)
(* Tasks interleave in any order here, delays end and waits time out at    *)
(* any moment; EventGroupsTimed adds priorities and time.  app_main only   *)
(* creates the tasks and prints the bits: it is in the initial state.      *)
(***************************************************************************)
EXTENDS Naturals, EventGroupKernel

CONSTANTS
    Sensors,     \* the sensor tasks; a sensor's bit has the sensor's name
    SensorA,     \* the one sensor the OR wait names
    Controller,
    Rounds,      \* 3 in the code
    MaxSamples   \* bound on the rounds of each sensor's endless loop

ALARM == "BIT_ALARM"
DONE  == "BIT_DONE"

ASSUME ConstantsAssumption ==
    /\ SensorA \in Sensors
    /\ Controller \notin Sensors
    /\ {ALARM, DONE} \cap Sensors = {}
    /\ Tasks = Sensors \cup {Controller}
    /\ Bits = Sensors \cup {ALARM, DONE}
    /\ NoWait \notin Requests
    /\ Rounds \in Nat
    /\ MaxSamples \in Nat

VARIABLES
    spc,       \* where each sensor task is
    samples,   \* how many samples each sensor has announced
    apc,       \* where the alarm task is
    cpc,       \* where the controller is
    round,     \* the controller's round counter
    ready      \* in how many rounds the controller reported all sensors ready

appVars == <<spc, samples, apc, cpc, round, ready>>
vars    == <<egVars, appVars>>

\* Faulty: without xClearOnExit; with it where others wait too; AND for OR.
FaultyAllReady == [mask |-> Sensors, clear |-> FALSE, all |-> TRUE]
FaultyDoneSet  == [mask |-> {DONE}, clear |-> TRUE, all |-> TRUE]
AllReady == [mask |-> Sensors, clear |-> TRUE, all |-> TRUE]
DoneSet  == [mask |-> {DONE}, clear |-> FALSE, all |-> TRUE]
AOrAlarm == [mask |-> {SensorA, ALARM}, clear |-> TRUE, all |-> FALSE]

-----------------------------------------------------------------------------
(* sensor_task *)

SamplingEnds(s) ==
    /\ spc[s] = "sampling" /\ samples[s] < MaxSamples
    /\ spc' = [spc EXCEPT ![s] = "set"]
    /\ UNCHANGED <<egVars, samples, apc, cpc, round, ready>>

Announce(s) ==
    /\ spc[s] = "set"
    /\ SetBits({s})
    /\ samples' = [samples EXCEPT ![s] = @ + 1]
    /\ spc' = [spc EXCEPT ![s] = "wait"]
    /\ UNCHANGED <<apc, cpc, round, ready>>

WaitDone(s) ==
    /\ spc[s] = "wait"
    /\ WaitBits(s, DoneSet)
    /\ spc' = [spc EXCEPT ![s] = "waiting"]
    /\ UNCHANGED <<samples, apc, cpc, round, ready>>

\* Faulty: portMAX_DELAY.
FaultyDoneForEver(s) == FALSE

\* The 2 s are over; the return value is ignored.
DoneTimesOut(s) ==
    /\ WaitTimesOut(s)
    /\ UNCHANGED appVars

NextSample(s) ==
    /\ spc[s] = "waiting" /\ WaitReturns(s)
    /\ spc' = [spc EXCEPT ![s] = "sampling"]
    /\ UNCHANGED <<samples, apc, cpc, round, ready>>

-----------------------------------------------------------------------------
(* alarm_task *)

RaiseAlarm ==
    /\ apc = "delay"
    /\ SetBits({ALARM})
    /\ apc' = "deleted"
    /\ UNCHANGED <<spc, samples, cpc, round, ready>>

-----------------------------------------------------------------------------
(* controller_task *)

\* The head of the loop, and its exit to the OR wait.
StartRound ==
    /\ cpc = "head"
    /\ \/ /\ round < Rounds
          /\ round' = round + 1
          /\ WaitBits(Controller, AllReady)
          /\ cpc' = "and"
       \/ /\ round = Rounds
          /\ WaitBits(Controller, AOrAlarm)
          /\ cpc' = "or"
          /\ UNCHANGED round
    /\ UNCHANGED <<spc, samples, apc, ready>>

\* Faulty: portMAX_DELAY.
FaultyControllerForEver == FALSE

\* A timeout is reported, and the round goes on as if nothing were missing.
ControllerTimesOut ==
    /\ WaitTimesOut(Controller)
    /\ UNCHANGED appVars

Report ==
    /\ cpc = "and" /\ WaitReturns(Controller)
    /\ ready' = IF Sensors \subseteq value[Controller] THEN ready + 1 ELSE ready
    /\ cpc' = "set_done"
    /\ UNCHANGED <<spc, samples, apc, round>>

SetDone ==
    /\ cpc = "set_done"
    /\ SetBits({DONE})
    /\ cpc' = "pulse"
    /\ UNCHANGED <<spc, samples, apc, round, ready>>

\* The 100 ms pulse is over.
ClearDone ==
    /\ cpc = "pulse"
    /\ ClearBits({DONE})
    /\ cpc' = "head"
    /\ UNCHANGED <<spc, samples, apc, round, ready>>

\* The OR wait is over, satisfied or not; vTaskDelete(NULL).
ControllerEnds ==
    /\ cpc = "or" /\ WaitReturns(Controller)
    /\ cpc' = "deleted"
    /\ UNCHANGED <<spc, samples, apc, round, ready>>

-----------------------------------------------------------------------------

Init ==
    /\ EventGroupInit
    /\ spc = [s \in Sensors |-> "sampling"]
    /\ samples = [s \in Sensors |-> 0]
    /\ apc = "delay"
    /\ cpc = "head"
    /\ round = 0
    /\ ready = 0

Sensor(s) ==
    \/ SamplingEnds(s) \/ Announce(s) \/ WaitDone(s)
    \/ DoneTimesOut(s) \/ NextSample(s)

ControllerTask ==
    \/ StartRound \/ ControllerTimesOut \/ Report
    \/ SetDone \/ ClearDone \/ ControllerEnds

Next == ControllerTask \/ RaiseAlarm \/ \E s \in Sensors : Sensor(s)

Spec == Init /\ [][Next]_vars

\* Every task that can run is run, and every delay and timeout ends.
Fairness ==
    /\ WF_vars(ControllerTask)
    /\ WF_vars(RaiseAlarm)
    /\ \A s \in Sensors : WF_vars(Sensor(s))

FairSpec == Spec /\ Fairness

-----------------------------------------------------------------------------
(* Properties *)

\* Every variable stays in its domain.
TypeOK ==
    /\ bits \subseteq Bits
    /\ waiting \in [Tasks -> Requests \cup {NoWait}]
    /\ value \in [Tasks -> SUBSET Bits]
    /\ spc \in [Sensors -> {"sampling", "set", "wait", "waiting"}]
    /\ samples \in [Sensors -> 0..MaxSamples]
    /\ apc \in {"delay", "deleted"}
    /\ cpc \in {"head", "and", "set_done", "pulse", "or", "deleted"}
    /\ round \in 0..Rounds
    /\ ready \in 0..Rounds

\* A sample is spent on one round only: the controller never reports more
\* complete rounds than any sensor has announced samples, however waits time
\* out and however often a bit was set twice before anybody looked.
SampleSpentOnce ==
    \A s \in Sensors :
        ready + (IF s \in bits THEN 1 ELSE 0) <= samples[s]

\* All waits are bounded: the controller gets through its rounds even when a
\* sensor never announces anything, and no sensor is left waiting for the
\* BIT_DONE of a controller that is gone.
AllRoundsEnd == <>(cpc = "deleted")
SensorsNeverStuck  == \A s \in Sensors : spc[s] = "waiting" ~> spc[s] = "sampling"

=============================================================================
