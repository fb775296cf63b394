----------------------------- MODULE TimerCompare -----------------------------
(***************************************************************************)
(* examples/23_timer_compare: callbacks of esp_timer and of a FreeRTOS     *)
(* timer each record intervals in a statistic that app_main polls, prints  *)
(* when both are full, and then times one-shot timers.                     *)
(*                                                                         *)
(* A callback runs in a task of its own: it cannot be interrupted by       *)
(* app_main if that task has the higher priority.  64-bit values take two  *)
(* loads, the low word first.                                              *)
(***************************************************************************)
EXTENDS Naturals

CONSTANTS
    SAMPLE_N,    \* 20
    DaemonPrios, \* priorities the FreeRTOS timer task may be configured with
    Shots        \* one-shot delays tried: 3

Timers == {"esp", "rtos"}
MainPrio == 1
Word == 2        \* a time below Word * Word has two words below Word

VARIABLES
    daemonPrio,
    prev,             \* each g_..._prev_us is set
    tcount, summed,   \* each statistic: its count, and how many are in its sum
    recording,        \* the callback has counted its interval, not summed it
    tpc,              \* where app_main is
    stopped,          \* the timers app_main has stopped
    printed,          \* what stat_print found: count and summed
    shot, fired, low, \* one-shot: how many, g_oneshot_fired, main's first load
    firedAt, actual   \* history: when it fired; and what main printed

statVs == <<prev, tcount, summed, recording>>
shotVs == <<shot, fired, low, firedAt, actual>>
vars   == <<daemonPrio, statVs, tpc, stopped, printed, shotVs>>

Prio(k) == IF k = "esp" THEN 22 ELSE daemonPrio

\* Faulty: esp_timer's callback yields to app_main.
FaultyMainRuns == TRUE

MainRuns == \A k \in Timers : recording[k] => Prio(k) <= MainPrio

-----------------------------------------------------------------------------
(* esp_timer_cb, rtos_timer_cb and stat_record *)

Callback(k) ==
    /\ ~recording[k] /\ k \notin stopped
    /\ prev' = [prev EXCEPT ![k] = TRUE]
    /\ IF prev[k] /\ tcount[k] < SAMPLE_N
       THEN /\ tcount' = [tcount EXCEPT ![k] = @ + 1]
            /\ recording' = [recording EXCEPT ![k] = TRUE]
       ELSE UNCHANGED <<tcount, recording>>
    /\ UNCHANGED <<daemonPrio, summed, tpc, stopped, printed, shotVs>>

\* sum, min_val and max_val
Sum(k) ==
    /\ recording[k]
    /\ summed' = [summed EXCEPT ![k] = @ + 1]
    /\ recording' = [recording EXCEPT ![k] = FALSE]
    /\ UNCHANGED <<daemonPrio, prev, tcount, tpc, stopped, printed, shotVs>>

oneshot_cb ==
    /\ tpc \in {"low", "high"} /\ fired = 0
    /\ \E t \in 1..(Word * Word - 1) : fired' = t /\ firedAt' = t
    /\ UNCHANGED <<daemonPrio, statVs, tpc, stopped, printed, shot, low, actual>>

-----------------------------------------------------------------------------
(* app_main *)

Full == \A k \in Timers : tcount[k] >= SAMPLE_N

PollCounts ==
    /\ MainRuns /\ tpc = "poll" /\ Full
    /\ tpc' = "stop"
    /\ UNCHANGED <<daemonPrio, statVs, stopped, printed, shotVs>>

StopTimers ==
    /\ MainRuns /\ tpc = "stop"
    /\ stopped' = Timers
    /\ tpc' = "print"
    /\ UNCHANGED <<daemonPrio, statVs, printed, shotVs>>

StatPrint ==
    /\ MainRuns /\ tpc = "print"
    /\ printed' = [k \in Timers |-> [count |-> tcount[k], summed |-> summed[k]]]
    /\ tpc' = "start"
    /\ UNCHANGED <<daemonPrio, statVs, stopped, shotVs>>

StartOneshot ==
    /\ MainRuns /\ tpc = "start"
    /\ IF shot < Shots THEN shot' = shot + 1 /\ fired' = 0 /\ tpc' = "low"
                       ELSE tpc' = "returned" /\ UNCHANGED <<shot, fired>>
    /\ UNCHANGED <<daemonPrio, statVs, stopped, printed, low, firedAt, actual>>

\* while (g_oneshot_fired == 0): two loads
LoadLow ==
    /\ tpc = "low"
    /\ low' = fired % Word
    /\ tpc' = "high"
    /\ UNCHANGED <<daemonPrio, statVs, stopped, printed, shot, fired, firedAt, actual>>

LoadHigh ==
    /\ tpc = "high"
    /\ tpc' = IF low = 0 /\ fired \div Word = 0 THEN "low" ELSE "read"
    /\ UNCHANGED <<daemonPrio, statVs, stopped, printed, shotVs>>

\* The loop read fired; the result is computed from a second reading.
ReadFired ==
    /\ tpc = "read"
    /\ actual' = fired
    /\ tpc' = "start"
    /\ UNCHANGED <<daemonPrio, statVs, stopped, printed, shot, fired, low, firedAt>>

Stay == tpc = "returned" /\ UNCHANGED vars

Init ==
    /\ daemonPrio \in DaemonPrios
    /\ prev = [k \in Timers |-> FALSE] /\ recording = [k \in Timers |-> FALSE]
    /\ tcount = [k \in Timers |-> 0] /\ summed = [k \in Timers |-> 0]
    /\ tpc = "poll" /\ stopped = {}
    /\ printed = [k \in Timers |-> [count |-> 0, summed |-> 0]]
    /\ shot = 0 /\ fired = 0 /\ low = 0 /\ firedAt = 0 /\ actual = 0

Next ==
    \/ \E k \in Timers : Callback(k) \/ Sum(k)
    \/ oneshot_cb \/ PollCounts \/ StopTimers \/ StatPrint
    \/ StartOneshot \/ LoadLow \/ LoadHigh \/ ReadFired \/ Stay

Spec == Init /\ [][Next]_vars

-----------------------------------------------------------------------------
(* Properties *)

\* Every variable stays in its domain.
TypeOK ==
    /\ daemonPrio \in DaemonPrios /\ stopped \in {{}, Timers}
    /\ prev \in [Timers -> BOOLEAN] /\ recording \in [Timers -> BOOLEAN]
    /\ tcount \in [Timers -> 0..SAMPLE_N] /\ summed \in [Timers -> 0..SAMPLE_N]
    /\ tpc \in {"poll", "stop", "print", "start", "low", "high", "read", "returned"}
    /\ shot \in 0..Shots /\ {fired, low, firedAt, actual} \subseteq 0..(Word * Word - 1)

\* app_main waits for a count alone, which is raised before the rest of the
\* sample is in.  What it prints still has all samples but the one being
\* recorded, and that one too if the callback's task outranks app_main; and
\* each one-shot time, read in two words, is that at which the callback ran.
ResultsComplete ==
    /\ tpc = "start" => \A k \in Timers :
           /\ printed[k].count = SAMPLE_N
           /\ printed[k].count - printed[k].summed
                  \in IF Prio(k) > MainPrio THEN {0} ELSE {0, 1}
    /\ tpc = "start" /\ shot > 0 => actual = firedAt

\* "Wait until SAMPLE_N samples are collected": no statistic is printed half
\* made.
StatisticsWhole ==
    tpc = "start" => \A k \in Timers : printed[k].summed = printed[k].count

=============================================================================
