------------------------------- MODULE LowPower -------------------------------
(***************************************************************************)
(* examples/06_low_power: each boot counts itself in RTC memory, stays     *)
(* awake for three seconds, adds them to a total there and goes to deep    *)
(* sleep, from which the timer wakes it by a reset.  A reset the program   *)
(* did not ask for may come between any two steps.                         *)
(***************************************************************************)
EXTENDS Naturals

CONSTANT MaxSleeps   \* bound: deep sleeps in all

AwakeMs == 3000

\* ESP-IDF loads RTC_DATA_ATTR variables anew unless the chip wakes from deep sleep.
RtcKept == {"DEEPSLEEP"}

VARIABLES
    pc,
    timer,         \* esp_sleep_enable_timer_wakeup has been called
    boot_count, total_wake_ms,
    said,          \* "Total wakeups so far", as printed
    wakeups,       \* history: deep sleeps left since RTC memory was initialised
    sleeps         \* history: deep sleeps in all

vars == <<pc, timer, boot_count, total_wake_ms, said, wakeups, sleeps>>

CountBoot ==
    /\ pc = "boot"
    /\ boot_count' = boot_count + 1
    /\ said' = boot_count' - 1
    /\ pc' = "configure"
    /\ UNCHANGED <<timer, total_wake_ms, wakeups, sleeps>>

Configure ==
    /\ pc = "configure"
    /\ timer' = TRUE
    /\ pc' = "awake"
    /\ UNCHANGED <<boot_count, total_wake_ms, said, wakeups, sleeps>>

StayAwake ==
    /\ pc = "awake"
    /\ total_wake_ms' = total_wake_ms + AwakeMs
    /\ pc' = "sleep"
    /\ UNCHANGED <<timer, boot_count, said, wakeups, sleeps>>

DeepSleep ==
    /\ pc = "sleep" /\ sleeps < MaxSleeps
    /\ sleeps' = sleeps + 1
    /\ pc' = "asleep"
    /\ UNCHANGED <<timer, boot_count, total_wake_ms, said, wakeups>>

\* Faulty: the awake time is an ordinary variable.
FaultyReset(r) ==
    /\ pc' = "boot" /\ timer' = FALSE /\ said' = 0
    /\ total_wake_ms' = 0
    /\ boot_count' = IF r \in RtcKept THEN boot_count ELSE 0

Reset(r) ==
    /\ pc' = "boot" /\ timer' = FALSE /\ said' = 0
    /\ IF r \in RtcKept THEN UNCHANGED <<boot_count, total_wake_ms>>
                        ELSE boot_count' = 0 /\ total_wake_ms' = 0

Wakeup ==
    /\ pc = "asleep" /\ timer
    /\ Reset("DEEPSLEEP")
    /\ wakeups' = wakeups + 1
    /\ UNCHANGED sleeps

ForeignReset ==
    /\ \E r \in {"POWERON", "BROWNOUT", "USB"} : Reset(r)
    /\ wakeups' = 0
    /\ UNCHANGED sleeps

Init ==
    /\ pc = "boot" /\ timer = FALSE /\ boot_count = 0 /\ total_wake_ms = 0
    /\ said = 0 /\ wakeups = 0 /\ sleeps = 0

Program == CountBoot \/ Configure \/ StayAwake \/ DeepSleep \/ Wakeup
Next == Program \/ ForeignReset
Spec == Init /\ [][Next]_vars

-----------------------------------------------------------------------------
(* Properties *)

\* Every variable stays in its domain.
TypeOK ==
    /\ pc \in {"boot", "configure", "awake", "sleep", "asleep"} /\ timer \in BOOLEAN
    /\ {boot_count, said, wakeups, sleeps} \subseteq 0..(MaxSleeps + 1)
    /\ total_wake_ms \in 0..((MaxSleeps + 1) * AwakeMs)

\* "Total wakeups so far" counts the wakeups from deep sleep since RTC memory
\* was last initialised, and the awake time is that of as many boots, one more
\* when this boot has done its part: no reset loses or adds one.
WakeupsCounted ==
    /\ pc # "boot" => said = wakeups
    /\ total_wake_ms = AwakeMs * (wakeups + IF pc \in {"sleep", "asleep"} THEN 1 ELSE 0)

=============================================================================
