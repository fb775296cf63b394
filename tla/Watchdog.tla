------------------------------ MODULE Watchdog ------------------------------
(***************************************************************************)
(* examples/05_watchdog: two tasks subscribe to the task watchdog (TWDT)   *)
(* and check in once a second; after 15 check-ins task A tells task B to   *)
(* hang, and the watchdog is to reboot the chip.                           *)
(*                                                                         *)
(* One unit of time is a second.  Time passes when every task is blocked   *)
(* or spins in B's endless loop; A and B have the same priority, so A      *)
(* still gets its time slices while B spins, and the idle task does not.   *)
(***************************************************************************)
EXTENDS Naturals

CONSTANTS
    Timeout,   \* WDT_TIMEOUT_SEC: 5
    HangTick   \* the check-in of A after which it arms the hang: 15

\* What the constants must be: A's first check-in is followed by its delay.
ConstantsAssumption ==
    Timeout \in Nat \ {0} /\ HangTick \in Nat \ {0, 1}

Subscribers == {"A", "B", "idle"}

VARIABLES
    preInit,          \* ESP-IDF's start-up code initialises the TWDT
    reason,           \* esp_reset_reason() of this boot
    mpc,              \* where app_main is
    apc, atick, atimer,
    bpc, btimer,
    g_simulate_hang,
    subscribed,       \* the tasks the TWDT watches
    checkedIn,        \* those that checked in since its timer was restarted
    elapsed,          \* seconds since then
    panics,           \* trigger_panic
    warnings,         \* "the TWDT fired and nothing was reset"
    hungFor           \* history: seconds since B began to spin

twdt  == <<subscribed, checkedIn, elapsed, panics>>
tasks == <<apc, atick, atimer, bpc, btimer, g_simulate_hang>>
vars  == <<preInit, reason, mpc, tasks, twdt, warnings, hungFor>>

-----------------------------------------------------------------------------
(* The TWDT of ESP-IDF *)

\* The timer restarts when the last of the subscribed tasks checks in.
CheckIn(t) ==
    IF subscribed \subseteq checkedIn \cup {t}
    THEN checkedIn' = {} /\ elapsed' = 0
    ELSE checkedIn' = checkedIn \cup {t} /\ UNCHANGED elapsed

Subscribe(t) == subscribed' = subscribed \cup {t} /\ UNCHANGED <<checkedIn, elapsed>>

\* At start-up: with preInit the idle task is watched, and no panic is asked.
TwdtAtBoot ==
    /\ subscribed = IF preInit THEN {"idle"} ELSE {}
    /\ checkedIn = {} /\ elapsed = 0 /\ panics = FALSE

-----------------------------------------------------------------------------
(* The tasks *)

\* esp_task_wdt_init is refused when the TWDT is initialised already, and the
\* code does not look at its result.
InitTwdt ==
    /\ mpc = "init"
    /\ panics' = IF preInit THEN panics ELSE TRUE
    /\ mpc' = "create"
    /\ UNCHANGED <<preInit, reason, tasks, subscribed, checkedIn, elapsed, warnings, hungFor>>

\* Task A, then task B: each preempts app_main and runs until it blocks.
CreateTask ==
    /\ mpc = "create"
    /\ \/ apc = "absent" /\ apc' = "add" /\ UNCHANGED <<bpc, mpc>>
       \/ apc = "delay" /\ bpc' = "add" /\ mpc' = "returned" /\ UNCHANGED apc
    /\ UNCHANGED <<preInit, reason, atick, atimer, btimer, g_simulate_hang, twdt, warnings, hungFor>>

AddA ==
    /\ apc = "add" /\ Subscribe("A") /\ apc' = "loop"
    /\ UNCHANGED <<preInit, reason, mpc, atick, atimer, bpc, btimer, g_simulate_hang,
                   panics, warnings, hungFor>>

\* Faulty: task B does not subscribe.
FaultyAddB ==
    /\ bpc = "add" /\ bpc' = "loop"
    /\ UNCHANGED <<preInit, reason, mpc, apc, atick, atimer, btimer, g_simulate_hang,
                   twdt, warnings, hungFor>>

AddB ==
    /\ bpc = "add" /\ Subscribe("B") /\ bpc' = "loop"
    /\ UNCHANGED <<preInit, reason, mpc, apc, atick, atimer, btimer, g_simulate_hang,
                   panics, warnings, hungFor>>

\* Faulty: task A forgets esp_task_wdt_reset.
FaultyLoopA ==
    /\ apc = "loop"
    /\ atick' = IF atick <= HangTick THEN atick + 1 ELSE atick
    /\ apc' = IF atick + 1 = HangTick THEN "arm" ELSE "delay"
    /\ atimer' = 1
    /\ UNCHANGED <<preInit, reason, mpc, bpc, btimer, g_simulate_hang, twdt, warnings, hungFor>>

\* tick counts on for ever; past HangTick its value makes no difference.
LoopA ==
    /\ apc = "loop"
    /\ CheckIn("A")
    /\ atick' = IF atick <= HangTick THEN atick + 1 ELSE atick
    /\ apc' = IF atick + 1 = HangTick THEN "arm" ELSE "delay"
    /\ atimer' = 1
    /\ UNCHANGED <<preInit, reason, mpc, bpc, btimer, g_simulate_hang,
                   subscribed, panics, warnings, hungFor>>

\* The second before the flag is set, and the delay after it
ArmHang ==
    /\ apc = "arm" /\ atimer = 0
    /\ g_simulate_hang' = TRUE
    /\ apc' = "delay" /\ atimer' = 1
    /\ UNCHANGED <<preInit, reason, mpc, atick, bpc, btimer, twdt, warnings, hungFor>>

DelayEndsA ==
    /\ apc = "delay" /\ atimer = 0
    /\ apc' = "loop"
    /\ UNCHANGED <<preInit, reason, mpc, atick, atimer, bpc, btimer, g_simulate_hang,
                   twdt, warnings, hungFor>>

LoopB ==
    /\ bpc = "loop" /\ ~g_simulate_hang
    /\ CheckIn("B")
    /\ bpc' = "delay" /\ btimer' = 1
    /\ UNCHANGED <<preInit, reason, mpc, apc, atick, atimer, g_simulate_hang,
                   subscribed, panics, warnings, hungFor>>

HangB ==
    /\ bpc = "loop" /\ g_simulate_hang
    /\ bpc' = "hung"
    /\ UNCHANGED <<preInit, reason, mpc, apc, atick, atimer, btimer, g_simulate_hang,
                   twdt, warnings, hungFor>>

DelayEndsB ==
    /\ bpc = "delay" /\ btimer = 0
    /\ bpc' = "loop"
    /\ UNCHANGED <<preInit, reason, mpc, apc, atick, atimer, btimer, g_simulate_hang,
                   twdt, warnings, hungFor>>

Task == InitTwdt \/ CreateTask \/ AddA \/ AddB \/ LoopA \/ ArmHang
            \/ DelayEndsA \/ LoopB \/ HangB \/ DelayEndsB

-----------------------------------------------------------------------------
(* Time *)

Countdown(n) == IF n > 0 THEN n - 1 ELSE 0

Blocked ==
    /\ mpc = "returned"
    /\ apc \in {"arm", "delay"} /\ atimer > 0
    /\ bpc = "hung" \/ (bpc = "delay" /\ btimer > 0)

\* The idle task runs, and checks in, unless B spins.
Second ==
    /\ Blocked /\ elapsed + 1 < Timeout
    /\ atimer' = Countdown(atimer) /\ btimer' = Countdown(btimer)
    /\ LET idleRuns == preInit /\ bpc # "hung"
       IN  IF idleRuns /\ subscribed \subseteq checkedIn \cup {"idle"}
           THEN checkedIn' = {} /\ elapsed' = 0
           ELSE /\ checkedIn' = IF idleRuns THEN checkedIn \cup {"idle"} ELSE checkedIn
                /\ elapsed' = elapsed + 1
    /\ hungFor' = IF bpc = "hung" /\ hungFor <= Timeout THEN hungFor + 1 ELSE hungFor
    /\ UNCHANGED <<preInit, reason, mpc, apc, atick, bpc, g_simulate_hang,
                   subscribed, panics, warnings>>

\* The timer ran out and a panic was asked for: the chip reboots, and all of
\* the program's memory is as at its start.
PanicReset ==
    /\ Blocked /\ elapsed + 1 = Timeout /\ panics
    /\ reason' = "TASK_WDT"
    /\ mpc' = "init" /\ apc' = "absent" /\ bpc' = "absent"
    /\ atick' = 0 /\ atimer' = 0 /\ btimer' = 0
    /\ g_simulate_hang' = FALSE
    /\ subscribed' = (IF preInit THEN {"idle"} ELSE {})
    /\ checkedIn' = {} /\ elapsed' = 0 /\ panics' = FALSE
    /\ hungFor' = 0
    /\ UNCHANGED <<preInit, warnings>>

\* Without the panic it prints the tasks that did not check in, and starts
\* over.
Warn ==
    /\ Blocked /\ elapsed + 1 = Timeout /\ ~panics
    /\ warnings' = TRUE
    /\ elapsed' = 0
    /\ atimer' = Countdown(atimer) /\ btimer' = Countdown(btimer)
    /\ UNCHANGED <<preInit, reason, mpc, apc, atick, bpc, g_simulate_hang,
                   subscribed, checkedIn, panics, hungFor>>

Time == Second \/ PanicReset \/ Warn

-----------------------------------------------------------------------------

Init ==
    /\ preInit \in BOOLEAN
    /\ reason = "POWERON"
    /\ mpc = "init"
    /\ apc = "absent" /\ atick = 0 /\ atimer = 0
    /\ bpc = "absent" /\ btimer = 0
    /\ g_simulate_hang = FALSE
    /\ TwdtAtBoot
    /\ warnings = FALSE
    /\ hungFor = 0

Next == Task \/ Time

Spec == Init /\ [][Next]_vars
FairSpec == Spec /\ WF_vars(Task) /\ WF_vars(Time)

-----------------------------------------------------------------------------
(* Properties *)

\* Every variable stays in its domain.
TypeOK ==
    /\ reason \in {"POWERON", "TASK_WDT"}
    /\ mpc \in {"init", "create", "returned"}
    /\ apc \in {"absent", "add", "loop", "arm", "delay"}
    /\ bpc \in {"absent", "add", "loop", "delay", "hung"}
    /\ atick \in 0..(HangTick + 1) /\ atimer \in 0..1 /\ btimer \in 0..1
    /\ {preInit, g_simulate_hang, panics, warnings} \subseteq BOOLEAN
    /\ subscribed \subseteq Subscribers /\ checkedIn \subseteq subscribed
    /\ elapsed \in 0..(Timeout - 1) /\ hungFor \in 0..(Timeout + 1)

\* The watchdog bites only on a real hang, neither A's two-second round at
\* tick 15 nor any order of check-ins makes it fire on healthy tasks; and it
\* blames those who are stuck: B, and the idle task, which starves behind B,
\* if ESP-IDF has it watched.  A has checked in.
FiresOnlyOnHang ==
    [][ PanicReset \/ Warn =>
            /\ bpc = "hung"
            /\ "A" \in checkedIn /\ "B" \in subscribed
            /\ subscribed \ checkedIn = subscribed \cap {"B", "idle"} ]_vars

\* "After WDT_TIMEOUT_SEC seconds, TWDT fires": configured by this program, it
\* does not let B spin for longer.
FiresInTime == ~preInit => hungFor <= Timeout

\* "Simulated hang: one task deliberately stops checking in ... -> WDT
\* triggers, system reboots", and "on reboot: esp_reset_reason() identifies
\* the cause as WDT".
HangReboots == (bpc = "hung") ~> (mpc = "init" /\ reason = "TASK_WDT")

=============================================================================
