---------------------------- MODULE BootDiagnosis ----------------------------
(***************************************************************************)
(* examples/18_boot_diagnosis: a boot counter in RTC memory is to take the *)
(* program through four boots.  Boot 1 restarts the chip, boot 2 writes to *)
(* address 0, boot 3 lets the task watchdog expire, boot 4 stops; each     *)
(* boot prints what it believes the previous one ended with.               *)
(*                                                                         *)
(* Which resets keep RTC_DATA_ATTR variables is a property of the platform *)
(* and a parameter here.                                                   *)
(***************************************************************************)
EXTENDS Naturals

CONSTANT RtcKept   \* the reset reasons after which RTC_DATA_ATTR variables are kept

VARIABLES
    preInit,       \* ESP-IDF's start-up code initialises the TWDT
    pc,
    reason,        \* esp_reset_reason() of this boot
    g_boot_count, g_trigger,
    g_last_mcause, \* stands for g_last_mepc and g_last_mtval too
    panics,        \* the TWDT was configured with trigger_panic
    told           \* what print_diagnosis says the last boot ended with

rtc  == <<g_boot_count, g_trigger, g_last_mcause>>
vars == <<preInit, pc, reason, rtc, panics, told>>

-----------------------------------------------------------------------------
(* app_main *)

CountBoot ==
    /\ pc = "boot"
    /\ g_boot_count' = g_boot_count + 1
    /\ pc' = "diagnose"
    /\ UNCHANGED <<preInit, reason, g_trigger, g_last_mcause, panics, told>>

classify_boot(r) ==
    CASE r = "POWERON" -> "COLD"
      [] r = "PANIC" -> "SYNC_ABNORMAL"
      [] r \in {"TASK_WDT", "BROWNOUT"} -> "ASYNC_ABNORMAL"
      [] OTHER -> "WARM"

Scenario(n) ==
    CASE n = 1 -> "WARM" [] n = 2 -> "SYNC" [] n = 3 -> "ASYNC" [] OTHER -> "done"

\* Which cause the printed text names: the saved exception, or a trigger of
\* the program's own.  The exception is cleared once it has been printed.
Diagnose ==
    /\ pc = "diagnose"
    /\ LET btype == classify_boot(reason)
           showsException == btype = "SYNC_ABNORMAL" /\ g_last_mcause # 0
       IN  /\ told' = CASE showsException -> "SYNC"
                        [] btype = "WARM" /\ g_trigger = "WARM" -> "WARM"
                        [] btype = "ASYNC_ABNORMAL" /\ g_trigger = "ASYNC" -> "ASYNC"
                        [] OTHER -> "nothing"
           /\ g_last_mcause' = IF showsException THEN 0 ELSE g_last_mcause
    /\ pc' = Scenario(g_boot_count)
    /\ UNCHANGED <<preInit, reason, g_boot_count, g_trigger, panics>>

\* trigger_sync_abnormal writes the exception it is about to cause first.
SaveException ==
    /\ pc = "SYNC"
    /\ g_last_mcause' = 7
    /\ pc' = "saved"
    /\ UNCHANGED <<preInit, reason, g_boot_count, g_trigger, panics, told>>

SetTrigger ==
    /\ \/ pc = "WARM"  /\ g_trigger' = "WARM"  /\ pc' = "esp_restart"
       \/ pc = "saved" /\ g_trigger' = "SYNC"  /\ pc' = "null_write"
       \/ pc = "ASYNC" /\ g_trigger' = "ASYNC" /\ pc' = "wdt_init"
    /\ UNCHANGED <<preInit, reason, g_boot_count, g_last_mcause, panics, told>>

\* Refused, and the refusal ignored, when the TWDT is initialised already
InitTwdt ==
    /\ pc = "wdt_init"
    /\ panics' = ~preInit
    /\ pc' = "spin"
    /\ UNCHANGED <<preInit, reason, rtc, told>>

-----------------------------------------------------------------------------
(* Resets *)

RtcAfter(r) ==
    IF r \in RtcKept THEN UNCHANGED rtc
                     ELSE g_boot_count' = 0 /\ g_trigger' = "NONE" /\ g_last_mcause' = 0

Restart(r) ==
    /\ reason' = r
    /\ pc' = "boot"
    /\ panics' = FALSE
    /\ told' = "nothing"
    /\ RtcAfter(r)
    /\ UNCHANGED preInit

\* A trigger does what it is there for.
TriggeredReset ==
    \/ pc = "esp_restart" /\ Restart("SW")
    \/ pc = "null_write" /\ Restart("PANIC")
    \/ pc = "spin" /\ panics /\ Restart("TASK_WDT")

-----------------------------------------------------------------------------

Init ==
    /\ preInit \in BOOLEAN
    /\ pc = "boot" /\ reason = "POWERON"
    /\ g_boot_count = 0 /\ g_trigger = "NONE" /\ g_last_mcause = 0
    /\ panics = FALSE
    /\ told = "nothing"

Program ==
    \/ CountBoot \/ Diagnose \/ SaveException \/ SetTrigger \/ InitTwdt
    \/ TriggeredReset

=============================================================================
