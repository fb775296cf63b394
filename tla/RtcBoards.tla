------------------------------ MODULE RtcBoards ------------------------------
(***************************************************************************)
(* Three boards side by side, flashed with the examples that count their   *)
(* boots in an RTC_DATA_ATTR variable in order to reset the chip only once *)
(* per cause: BootDiagnosis, OtaSwitch and CoreDump.  The boards share     *)
(* nothing but the rule by which the platform keeps RTC memory.            *)
(***************************************************************************)
EXTENDS BootDiagnosis

CONSTANT Table   \* 17: the app partitions, in the order of the partition table

VARIABLES
    valid, otadata, running, o_pc, o_count, g_prev, o_told,
    format, partition, dump, c_pc, c_count, c_told

O == INSTANCE OtaSwitch WITH pc <- o_pc, g_boot_count <- o_count, told <- o_told
C == INSTANCE CoreDump WITH pc <- c_pc, g_boot_count <- c_count, told <- c_told

oVars     == <<valid, otadata, running, o_pc, o_count, g_prev, o_told>>
cVars     == <<format, partition, dump, c_pc, c_count, c_told>>
boardVars == <<vars, oVars, cVars>>

\* ESP-IDF loads the initial values of RTC_DATA_ATTR variables at every boot
\* that is not a wakeup from deep sleep.
DeepSleepOnly == {"DEEPSLEEP"}

FactoryTable == <<"factory", "ota_0", "ota_1">>

BootDiagnosisStep == Program /\ UNCHANGED <<oVars, cVars>>
OtaSwitchStep     == O!Program /\ UNCHANGED <<vars, cVars>>
CoreDumpStep      == C!Program /\ UNCHANGED <<vars, oVars>>

BoardsInit == Init /\ O!Init /\ C!Init

\* app_main has returned on every board; in 18 it may also spin under a
\* watchdog that only warns.
Ended == (pc = "spin" /\ ~panics) \/ pc = "done"
AllEnded == Ended /\ o_pc = "done" /\ c_pc = "done" /\ UNCHANGED boardVars

BoardsNext == BootDiagnosisStep \/ OtaSwitchStep \/ CoreDumpStep \/ AllEnded

\* Each board's processor runs on.
BoardsSpec ==
    /\ BoardsInit /\ [][BoardsNext]_boardVars
    /\ WF_boardVars(BootDiagnosisStep)
    /\ WF_boardVars(OtaSwitchStep)
    /\ WF_boardVars(CoreDumpStep)

\* "Boot 4: diagnosis -> end" (18), "Boot 2: compare, and finished" (17),
\* "second and later boots: look at the dump" (21): of the three boards at
\* least one stops resetting itself and ends the scenario of its example.
SomeScenarioEnds ==
    <>[](pc = "done") \/ <>[](o_pc = "done") \/ <>[](c_pc = "done")

=============================================================================
