------------------------------ MODULE OtaSwitch ------------------------------
(***************************************************************************)
(* examples/17_ota_mmu: the first boot after power-on is to record in RTC  *)
(* memory which partition it runs from, point otadata at another OTA       *)
(* partition and restart; the boot after it compares the record with what  *)
(* it runs from.  otadata is in flash and outlives every reset.            *)
(***************************************************************************)
EXTENDS Naturals, Sequences

CONSTANTS
    Table,    \* the app partitions, in the order of the partition table
    RtcKept   \* the reset reasons after which RTC_DATA_ATTR variables are kept

Apps == {Table[i] : i \in DOMAIN Table}
IsOta(p) == p # "factory"

VARIABLES
    valid,   \* partitions that hold a valid image
    otadata, \* flash: the partition the bootloader starts
    running, \* the partition this boot runs from
    pc,
    g_boot_count,
    g_prev,  \* g_prev_flash_offset and g_prev_label; "none" is offset 0
    told     \* what part C of app_main prints

rtc  == <<g_boot_count, g_prev>>
vars == <<valid, otadata, running, pc, rtc, told>>

-----------------------------------------------------------------------------
(* app_main and switch_to_other_ota *)

CountBoot ==
    /\ pc = "boot"
    /\ g_boot_count' = g_boot_count + 1
    /\ pc' = "compare"
    /\ UNCHANGED <<valid, otadata, running, g_prev, told>>

Compare ==
    /\ pc = "compare"
    /\ told' = CASE g_boot_count = 1 \/ g_prev = "none" -> "nothing"
                 [] OTHER -> IF running # g_prev THEN "changed" ELSE "same"
    /\ pc' = IF g_boot_count = 1 THEN "record" ELSE "done"
    /\ UNCHANGED <<valid, otadata, running, rtc>>

\* The first OTA partition of the table other than the running one
Others == {i \in DOMAIN Table : Table[i] # running /\ IsOta(Table[i])}
Target == Table[CHOOSE i \in Others : \A j \in Others : i <= j]

Record ==
    /\ pc = "record"
    /\ IF Others = {} THEN pc' = "done" /\ UNCHANGED g_prev
                      ELSE pc' = "set_boot" /\ g_prev' = running
    /\ UNCHANGED <<valid, otadata, running, g_boot_count, told>>

\* Refused for a partition without a valid image; a flash error fails too
SetBootPartition ==
    /\ pc = "set_boot"
    /\ \/ Target \in valid /\ otadata' = Target /\ pc' = "esp_restart"
       \/ UNCHANGED otadata /\ pc' = "done"
    /\ UNCHANGED <<valid, running, rtc, told>>

Restart ==
    /\ pc = "esp_restart"
    /\ running' = otadata
    /\ pc' = "boot"
    /\ told' = "nothing"
    /\ IF "SW" \in RtcKept THEN UNCHANGED rtc ELSE g_boot_count' = 0 /\ g_prev' = "none"
    /\ UNCHANGED <<valid, otadata>>

-----------------------------------------------------------------------------

Init ==
    /\ valid \in SUBSET Apps /\ otadata \in valid /\ running = otadata
    /\ pc = "boot" /\ g_boot_count = 0 /\ g_prev = "none"
    /\ told = "nothing"

Program == CountBoot \/ Compare \/ Record \/ SetBootPartition \/ Restart

=============================================================================
