------------------------------- MODULE CoreDump -------------------------------
(***************************************************************************)
(* examples/21_core_dump: the first boot after power-on reads address 0    *)
(* after three seconds; the panic handler writes a core dump to flash and  *)
(* restarts; the boot after it is to look at the first bytes of the        *)
(* partition.                                                              *)
(***************************************************************************)
EXTENDS Naturals

CONSTANT RtcKept   \* the reset reasons after which RTC_DATA_ATTR variables are kept

VARIABLES
    format,    \* what a dump starts with: "ELF", or a "length"
    partition, \* the partition table has a coredump partition
    dump,      \* its first bytes: "erased", "ELF" or "length"
    pc,
    g_boot_count,
    told       \* what check_dump_content says

vars == <<format, partition, dump, pc, g_boot_count, told>>

CountBoot ==
    /\ pc = "boot"
    /\ g_boot_count' = g_boot_count + 1
    /\ pc' = IF g_boot_count' = 1 THEN "crash" ELSE "check"
    /\ UNCHANGED <<format, partition, dump, told>>

\* level3_crash
Crash ==
    /\ pc = "crash"
    /\ pc' = IF partition THEN "erase" ELSE "restart"
    /\ UNCHANGED <<format, partition, dump, g_boot_count, told>>

\* The panic handler erases the partition and writes it from the front.
Erase ==
    /\ pc = "erase"
    /\ dump' = "erased"
    /\ pc' = "write"
    /\ UNCHANGED <<format, partition, g_boot_count, told>>

WriteDump ==
    /\ pc = "write"
    /\ dump' = format
    /\ pc' = "restart"
    /\ UNCHANGED <<format, partition, g_boot_count, told>>

Header(d) ==
    CASE d = "ELF" -> "valid" [] d = "erased" -> "none" [] OTHER -> "unknown"

\* find_coredump_partition and check_dump_content; the read may fail.
CheckDump ==
    /\ pc = "check"
    /\ told' \in IF partition THEN {Header(dump), "read error"} ELSE {"no partition"}
    /\ pc' = "done"
    /\ UNCHANGED <<format, partition, dump, g_boot_count>>

PanicReset ==
    /\ pc = "restart"
    /\ pc' = "boot"
    /\ told' = "nothing"
    /\ g_boot_count' = IF "PANIC" \in RtcKept THEN g_boot_count ELSE 0
    /\ UNCHANGED <<format, partition, dump>>

Init ==
    /\ format \in {"ELF", "length"} /\ partition \in BOOLEAN
    /\ dump \in {"erased", format}
    /\ pc = "boot" /\ g_boot_count = 0 /\ told = "nothing"

Program == CountBoot \/ Crash \/ Erase \/ WriteDump \/ CheckDump \/ PanicReset

=============================================================================
