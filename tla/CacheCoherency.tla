---------------------------- MODULE CacheCoherency ----------------------------
(***************************************************************************)
(* examples/14_cache_coherency: a piece of the NVS partition is written    *)
(* with pattern A, read through the cache, written with pattern B, and     *)
(* read twice more: before and after the cache is told to forget it.       *)
(*                                                                         *)
(* One byte stands for the 64, as the set of its bits that are 1.  Writing *)
(* to NOR flash only clears bits; erasing sets them, in whole sectors, and *)
(* is refused otherwise.  The example looks at no result of either.        *)
(***************************************************************************)
EXTENDS Naturals

CONSTANTS
    SectorSizes, \* 4096 is the only one of the chip's flash; the example takes
                 \* it to be no larger than what it writes
    TestSize,    \* 64
    Contents     \* what the byte may hold at the start

Erased == 0..7
PatternA == {7, 5, 3, 1}       \* 0xAA
PatternB == {7, 5, 4, 3, 1, 0} \* 0xBB

VARIABLES
    sector,     \* the unit of erasing
    partition,  \* "none", "small" or "large_enough"
    flash,      \* the byte in the flash
    line,       \* what the cache has of it, <<>> for nothing
    writeDrops, \* this ESP-IDF forgets cached lines as it erases and writes
    msync,      \* esp_cache_msync: "missing", "fails" or "works"
    cpc,        \* where app_main is
    mapped, read_buf, said,
    initially   \* history: flash at the start

board == <<sector, partition, writeDrops, msync, initially>>
vars  == <<board, flash, line, cpc, mapped, read_buf, said>>

-----------------------------------------------------------------------------
(* The flash and its cache *)

esp_partition_erase_range(b) == IF TestSize % sector = 0 THEN Erased ELSE b

esp_partition_write(b, pattern) == b \cap pattern

Rewritten(pattern) == esp_partition_write(esp_partition_erase_range(flash), pattern)

Rewrite(pattern) ==
    /\ flash' = Rewritten(pattern)
    /\ line' = IF writeDrops THEN <<>> ELSE line

Evict ==
    /\ line # <<>>
    /\ line' = <<>>
    /\ UNCHANGED <<board, flash, cpc, mapped, read_buf, said>>

Read ==
    /\ read_buf' = IF line = <<>> THEN flash ELSE line[1]
    /\ line' = <<read_buf'>>

-----------------------------------------------------------------------------
(* app_main *)

Go(from, to) == cpc = from /\ cpc' = to

\* No partition, a partition too small, or esp_partition_mmap fails
GiveUp ==
    /\ Go("find", "returned")
    /\ UNCHANGED <<board, flash, line, mapped, read_buf, said>>

Map ==
    /\ Go("find", "writeA") /\ partition = "large_enough"
    /\ mapped' = TRUE
    /\ UNCHANGED <<board, flash, line, read_buf, said>>

WriteA ==
    /\ Go("writeA", "warm")
    /\ Rewrite(PatternA)
    /\ UNCHANGED <<board, mapped, read_buf, said>>

Warm ==
    /\ Go("warm", "writeB")
    /\ Read
    /\ UNCHANGED <<board, flash, mapped, said>>

WriteB ==
    /\ Go("writeB", "read")
    /\ Rewrite(PatternB)
    /\ UNCHANGED <<board, mapped, read_buf, said>>

ReadBefore ==
    /\ Go("read", "sync")
    /\ Read
    /\ said' = CASE read_buf' = PatternA -> "stale"
                 [] read_buf' = PatternB -> "already_invalidated"
                 [] OTHER -> "unexpected"
    /\ UNCHANGED <<board, flash, mapped>>

\* Faulty: the line is still cached when it is read again.
Faulty_invalidate ==
    /\ Go("sync", "reread")
    /\ UNCHANGED <<board, flash, line, mapped, read_buf, said>>

invalidate_cache_region ==
    /\ Go("sync", "reread")
    /\ line' = IF msync = "works" THEN <<>> ELSE line
    /\ UNCHANGED <<board, flash, mapped, read_buf, said>>

ReadAfter ==
    /\ Go("reread", "restore")
    /\ Read
    /\ said' = IF read_buf' = PatternB THEN "fresh" ELSE "other"
    /\ UNCHANGED <<board, flash, mapped>>

Restore ==
    /\ Go("restore", "returned")
    /\ Rewrite(PatternA)
    /\ mapped' = FALSE
    /\ UNCHANGED <<board, read_buf, said>>

Stay == cpc = "returned" /\ UNCHANGED vars

Init ==
    /\ sector \in SectorSizes /\ partition \in {"none", "small", "large_enough"}
    /\ flash \in Contents /\ initially = flash
    /\ writeDrops \in BOOLEAN /\ msync \in {"missing", "fails", "works"}
    /\ line = <<>> /\ cpc = "find" /\ mapped = FALSE
    /\ read_buf = {} /\ said = "nothing"

Next ==
    \/ GiveUp \/ Map \/ WriteA \/ Warm \/ WriteB \/ ReadBefore
    \/ invalidate_cache_region \/ ReadAfter \/ Restore \/ Stay
    \/ Evict

Spec == Init /\ [][Next]_vars

-----------------------------------------------------------------------------
(* Properties *)

\* Every variable stays in its domain; the cache has nothing that is unmapped.
TypeOK ==
    /\ sector \in SectorSizes /\ partition \in {"none", "small", "large_enough"}
    /\ flash \subseteq Erased /\ initially \in Contents /\ read_buf \subseteq Erased
    /\ line = <<>> \/ line[1] \subseteq Erased
    /\ {writeDrops, mapped} \subseteq BOOLEAN /\ msync \in {"missing", "fails", "works"}
    /\ cpc \in {"find", "writeA", "warm", "writeB", "read", "sync", "reread",
                "restore", "returned"}
    /\ said \in {"nothing", "stale", "already_invalidated", "unexpected", "fresh", "other"}

\* What the flash holds once line 148 has written pattern A
AfterA == esp_partition_write(esp_partition_erase_range(initially), PatternA)

\* Lines 182-185, "Fresh": the read after esp_cache_msync is of what the flash
\* holds when the call works, or the writes before it forget the line.  When
\* neither is so - the call is missing or fails, and the ESP-IDF keeps lines -
\* it is of that or of what the flash held before pattern B, and of nothing else.
FreshAfterInvalidation ==
    cpc = "restore" =>
        \/ read_buf = flash
        \/ msync # "works" /\ ~writeDrops /\ read_buf = AfterA

\* Line 171: "Stale Data" is reported when the cache holds an old value.
StaleMeansStale ==
    said = "stale" => line = <<>> \/ line[1] # flash

=============================================================================
