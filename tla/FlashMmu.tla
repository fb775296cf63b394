------------------------------- MODULE FlashMmu -------------------------------
(***************************************************************************)
(* examples/15_flash_mmu and the same translation in 17_ota_mmu: the flash *)
(* offset behind a virtual address is worked out from the MMU table, for   *)
(* the code that runs and for a partition that is mapped; entries of both  *)
(* buses are in the one table, by page.                                    *)
(*                                                                         *)
(* The table and its valid bit are what these two examples take them to    *)
(* be; the bootloader and esp_partition_mmap, which fill it, are external. *)
(***************************************************************************)
EXTENDS Integers, FiniteSets

CONSTANTS
    PageSize,   \* 64 KB
    Entries,    \* of the table
    FlashSize,
    IBUS, DBUS, \* 0x42000000 and 0x3C000000
    Window      \* 0x2000000, of either bus

\* The parameters fit together: the table serves addresses of both windows,
\* and IRAM, at 0x40370000, is between the two.
ParametersFit ==
    /\ Entries * PageSize <= Window /\ DBUS + Window < IBUS
    /\ FlashSize % PageSize = 0

Invalid == [valid |-> FALSE, page |-> 0]
Pages == 0..(FlashSize \div PageSize - 1)

VARIABLES
    table,        \* the MMU's
    app_main,     \* the address of app_main; below IBUS if it is in IRAM
    codeAt,       \* and where in the flash it is
    part,         \* the partition: address and size, <<>> if there is none
    mptr,         \* where it is mapped
    mpc,          \* where app_main is
    ret, paddr,   \* of the translation made last
    dumped        \* the entries that dump_mmu_range prints, then dump_ibus_pages

placed == <<app_main, codeAt, part>>
vars   == <<placed, table, mptr, mpc, ret, paddr, dumped>>

-----------------------------------------------------------------------------
(* Translation *)

\* Faulty: the offset within the page is forgotten.
FaultyFlashOffset(entry, distance) == entry.page * PageSize

FlashOffset(entry, distance) == entry.page * PageSize + (distance % PageSize)

TranslateFrom(base, vaddr) ==
    LET entry == table[(vaddr - base) \div PageSize]
    IN  IF entry.valid THEN <<"ok", FlashOffset(entry, vaddr - base)>> ELSE <<"-2", 0>>

In(vaddr, base) == vaddr >= base /\ vaddr < base + Window

vaddr_to_flash_offset(vaddr) ==
    CASE In(vaddr, IBUS) -> TranslateFrom(IBUS, vaddr)
      [] In(vaddr, DBUS) -> TranslateFrom(DBUS, vaddr)
      [] OTHER -> <<"-1", 0>>

\* 17's, for code only and without an upper bound
vaddr_to_flash(vaddr) == IF vaddr < IBUS THEN <<"-1", 0>> ELSE TranslateFrom(IBUS, vaddr)

-----------------------------------------------------------------------------
(* Dumps *)

\* 15: the first entries, up to an invalid one, which is shown; it looks at
\* eight, and for either bus at the same ones
dump_mmu_range(pages) ==
    {i \in 0..(pages - 1) : \A j \in 0..(i - 1) : table[j].valid}

\* 17: the first valid entries
dump_ibus_pages(max) ==
    {i \in 0..(Entries - 1) : table[i].valid /\ Cardinality({j \in 0..(i - 1) : table[j].valid}) < max}

-----------------------------------------------------------------------------
(* app_main *)

Go(from, to) == mpc = from /\ mpc' = to

TranslateCode ==
    /\ Go("code", "dump")
    /\ ret' = vaddr_to_flash_offset(app_main)[1]
    /\ paddr' = vaddr_to_flash_offset(app_main)[2]
    /\ UNCHANGED <<placed, table, mptr, dumped>>

Dump ==
    /\ Go("dump", "map")
    /\ dumped' = <<dump_mmu_range(Entries), dump_ibus_pages(Entries)>>
    /\ UNCHANGED <<placed, table, mptr, ret, paddr>>

\* esp_partition_mmap needs as many free entries in a row as the partition
\* touches pages; the pointer is as far into the first as the partition is.
PagesOf(p) == (p.address \div PageSize)..((p.address + p.size - 1) \div PageSize)

Free(first, n) ==
    /\ first + n <= Entries
    /\ \A i \in first..(first + n - 1) : ~table[i].valid

MapPartition ==
    /\ Go("map", "mapped") /\ part # <<>>
    /\ \E first \in 0..(Entries - 1) :
          LET n  == Cardinality(PagesOf(part[1]))
              p0 == part[1].address \div PageSize
          IN  /\ Free(first, n)
              /\ table' = [i \in DOMAIN table |->
                              IF i \in first..(first + n - 1)
                              THEN [valid |-> TRUE, page |-> p0 + (i - first)] ELSE table[i]]
              /\ mptr' = DBUS + first * PageSize + (part[1].address % PageSize)
    /\ UNCHANGED <<placed, ret, paddr, dumped>>

\* No partition, or the mapping fails
SkipPartition ==
    /\ Go("map", "returned")
    /\ UNCHANGED <<placed, table, mptr, ret, paddr, dumped>>

TranslateMapped ==
    /\ Go("mapped", "translated")
    /\ ret' = vaddr_to_flash_offset(mptr)[1]
    /\ paddr' = vaddr_to_flash_offset(mptr)[2]
    /\ UNCHANGED <<placed, table, mptr, dumped>>

Unmap ==
    /\ Go("translated", "returned")
    /\ LET first == (mptr - DBUS) \div PageSize
           n     == Cardinality(PagesOf(part[1]))
       IN  table' = [i \in DOMAIN table |-> IF i \in first..(first + n - 1) THEN Invalid ELSE table[i]]
    /\ UNCHANGED <<placed, mptr, ret, paddr, dumped>>

Stay == mpc = "returned" /\ UNCHANGED vars

\* The bootloader has mapped the page app_main is in, and others maybe; a
\* partition lies within the flash.
MmuInit ==
    /\ codeAt \in 0..(FlashSize - 1)
    /\ \/ \E i \in 0..(Entries - 1), rest \in SUBSET (0..(Entries - 1)) :
             /\ app_main = IBUS + i * PageSize + (codeAt % PageSize)
             /\ i \in rest
             /\ table = [j \in 0..(Entries - 1) |->
                            IF j \in rest
                            THEN [valid |-> TRUE, page |-> ((codeAt \div PageSize) + (j - i)) % Cardinality(Pages)]
                            ELSE Invalid]
       \/ app_main = IBUS - 1 /\ table = [j \in 0..(Entries - 1) |-> Invalid]
    /\ part \in {<<>>} \cup
                {<<[address |-> a, size |-> s]>> : a \in {1, PageSize}, s \in {1, PageSize}}
    /\ part # <<>> => part[1].address + part[1].size <= FlashSize
    /\ mptr = 0 /\ mpc = "code" /\ ret = "none" /\ paddr = 0 /\ dumped = <<{}, {}>>

Next ==
    \/ TranslateCode \/ Dump \/ MapPartition \/ SkipPartition
    \/ TranslateMapped \/ Unmap \/ Stay

-----------------------------------------------------------------------------
(* Properties *)

\* Every variable stays in its domain.
TypeOK ==
    /\ DOMAIN table = 0..(Entries - 1)
    /\ \A i \in DOMAIN table : table[i].valid \in BOOLEAN /\ table[i].page \in Pages
    /\ mpc \in {"code", "dump", "map", "mapped", "translated", "returned"}
    /\ ret \in {"none", "ok", "-1", "-2"} /\ paddr \in 0..(FlashSize - 1)
    /\ dumped[1] \cup dumped[2] \subseteq DOMAIN table

\* The offset worked out from the table is where the code or the partition is
\* in the flash, wherever in its page it starts and whichever entries are used
\* (line 159: the partition's address is found again); code in IRAM has none;
\* both examples say the same of the code.
Translates ==
    /\ mpc = "dump" => <<ret, paddr>> = IF app_main < IBUS THEN <<"-1", 0>> ELSE <<"ok", codeAt>>
    /\ mpc = "dump" => vaddr_to_flash(app_main) = <<ret, paddr>>
    /\ mpc = "translated" => <<ret, paddr>> = <<"ok", part[1].address>>

=============================================================================
