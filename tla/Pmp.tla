--------------------------------- MODULE Pmp ---------------------------------
(***************************************************************************)
(* examples/16_pmp_sandbox: entry 6 of the PMP is set to make a buffer     *)
(* read-only, read back, tried and switched off again.  Configuration      *)
(* bytes are packed four to a register; entry 6 is byte 2 of pmpcfg1.      *)
(*                                                                         *)
(* The registers behave as the RISC-V privileged architecture says: what a *)
(* locked entry holds cannot be written, and neither can the address below *)
(* a locked TOR entry, which is its lower bound; the lowest entry that     *)
(* matches decides; and only a locked entry binds machine mode, which the  *)
(* program runs in.                                                        *)
(***************************************************************************)
EXTENDS Integers, FiniteSetsExt

CONSTANTS
    Size,     \* of g_protected: 256 in the code, a power of two from 8
    Bases,    \* where the linker may put it: multiples of Size
    Below,    \* pmpaddr3, from which a TOR entry 4 begins
    Boot      \* what byte and address ESP-IDF may have left in entries 4 to 7

Modes == {"OFF", "TOR", "NA4", "NAPOT"}

Off == [R |-> FALSE, W |-> FALSE, X |-> FALSE, A |-> "OFF", L |-> FALSE]
ReadOnly == [Off EXCEPT !.R = TRUE, !.A = "NAPOT"]

VARIABLES
    base,          \* the address of g_protected
    pmpcfg1,       \* its four bytes
    pmpaddr,       \* of the entries 4 to 7
    cfg1,          \* app_main's copy of pmpcfg1
    ppc,           \* where app_main is
    ok,            \* what the reading back finds: <<address, byte>>
    g_protected,   \* its first byte
    panicked,
    atBoot         \* history: the entries at boot

pmpVs == <<pmpcfg1, pmpaddr>>
vars  == <<base, pmpVs, cfg1, ppc, ok, g_protected, panicked, atBoot>>

Byte(i)  == pmpcfg1[i % 4]
Entry(i) == [byte |-> Byte(i), addr |-> pmpaddr[i]]

-----------------------------------------------------------------------------
(* The PMP *)

\* Addresses a NAPOT entry covers: as many as its trailing ones say
TrailingOnes(a) == CHOOSE k \in 0..a : a % 2^(k + 1) = 2^k - 1

Napot(a) ==
    LET k    == TrailingOnes(a)
        from == (a - (2^k - 1)) * 4
    IN  from..(from + 2^(k + 3) - 1)

Matched(mode, under, a) ==
    CASE mode = "OFF"   -> {}
      [] mode = "TOR"   -> (under * 4)..(a * 4 - 1)
      [] mode = "NA4"   -> (a * 4)..(a * 4 + 3)
      [] mode = "NAPOT" -> Napot(a)

Covers(i) == Matched(Byte(i).A, IF i = 4 THEN Below ELSE pmpaddr[i - 1], pmpaddr[i])

LockedTor(b) == b.L /\ b.A = "TOR"
AddrLocked(i) == Byte(i).L \/ (i < 7 /\ LockedTor(Byte(i + 1)))

WriteAddr(i, a) == [pmpaddr EXCEPT ![i] = IF AddrLocked(i) THEN @ ELSE a]

WriteCfg1(w) == [b \in 0..3 |-> IF pmpcfg1[b].L THEN pmpcfg1[b] ELSE w[b]]

\* A store in machine mode
StoreFaults(address) ==
    LET matching == {i \in 4..7 : address \in Covers(i)}
    IN  matching # {} /\ LET b == Byte(Min(matching)) IN b.L /\ ~b.W

-----------------------------------------------------------------------------
(* app_main *)

Go(from, to) == ~panicked /\ ppc = from /\ ppc' = to

\* Faulty: the mask is of size - 1, as for a range that is not halved.
Faulty_napot_encode(b, size) == (b + size - 1) \div 4

\* b is a multiple of size, so "|" adds.
napot_encode(b, size) == (b + (size \div 2 - 1)) \div 4

ProtectAddr ==
    /\ Go("addr", "read cfg")
    /\ pmpaddr' = WriteAddr(6, napot_encode(base, Size))
    /\ UNCHANGED <<base, pmpcfg1, cfg1, ok, g_protected, panicked, atBoot>>

ReadCfg1 ==
    /\ Go("read cfg", "write cfg") \/ Go("disable", "write off")
    /\ cfg1' = pmpcfg1
    /\ UNCHANGED <<base, pmpVs, ok, g_protected, panicked, atBoot>>

WriteCfg ==
    /\ Go("write cfg", "verify")
    /\ pmpcfg1' = WriteCfg1([cfg1 EXCEPT ![2] = ReadOnly])
    /\ UNCHANGED <<base, pmpaddr, cfg1, ok, g_protected, panicked, atBoot>>

Verify ==
    /\ Go("verify", "store")
    /\ ok' = <<pmpaddr[6] = napot_encode(base, Size), pmpcfg1[2] = ReadOnly>>
    /\ UNCHANGED <<base, pmpVs, cfg1, g_protected, panicked, atBoot>>

\* test_write_access begins with a store to the buffer, protected by now.
Store ==
    /\ Go("store", "disable")
    /\ IF StoreFaults(base) THEN panicked' = TRUE /\ UNCHANGED g_protected
                            ELSE g_protected' = "0xAB" /\ UNCHANGED panicked
    /\ UNCHANGED <<base, pmpVs, cfg1, ok, atBoot>>

pmp_disable_entry6 ==
    /\ Go("write off", "returned")
    /\ pmpcfg1' = WriteCfg1([cfg1 EXCEPT ![2] = Off])
    /\ UNCHANGED <<base, pmpaddr, cfg1, ok, g_protected, panicked, atBoot>>

Stay == (panicked \/ ppc = "returned") /\ UNCHANGED vars

Init ==
    /\ base \in Bases
    /\ atBoot \in [4..7 -> Boot]
    /\ pmpcfg1 = [b \in 0..3 |-> atBoot[b + 4].byte]
    /\ pmpaddr = [i \in 4..7 |-> atBoot[i].addr]
    /\ cfg1 = [b \in 0..3 |-> Off] /\ ppc = "addr" /\ ok = <<FALSE, FALSE>>
    /\ g_protected = "0x00" /\ panicked = FALSE

Next ==
    \/ ProtectAddr \/ ReadCfg1 \/ WriteCfg \/ Verify \/ Store
    \/ pmp_disable_entry6 \/ Stay

Spec == Init /\ [][Next]_vars

-----------------------------------------------------------------------------
(* Properties *)

\* Every variable stays in its domain.
TypeOK ==
    /\ base \in Bases /\ atBoot \in [4..7 -> Boot]
    /\ \A b \in 0..3 : pmpcfg1[b].A \in Modes /\ cfg1[b].A \in Modes
    /\ DOMAIN pmpaddr = 4..7 /\ ok \in BOOLEAN \X BOOLEAN
    /\ ppc \in {"addr", "read cfg", "write cfg", "verify", "store", "disable",
                "write off", "returned"}
    /\ panicked \in BOOLEAN /\ g_protected \in {"0x00", "0xAB"}

CoveredAtBoot(i) ==
    Matched(atBoot[i].byte.A, IF i = 4 THEN Below ELSE atBoot[i - 1].addr, atBoot[i].addr)

\* When both readings back say OK, entry 6 covers the buffer and not a byte
\* more; the registers of the entries packed with it are what they were at
\* boot throughout, and so is the memory they cover, but for a TOR entry 7
\* that is not locked: it begins where pmpaddr6 says, and moves with it; and in
\* the end entry 6 is off again, unless ESP-IDF had locked it.
OnlyTheBuffer ==
    /\ ppc \in {"store", "disable"} /\ ok = <<TRUE, TRUE>> =>
            Covers(6) = base..(base + Size - 1)
    /\ \A i \in {4, 5, 7} :
            /\ Entry(i) = atBoot[i]
            /\ \/ Covers(i) = CoveredAtBoot(i)
               \/ i = 7 /\ atBoot[7].byte.A = "TOR" /\ ~atBoot[7].byte.L
    /\ ppc = "returned" => Entry(6).byte = IF atBoot[6].byte.L THEN atBoot[6].byte ELSE Off

\* Lines 198 and 204: when entry 6 makes the buffer read-only, a store to it is
\* a Store Access Fault, which the system panics on.
StoreFaulted ==
    ppc = "disable" /\ ok = <<TRUE, TRUE>> => panicked

=============================================================================
