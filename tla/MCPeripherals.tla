---------------------------- MODULE MCPeripherals ----------------------------
(* One board, flashed with one of the examples about the chip's counters,   *)
(* interrupts, timers, caches, address translation, protection and heap.    *)
(* Which one is chosen at the start; the variables of the others stay.      *)
EXTENDS Mcycle64, FiniteSets

CONSTANTS
    Chars, BufSize, MaxTyped,                               \* UartEcho's
    CounterWrap, MaxLate, PollLimit, Sane, SAMPLES, Buckets, \* IsrLatency's
    DaemonPrios, SAMPLE_N, Shots,                           \* TimerCompare's
    SectorSizes, TestSize, Contents,                        \* CacheCoherency's
    PageSize, Entries, FlashSize, IBUS, DBUS, Window,       \* FlashMmu's
    Size, Bases, Below, Boot,                               \* Pmp's
    Cells, Taken, SMALL_N, LargeCells, PoolCells, POOL_SLOT_SZ, POOL_SLOT_N \* HeapPool's

VARIABLES
    example,
    typed, read, epc, buf, idx, echoed, hpc,
    jumper, cycle, ipc, pinHigh, pending, g_trigger_cycle, g_isr_cycle,
    g_sample_ready, polls, data, histogram, age, took,
    daemonPrio, prev, tcount, summed, recording, tpc, stopped, printed, shot,
    fired, low, firedAt, actual,
    sector, partition, flash, line, writeDrops, msync, cpc, mapped, read_buf, said, initially,
    table, app_main, codeAt, part, mptr, mpc, ret, paddr, dumped,
    base, pmpcfg1, pmpaddr, cfg1, ppc, ok, g_protected, panicked, atBoot,
    others, cell, ptrs, large, g_pool, used, s, loop_i, apc, got, misuse, holder, shared,
    repeated,
    dpc, allocated, bus, devices, moved, wrong

uVars == <<typed, read, epc, buf, idx, echoed, hpc>>
iVars == <<jumper, cycle, ipc, pinHigh, pending, g_trigger_cycle, g_isr_cycle,
           g_sample_ready, polls, data, histogram, age, took>>
tVars == <<daemonPrio, prev, tcount, summed, recording, tpc, stopped, printed, shot,
           fired, low, firedAt, actual>>
cVars == <<sector, partition, flash, line, writeDrops, msync, cpc, mapped, read_buf, said, initially>>
mVars == <<table, app_main, codeAt, part, mptr, mpc, ret, paddr, dumped>>
pVars == <<base, pmpcfg1, pmpaddr, cfg1, ppc, ok, g_protected, panicked, atBoot>>
hVars == <<others, cell, ptrs, large, g_pool, used, s, loop_i, apc, got, misuse, holder, shared,
           repeated>>
dVars == <<dpc, allocated, bus, devices, moved, wrong>>
boardVars == <<example, vars, uVars, iVars, tVars, cVars, mVars, pVars, hVars, dVars>>

U == INSTANCE UartEcho
I == INSTANCE IsrLatency WITH Wrap <- CounterWrap
T == INSTANCE TimerCompare
C == INSTANCE CacheCoherency
M == INSTANCE FlashMmu
P == INSTANCE Pmp
H == INSTANCE HeapPool WITH i <- loop_i
D == INSTANCE DmaLoopback

\* What the parameters have in common with those of the chip and the examples
ASSUME ParametersAssumption ==
    /\ CounterWrap \in Nat /\ MaxLate \in Nat /\ MaxLate < CounterWrap
    /\ SAMPLE_N \in Nat /\ Shots \in Nat /\ DaemonPrios \subseteq Nat
    /\ \A b \in Contents : b \subseteq C!Erased
    /\ PageSize \in Nat \ {0} /\ {Entries, FlashSize, IBUS, DBUS, Window} \subseteq Nat
    /\ M!ParametersFit
    /\ Cells \in Nat /\ \A cs \in Taken : cs \subseteq 0..(Cells - 1)
    /\ {SMALL_N, LargeCells, PoolCells, POOL_SLOT_SZ, POOL_SLOT_N} \subseteq Nat \ {0}

\* The line buffer has room for a character and the NUL.
ASSUME EchoAssumption ==
    BufSize \in Nat /\ BufSize > 1 /\ Chars \cap U!LineEnds = {}

\* There is something to wait for and to print of the latencies.
ASSUME LatencyAssumption == {SAMPLES, Buckets, PollLimit} \subseteq Nat \ {0}

\* The protected buffer is aligned to its size, a power of two from 8.
ASSUME PmpAssumption ==
    /\ Size \in Nat /\ \E k \in 0..Size : Size = 2^(k + 3)
    /\ \A b \in Bases : b \in Nat /\ b % Size = 0
    /\ Below \in Nat
    /\ Boot \subseteq [byte : [R : BOOLEAN, W : BOOLEAN, X : BOOLEAN,
                              A : P!Modes, L : BOOLEAN], addr : Nat]

Examples == {"01", "02", "10", "23", "14", "15", "16", "19", "20"}

\* What an example leaves open at the start is fixed when it is not flashed.
Fixed(options) == CHOOSE x \in options : TRUE

BoardInit ==
    /\ example \in Examples
    /\ Init /\ U!Init /\ T!Init /\ D!Init
    /\ IF example = "10" THEN I!Init ELSE I!Init /\ jumper
    /\ example # "23" => daemonPrio = Fixed(DaemonPrios)
    /\ C!Init /\ (example # "14" => /\ sector = Fixed(SectorSizes) /\ partition = "none"
                                 /\ flash = Fixed(Contents) /\ writeDrops /\ msync = "works")
    /\ IF example = "15" THEN M!MmuInit
       ELSE table = <<>> /\ app_main = 0 /\ codeAt = 0 /\ part = <<>> /\ mptr = 0
            /\ mpc = "returned" /\ ret = "none" /\ paddr = 0 /\ dumped = <<{}, {}>>
    /\ P!Init /\ (example # "16" => base = Fixed(Bases) /\ atBoot = [k \in 4..7 |-> Fixed(Boot)])
    /\ H!Init /\ (example # "19" => others = Fixed(Taken))

BoardNext ==
    /\ UNCHANGED example
    /\ \/ /\ example = "01" /\ Next
          /\ UNCHANGED <<uVars, iVars, tVars, cVars, mVars, pVars, hVars, dVars>>
       \/ /\ example = "02" /\ U!Next
          /\ UNCHANGED <<vars, iVars, tVars, cVars, mVars, pVars, hVars, dVars>>
       \/ /\ example = "10" /\ I!Next
          /\ UNCHANGED <<vars, uVars, tVars, cVars, mVars, pVars, hVars, dVars>>
       \/ /\ example = "23" /\ T!Next
          /\ UNCHANGED <<vars, uVars, iVars, cVars, mVars, pVars, hVars, dVars>>
       \/ /\ example = "14" /\ C!Next
          /\ UNCHANGED <<vars, uVars, iVars, tVars, mVars, pVars, hVars, dVars>>
       \/ /\ example = "15" /\ M!Next
          /\ UNCHANGED <<vars, uVars, iVars, tVars, cVars, pVars, hVars, dVars>>
       \/ /\ example = "16" /\ P!Next
          /\ UNCHANGED <<vars, uVars, iVars, tVars, cVars, mVars, hVars, dVars>>
       \/ /\ example = "19" /\ H!Next
          /\ UNCHANGED <<vars, uVars, iVars, tVars, cVars, mVars, pVars, dVars>>
       \/ /\ example = "20" /\ D!Next
          /\ UNCHANGED <<vars, uVars, iVars, tVars, cVars, mVars, pVars, hVars>>

BoardSpec == BoardInit /\ [][BoardNext]_boardVars

-----------------------------------------------------------------------------

\* The type invariants of the nine examples.
TypesOK ==
    /\ TypeOK /\ U!TypeOK /\ I!TypeOK /\ T!TypeOK /\ C!TypeOK /\ P!TypeOK /\ H!TypeOK /\ D!TypeOK
    /\ example = "15" => M!TypeOK

\* 02: every line typed is echoed once, in order, and cut only to the buffer.
LinesEchoed == U!LinesEchoed

\* 10: a latency is that of its own interrupt, and is counted in one bucket.
LatenciesTrue == I!LatencyExact /\ I!HistogramComplete

\* 23: what app_main prints of the callbacks' work is complete.
ResultsComplete == T!ResultsComplete

\* 14: after the invalidation the flash is read and not the cache.
FreshAfterInvalidation == C!FreshAfterInvalidation

\* 15, 17: the flash offset worked out from the MMU table is the true one.
Translates == example = "15" => M!Translates

\* 16: entry 6 covers the buffer exactly and its neighbours are left alone.
OnlyTheBuffer == P!OnlyTheBuffer

\* 19: no slot is taken from its holder, and only the two stale pointers of
\* demo_pool give one back that nobody holds.
HoldersKeepTheirs == H!HoldersKeepTheirs

\* Examples 19 and 20 leave the heap, the SPI bus and its device as they found
\* them, whichever allocation fails.
NothingLeaked == H!HeapRestored /\ D!AllReleased

-----------------------------------------------------------------------------
(* Values of the parameters *)

SomeBytes == {0..7, {7, 5, 3, 1}, {7, 5, 4, 3, 1, 0}, {}, 0..3}

SomeTaken == {{}, {2}, {1, 5}}

\* What ESP-IDF may leave in a PMP entry: nothing; all memory locked readable
\* and writable; the second of the places of the buffer locked read-only; a
\* word; or the top of a range, locked or not
NotSet == [R |-> FALSE, W |-> FALSE, X |-> FALSE, A |-> "OFF", L |-> FALSE]
BootEntries ==
    {[byte |-> NotSet, addr |-> 0],
     [byte |-> [NotSet EXCEPT !.R = TRUE, !.W = TRUE, !.A = "NAPOT", !.L = TRUE], addr |-> 31],
     [byte |-> [NotSet EXCEPT !.R = TRUE, !.A = "NAPOT", !.L = TRUE], addr |-> 13],
     [byte |-> [NotSet EXCEPT !.R = TRUE, !.A = "NA4"], addr |-> 5],
     [byte |-> [NotSet EXCEPT !.R = TRUE, !.A = "TOR"], addr |-> 12],
     [byte |-> [NotSet EXCEPT !.R = TRUE, !.A = "TOR", !.L = TRUE], addr |-> 7]}

=============================================================================
