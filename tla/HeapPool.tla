------------------------------- MODULE HeapPool -------------------------------
(***************************************************************************)
(* examples/19_heap_fragmentation: small blocks are allocated until every  *)
(* other one is given back, a large one is tried before and after the rest *)
(* is, and then a pool hands out slots of one block by a bitmap.           *)
(*                                                                         *)
(* The heap is a row of cells; where it places a block is left open, and   *)
(* it fails only if no run of free cells is long enough.  Freeing what is  *)
(* not allocated is noted as misuse, and so is what the pool does not see: *)
(* which of the pointers s[] each slot was handed out to.                  *)
(***************************************************************************)
EXTENDS Integers, FiniteSetsExt

CONSTANTS
    Cells,       \* of the heap
    Taken,       \* sets of cells that others may hold
    SMALL_N,     \* small blocks, of one cell each
    LargeCells, PoolCells,
    POOL_SLOT_SZ, POOL_SLOT_N

NULL   == -1
Free   == -2 \* what a cell holds that nobody has,
Others == -3 \* or that another part of the system has
Slots == 0..(POOL_SLOT_N - 1)
S     == 0..7 \* demo_pool's s[]
Lost  == -2   \* holder of a slot whose pointer was overwritten; NULL: nobody

VARIABLES
    others, cell,   \* who holds each cell; a block by its address
    ptrs,           \* the small blocks
    large,          \* the large one, while try_large_alloc has it
    g_pool, used,   \* the pool's block and its bitmap
    s,              \* offsets of slots in the pool
    i, apc,         \* loop index, and where app_main is
    got,            \* the results of try_large_alloc
    misuse,         \* history: a block was freed that was not allocated
    holder,         \* history: the index in s[] that each slot was handed out to
    shared,         \* history: a slot that was held was handed out, or given back
                    \* by another
    repeated        \* history: the indices that gave back a slot nobody held

heapVs == <<cell, misuse>>
poolVs == <<used, s, holder, shared, repeated>>
vars   == <<others, heapVs, ptrs, large, g_pool, poolVs, i, apc, got>>

-----------------------------------------------------------------------------
(* The heap *)

Places(n) == {a \in 0..(Cells - n) : \A c \in a..(a + n - 1) : cell[c] = Free}

Taking(a, n) == [c \in DOMAIN cell |-> IF c \in a..(a + n - 1) THEN a ELSE cell[c]]

malloc(p, n) == \* sets the pointer p to a block of n cells, or to NULL
    IF Places(n) = {} THEN p = NULL /\ UNCHANGED heapVs
    ELSE \E a \in Places(n) : p = a /\ cell' = Taking(a, n) /\ UNCHANGED misuse

free(p) ==
    /\ cell' = [c \in DOMAIN cell |-> IF p # NULL /\ cell[c] = p THEN Free ELSE cell[c]]
    /\ misuse' = (misuse \/ (p # NULL /\ cell[p] # p))

-----------------------------------------------------------------------------
(* create_fragmentation, try_large_alloc and cleanup *)

\* A loop ends or goes on with the next index.
Loop(next, bound, after) ==
    IF next < bound THEN i' = next /\ UNCHANGED apc ELSE i' = 0 /\ apc' = after

AllocSmall ==
    /\ apc = "alloc"
    /\ \E p \in {NULL} \cup (0..(Cells - 1)) : malloc(p, 1) /\ ptrs' = [ptrs EXCEPT ![i] = p]
    /\ Loop(i + 1, SMALL_N, "chess")
    /\ UNCHANGED <<others, large, g_pool, poolVs, got>>

FreeEven ==
    /\ apc = "chess"
    /\ free(ptrs[i])
    /\ ptrs' = [ptrs EXCEPT ![i] = NULL]
    /\ Loop(i + 2, SMALL_N, "large")
    /\ UNCHANGED <<others, large, g_pool, poolVs, got>>

TryLarge ==
    /\ apc \in {"large", "large_again"} /\ large = NULL
    /\ \E p \in {NULL} \cup (0..(Cells - 1)) :
          /\ malloc(p, LargeCells)
          /\ large' = p
          /\ got' = [got EXCEPT ![apc] = (p # NULL)]
          /\ apc' = IF p # NULL THEN apc ELSE IF apc = "large" THEN "cleanup" ELSE "pool"
    /\ UNCHANGED <<others, ptrs, g_pool, poolVs, i>>

FreeLarge ==
    /\ apc \in {"large", "large_again"} /\ large # NULL
    /\ free(large)
    /\ large' = NULL
    /\ apc' = IF apc = "large" THEN "cleanup" ELSE "pool"
    /\ UNCHANGED <<others, ptrs, g_pool, poolVs, i, got>>

Cleanup ==
    /\ apc = "cleanup"
    /\ free(ptrs[i])
    /\ ptrs' = [ptrs EXCEPT ![i] = NULL]
    /\ Loop(i + 1, SMALL_N, "large_again")
    /\ UNCHANGED <<others, large, g_pool, poolVs, got>>

-----------------------------------------------------------------------------
(* The pool *)

\* Faulty: the bit of the slot is not set.
FaultyMarked(slot) == used

Marked(slot) == used \cup {slot}

\* s[k] is overwritten: if it held a slot, nobody can give that back.
Losing(k) == [slot \in Slots |-> IF holder[slot] = k THEN Lost ELSE holder[slot]]

pool_alloc(k) ==
    /\ UNCHANGED repeated
    /\ IF used = Slots
       THEN s' = [s EXCEPT ![k] = NULL] /\ holder' = Losing(k) /\ UNCHANGED <<used, shared>>
       ELSE LET slot == Min(Slots \ used)
            IN  /\ used' = Marked(slot)
                /\ s' = [s EXCEPT ![k] = slot * POOL_SLOT_SZ]
                /\ shared' = (shared \/ holder[slot] # NULL)
                /\ holder' = [Losing(k) EXCEPT ![slot] = k]

\* NULL is far from the pool, and so no slot of it.
SlotOf(offset) == IF offset = NULL THEN NULL ELSE offset \div POOL_SLOT_SZ

pool_free(k) ==
    LET slot == SlotOf(s[k])
    IN  /\ used' = used \ {slot}
        /\ holder' = [x \in Slots |-> IF x = slot /\ holder[x] = k THEN NULL ELSE holder[x]]
        /\ shared' = (shared \/ (slot \in Slots /\ holder[slot] \notin {k, NULL}))
        /\ repeated' = IF slot \in Slots /\ holder[slot] = NULL THEN repeated \cup {k} ELSE repeated
        /\ UNCHANGED s

MakePool ==
    /\ apc = "pool"
    /\ \E p \in {NULL} \cup (0..(Cells - 1)) :
          /\ malloc(p, PoolCells)
          /\ g_pool' = p
          /\ apc' = IF p = NULL THEN "returned" ELSE "take_all"
    /\ used' = {}
    /\ UNCHANGED <<others, ptrs, large, s, holder, shared, repeated, i, got>>

Take ==
    /\ \/ apc = "take_all" /\ Loop(i + 1, 8, "give_even")
       \/ apc = "take_again" /\ Loop(i + 1, 4, "give_all")
    /\ pool_alloc(i)
    /\ UNCHANGED <<others, heapVs, ptrs, large, g_pool, got>>

Give ==
    /\ \/ apc = "give_even" /\ Loop(i + 2, 8, "take_again")
       \/ apc = "give_all" /\ Loop(i + 1, 8, "drop_pool")
    /\ pool_free(i)
    /\ UNCHANGED <<others, heapVs, ptrs, large, g_pool, got>>

DropPool ==
    /\ apc = "drop_pool"
    /\ free(g_pool)
    /\ g_pool' = NULL
    /\ apc' = "returned"
    /\ UNCHANGED <<others, ptrs, large, poolVs, i, got>>

Stay == apc = "returned" /\ UNCHANGED vars

Init ==
    /\ others \in Taken
    /\ cell = [c \in 0..(Cells - 1) |-> IF c \in others THEN Others ELSE Free]
    /\ ptrs = [k \in 0..(SMALL_N - 1) |-> NULL] /\ large = NULL /\ g_pool = NULL
    /\ used = {} /\ s = [k \in S |-> NULL] /\ i = 0 /\ apc = "alloc"
    /\ got = [t \in {"large", "large_again"} |-> FALSE]
    /\ misuse = FALSE
    /\ holder = [slot \in Slots |-> NULL] /\ shared = FALSE /\ repeated = {}

Next ==
    \/ AllocSmall \/ FreeEven \/ TryLarge \/ FreeLarge \/ Cleanup
    \/ MakePool \/ Take \/ Give \/ DropPool \/ Stay

-----------------------------------------------------------------------------
(* Properties *)

\* Every variable stays in its domain.
TypeOK ==
    /\ DOMAIN cell = 0..(Cells - 1) /\ DOMAIN ptrs = 0..(SMALL_N - 1) /\ DOMAIN s = S
    /\ {large, g_pool} \subseteq {NULL} \cup DOMAIN cell
    /\ used \subseteq Slots /\ i \in 0..(SMALL_N - 1) \cup S
    /\ holder \in [Slots -> S \cup {NULL, Lost}] /\ repeated \subseteq S
    /\ got["large"] \in BOOLEAN /\ {misuse, shared} \subseteq BOOLEAN

\* The indices the last loop of demo_pool has given back
GivenAtLast == CASE apc = "give_all" -> S \cap 0..(i - 1)
                 [] apc \in {"drop_pool", "returned"} -> S
                 [] OTHER -> {}

\* No block of the heap is freed that is not allocated.  No slot of the pool is
\* handed out while a pointer holds it, or given back through another pointer
\* than the one that holds it - although demo_pool overwrites pointers it still
\* needs, and s[4] and s[6] still point to slots that went to s[2] and s[3].
\* Just these two are given back a second time, by the last loop, when the
\* holders are through: in any other order the second give would free a slot
\* in use.
HoldersKeepTheirs ==
    /\ ~misuse /\ ~shared
    /\ repeated = {k \in {4, 6} \cap GivenAtLast : s[k] # NULL}

\* The heap ends as it began, and the large block fits after the cleanup if
\* and only if it would have fitted at the start ("[5] free all, try again").
HeapRestored ==
    LET Run(a) == \A c \in a..(a + LargeCells - 1) : c \notin others
    IN  /\ apc = "returned" => \A c \in DOMAIN cell : (cell[c] = Free) = (c \notin others)
        /\ apc = "pool" => (got["large_again"] <=> \E a \in 0..(Cells - LargeCells) : Run(a))

=============================================================================
