------------------------------- MODULE Mcycle64 -------------------------------
(***************************************************************************)
(* examples/01_mcsr: mcycle64 extends the 32-bit cycle counter to 64 bits  *)
(* by noticing, from one call to the next, that it has wrapped; the        *)
(* benchmarks take differences of the bare counter.                        *)
(*                                                                         *)
(* The counter is kept as what it shows and how often it has wrapped.      *)
(* MaxGap stands for what the loop of app_main takes from one call to the  *)
(* next, a good three seconds of the 26.8 that a wrap takes.               *)
(***************************************************************************)
EXTENDS Integers

CONSTANTS
    Wrap,     \* 2^32 in the code
    MaxGap,   \* most cycles between two calls
    MaxWraps  \* bound: wraps of the counter

ASSUME ConstantsAssumption ==
    /\ Wrap \in Nat \ {0} /\ MaxGap \in Nat /\ MaxWraps \in Nat
    /\ MaxGap < Wrap

VARIABLES
    mcycle,            \* PCCR, the 32-bit counter in its place
    wraps,             \* how often it has wrapped
    at,                \* where app_main is
    prev_lo, hi_bits,  \* mcycle64's, hi_bits in units of 2^32
    start,             \* PerfSample.cycles
    since,             \* cycles since the last call (history)
    ran,               \* cycles since profile_begin (history)
    result, truth      \* what was computed last, and what it should be

counter == <<mcycle, wraps, since, ran>>
vars == <<counter, at, prev_lo, hi_bits, start, result, truth>>

\* app_main: the identity dump, then for ever two benchmarks, the 100 ms
\* delay between two calls, the uptime, and a delay of 3 s
AfterStep(p) ==
    CASE p = "boot" -> "sum_begin"
      [] p = "sum_begin" -> "sum_end"
      [] p = "sum_end" -> "mac_begin"
      [] p = "mac_begin" -> "mac_end"
      [] p = "mac_end" -> "before"
      [] p = "before" -> "after"
      [] p = "after" -> "uptime"
      [] p = "uptime" -> "sum_begin"

Calls  == {"boot", "before", "after", "uptime"}
Begins == {"sum_begin", "mac_begin"}
Ends   == {"sum_end", "mac_end"}

\* Cycles pass, in the program or while it is preempted or asleep.
Pass(d) ==
    /\ since + d <= MaxGap
    /\ IF mcycle + d < Wrap
       THEN mcycle' = mcycle + d /\ wraps' = wraps
       ELSE wraps < MaxWraps /\ mcycle' = mcycle + d - Wrap /\ wraps' = wraps + 1
    /\ since' = since + d
    /\ ran' = ran + d
    /\ UNCHANGED <<at, prev_lo, hi_bits, start, result, truth>>

\* Faulty: <= for <, so a second call at the same cycle counts a wrap.
FaultyWrapped(lo) == lo <= prev_lo

Wrapped(lo) == lo < prev_lo

Call ==
    /\ at \in Calls
    /\ hi_bits' = IF Wrapped(mcycle) THEN hi_bits + 1 ELSE hi_bits
    /\ prev_lo' = mcycle
    /\ result' = <<hi_bits', mcycle>>
    /\ truth' = <<wraps, mcycle>>
    /\ since' = 0
    /\ at' = AfterStep(at)
    /\ UNCHANGED <<mcycle, wraps, ran, start>>

profile_begin ==
    /\ at \in Begins
    /\ start' = mcycle
    /\ ran' = 0
    /\ at' = AfterStep(at)
    /\ UNCHANGED <<mcycle, wraps, since, prev_lo, hi_bits, result, truth>>

\* The subtraction is modulo 2^32.
profile_end ==
    /\ at \in Ends
    /\ result' = <<0, IF mcycle >= start THEN mcycle - start ELSE mcycle + Wrap - start>>
    /\ truth' = <<0, ran>>
    /\ at' = AfterStep(at)
    /\ UNCHANGED <<counter, prev_lo, hi_bits, start>>

Init ==
    /\ mcycle = 0 /\ wraps = 0 /\ since = 0 /\ ran = 0
    /\ at = "boot" /\ prev_lo = 0 /\ hi_bits = 0 /\ start = 0
    /\ result = <<0, 0>> /\ truth = <<0, 0>>

Next == Call \/ profile_begin \/ profile_end \/ \E d \in 1..MaxGap : Pass(d)

Spec == Init /\ [][Next]_vars

-----------------------------------------------------------------------------
(* Properties *)

\* Every variable stays in its domain.
TypeOK ==
    /\ {mcycle, prev_lo, start} \subseteq 0..(Wrap - 1)
    /\ wraps \in 0..MaxWraps /\ hi_bits \in Nat
    /\ since \in 0..MaxGap /\ ran \in Nat
    /\ at \in Calls \cup Begins \cup Ends
    /\ result \in Nat \X Nat /\ truth \in Nat \X Nat

\* "Calling this function at least that often prevents missing a wrap": every
\* count mcycle64 returns is the number of cycles since reset, and every
\* difference the benchmarks print is the number of cycles they took, wherever
\* the wraps fall.
CountsExact == result = truth

=============================================================================
