------------------------------ MODULE IsrLatency ------------------------------
(***************************************************************************)
(* examples/10_isr_latency: app_main drives a pin low that a jumper leads  *)
(* back to an input; the interrupt handler notes the cycle counter, sets a *)
(* flag and drives the pin high again.  app_main polls the flag, a limited *)
(* number of times, and collects the differences for its statistics.       *)
(*                                                                         *)
(* The interrupt may come between any two steps of app_main, and may be    *)
(* late: after the polling has been given up, but before the 100 ms delay  *)
(* ends.  The counter wraps.                                               *)
(***************************************************************************)
EXTENDS Integers, Sequences, FiniteSets, SequencesExt

CONSTANTS
    Wrap,      \* 2^32 in the code
    MaxLate,   \* most cycles from the trigger to the handler, below Wrap
    PollLimit, \* 100000
    Sane,      \* 2000: a latency below is believed
    SAMPLES,   \* 50
    Buckets    \* 8

VARIABLES
    jumper,          \* output and input are connected
    cycle,           \* mcycle
    ipc,             \* where app_main is
    pinHigh,         \* the output
    pending,         \* a falling edge has not been handled yet
    g_trigger_cycle, g_isr_cycle, g_sample_ready,
    polls,
    data,            \* g_stats.data, as far as collected
    histogram,       \* what print_stats counts
    age,             \* history: cycles since the trigger was stamped
    took             \* history: age when the handler ran, then as collected

shared == <<pinHigh, pending, g_trigger_cycle, g_isr_cycle, g_sample_ready>>
vars == <<jumper, cycle, ipc, shared, polls, data, histogram, age, took>>

Timing == ipc = "drive" \/ pending

Tick ==
    /\ Timing => age < MaxLate
    /\ cycle' = (cycle + 1) % Wrap
    /\ age' = IF Timing THEN age + 1 ELSE age
    /\ UNCHANGED <<jumper, ipc, shared, polls, data, histogram, took>>

gpio_isr_handler ==
    /\ pending
    /\ g_isr_cycle' = cycle /\ g_sample_ready' = TRUE
    /\ pinHigh' = TRUE
    /\ pending' = FALSE
    /\ took' = [took EXCEPT !.isr = age]
    /\ UNCHANGED <<jumper, cycle, ipc, g_trigger_cycle, polls, data, histogram, age>>

-----------------------------------------------------------------------------
(* app_main *)

\* Faulty: the flag of an earlier, late interrupt is not cleared.
FaultyClear ==
    /\ ipc = "clear"
    /\ ipc' = "stamp"
    /\ UNCHANGED <<jumper, cycle, shared, polls, data, histogram, age, took>>

Clear ==
    /\ ipc = "clear"
    /\ g_sample_ready' = FALSE
    /\ ipc' = "stamp"
    /\ UNCHANGED <<jumper, cycle, pinHigh, pending, g_trigger_cycle, g_isr_cycle,
                   polls, data, histogram, age, took>>

Stamp ==
    /\ ipc = "stamp"
    /\ g_trigger_cycle' = cycle
    /\ age' = 0
    /\ ipc' = "drive"
    /\ UNCHANGED <<jumper, cycle, pinHigh, pending, g_isr_cycle, g_sample_ready,
                   polls, data, histogram, took>>

Drive ==
    /\ ipc = "drive"
    /\ pinHigh' = FALSE
    /\ pending' = (jumper /\ pinHigh)
    /\ polls' = 0
    /\ ipc' = "poll"
    /\ UNCHANGED <<jumper, cycle, g_trigger_cycle, g_isr_cycle, g_sample_ready,
                   data, histogram, age, took>>

Poll ==
    /\ ipc = "poll"
    /\ IF g_sample_ready THEN ipc' = "check" /\ UNCHANGED polls
       ELSE polls' = polls + 1 /\ ipc' = IF polls' < PollLimit THEN "poll" ELSE "check"
    /\ UNCHANGED <<jumper, cycle, shared, data, histogram, age, took>>

\* The unsigned difference, read as an int32_t
Latency ==
    LET d == (g_isr_cycle - g_trigger_cycle) % Wrap
    IN  IF d < Wrap \div 2 THEN d ELSE d - Wrap

Check ==
    /\ ipc = "check"
    /\ IF g_sample_ready /\ Latency > 0 /\ Latency < Sane
       THEN /\ data' = Append(data, Latency)
            /\ took' = [took EXCEPT !.collected = Append(@, took.isr)]
       ELSE UNCHANGED <<data, took>>
    /\ ipc' = "delay"
    /\ UNCHANGED <<jumper, cycle, shared, polls, histogram, age>>

\* The 100 ms outlast every interrupt.
DelayEnds ==
    /\ ipc = "delay" /\ ~pending
    /\ ipc' = IF Len(data) < SAMPLES THEN "clear" ELSE "print"
    /\ UNCHANGED <<jumper, cycle, shared, polls, data, histogram, age, took>>

Bucket(v, lo, hi) ==
    LET w == (hi - lo + Buckets - 1) \div Buckets
        b == (v - lo) \div w
    IN  IF b >= Buckets THEN Buckets - 1 ELSE b

\* compute_stats and the histogram, which samples all alike do not get
PrintStats ==
    /\ ipc = "print"
    /\ LET lo == Min(Range(data))
           hi == Max(Range(data))
       IN  histogram' = IF lo = hi THEN <<>>
                        ELSE [b \in 1..Buckets |->
                                Cardinality({k \in DOMAIN data : Bucket(data[k], lo, hi) = b - 1})]
    /\ ipc' = "returned"
    /\ UNCHANGED <<jumper, cycle, shared, polls, data, age, took>>

Stay == ipc = "returned" /\ UNCHANGED vars

Init ==
    /\ jumper \in BOOLEAN
    /\ cycle = 0 /\ ipc = "clear" /\ pinHigh = TRUE /\ pending = FALSE
    /\ g_trigger_cycle = 0 /\ g_isr_cycle = 0 /\ g_sample_ready = FALSE
    /\ polls = 0 /\ data = <<>> /\ histogram = <<>>
    /\ age = 0 /\ took = [isr |-> 0, collected |-> <<>>]

Next ==
    \/ Clear \/ Stamp \/ Drive \/ Poll \/ Check \/ DelayEnds \/ PrintStats \/ Stay
    \/ gpio_isr_handler \/ (ipc # "returned" /\ Tick)

-----------------------------------------------------------------------------
(* Properties *)

\* Every variable stays in its domain; no sample without a jumper.
TypeOK ==
    /\ {jumper, pinHigh, pending, g_sample_ready} \subseteq BOOLEAN
    /\ {cycle, g_trigger_cycle, g_isr_cycle} \subseteq 0..(Wrap - 1)
    /\ ipc \in {"clear", "stamp", "drive", "poll", "check", "delay", "print", "returned"}
    /\ polls \in 0..PollLimit /\ age \in 0..MaxLate
    /\ Len(data) <= SAMPLES /\ (data # <<>> => jumper)

\* Every latency collected is the time from its own trigger to its own
\* interrupt, across a wrap of the counter and after interrupts that came too
\* late for the sample before.
LatencyExact == data = took.collected

\* Every sample is in exactly one bucket of the histogram.
HistogramComplete ==
    (ipc = "returned" /\ histogram # <<>>) => SumFunction(histogram) = Len(data)

=============================================================================
