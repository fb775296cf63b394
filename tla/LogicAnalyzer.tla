---------------------------- MODULE LogicAnalyzer ----------------------------
(***************************************************************************)
(* examples/11_logic_analyzer: the sampler task writes GPIO samples into a *)
(* ring buffer, the analyzer task empties it in batches and measures the   *)
(* pulses.  There is no lock: g_mutex is created and never taken.          *)
(*                                                                         *)
(* The two tasks interleave here at every access to the shared buffer and  *)
(* its indices; LogicAnalyzerScheduled adds the tasks' priorities.         *)
(***************************************************************************)
EXTENDS LogicAnalyzerParameters, Sequences

Levels  == {0, 1}
Samples == [level : Levels, timestamp : 0..(CycleMod - 1)]
Slots   == 0..(BUF_SIZE - 1)

VARIABLES
    g_buf, g_head, g_tail,
    clock,       \* mcycle
    spc,         \* where the sampler is
    smp,         \* the level and timestamp it is about to store
    dropped,
    apc,         \* where the analyzer is
    snapshot,    \* snapshot_head
    cur,         \* the slot s points to
    prev,        \* prev_level and prev_ts
    edge_count,
    high, low    \* high_sum with high_cnt, low_sum with low_cnt

ring    == <<g_buf, g_head, g_tail>>
sampVs  == <<clock, spc, smp, dropped>>
stats   == <<edge_count, high, low>>
anaVs   == <<apc, snapshot, cur, prev, stats>>
vars    == <<ring, sampVs, anaVs>>

\* Faulty: one slot too many before the index wraps.
FaultySucc(x) == IF x = BUF_SIZE THEN 0 ELSE x + 1

\* (x + 1) & (BUF_SIZE - 1) of a slot, and buf_count()
Succ(x)   == IF x + 1 = BUF_SIZE THEN 0 ELSE x + 1
buf_count == IF g_head >= g_tail THEN g_head - g_tail
                                 ELSE g_head - g_tail + BUF_SIZE
Wrap(n)   == n % CycleMod

-----------------------------------------------------------------------------
(* sampler_task *)

\* read_mcycle and the GPIO register
Sample ==
    /\ spc = "sample"
    /\ \E l \in Levels : smp' = [level |-> l, timestamp |-> clock]
    /\ clock' = Wrap(clock + 1)
    /\ spc' = "check"
    /\ UNCHANGED <<ring, dropped, anaVs>>

\* Faulty: the buffer is never full.
FaultyHasRoom ==
    /\ spc = "check"
    /\ spc' = "level"
    /\ UNCHANGED <<ring, clock, smp, dropped, anaVs>>

HasRoom ==
    /\ spc = "check" /\ Succ(g_head) # g_tail
    /\ spc' = "level"
    /\ UNCHANGED <<ring, clock, smp, dropped, anaVs>>

Drop ==
    /\ spc = "check" /\ Succ(g_head) = g_tail
    /\ dropped' = Wrap(dropped + 1)
    /\ spc' = "sample"
    /\ UNCHANGED <<ring, clock, smp, anaVs>>

StoreLevel ==
    /\ spc = "level"
    /\ g_buf' = [g_buf EXCEPT ![g_head].level = smp.level]
    /\ spc' = "timestamp"
    /\ UNCHANGED <<g_head, g_tail, clock, smp, dropped, anaVs>>

StoreTimestamp ==
    /\ spc = "timestamp"
    /\ g_buf' = [g_buf EXCEPT ![g_head].timestamp = smp.timestamp]
    /\ spc' = "publish"
    /\ UNCHANGED <<g_head, g_tail, clock, smp, dropped, anaVs>>

\* g_head = next_head, then the 10 us busy-wait
Publish ==
    /\ spc = "publish"
    /\ g_head' = Succ(g_head)
    /\ spc' = "sample"
    /\ UNCHANGED <<g_buf, g_tail, clock, smp, dropped, anaVs>>

Store == HasRoom \/ Drop \/ StoreLevel \/ StoreTimestamp \/ Publish

-----------------------------------------------------------------------------
(* analyzer_task *)

\* Less than half a buffer: sleep for 50 ms.
Poll ==
    /\ apc = "poll"
    /\ apc' = IF buf_count < BUF_SIZE \div 2 THEN "delay" ELSE "snapshot"
    /\ UNCHANGED <<ring, sampVs, snapshot, cur, prev, stats>>

DelayEnds ==
    /\ apc = "delay"
    /\ apc' = "poll"
    /\ UNCHANGED <<ring, sampVs, snapshot, cur, prev, stats>>

Snapshot ==
    /\ apc = "snapshot"
    /\ snapshot' = g_head
    /\ apc' = "loop"
    /\ UNCHANGED <<ring, sampVs, cur, prev, stats>>

\* Faulty: s is taken after g_tail was advanced.
FaultyReleaseFirst ==
    /\ apc = "loop" /\ g_tail # snapshot
    /\ cur' = Succ(g_tail)
    /\ g_tail' = Succ(g_tail)
    /\ apc' = "read"
    /\ UNCHANGED <<g_buf, g_head, sampVs, snapshot, prev, stats>>

\* s = &g_buf[g_tail], and g_tail is advanced before s is read.
Release ==
    /\ apc = "loop" /\ g_tail # snapshot
    /\ cur' = g_tail
    /\ g_tail' = Succ(g_tail)
    /\ apc' = "read"
    /\ UNCHANGED <<g_buf, g_head, sampVs, snapshot, prev, stats>>

\* The batch is done; the statistics are printed.
BatchEnds ==
    /\ apc = "loop" /\ g_tail = snapshot
    /\ apc' = "poll"
    /\ UNCHANGED <<ring, sampVs, snapshot, cur, prev, stats>>

\* prev_ts = 0 stands for "no sample yet".
Compare ==
    /\ apc = "read"
    /\ apc' = IF prev.timestamp # 0 /\ g_buf[cur].level # prev.level
              THEN "measure" ELSE "remember"
    /\ UNCHANGED <<ring, sampVs, snapshot, cur, prev, stats>>

Add(sum, duration) == [sum |-> Wrap(sum.sum + duration), cnt |-> Wrap(sum.cnt + 1)]

Measure ==
    /\ apc = "measure"
    /\ edge_count' = Wrap(edge_count + 1)
    /\ LET duration == Wrap(g_buf[cur].timestamp - prev.timestamp)
       IN  IF prev.level = 1
           THEN high' = Add(high, duration) /\ UNCHANGED low
           ELSE low' = Add(low, duration) /\ UNCHANGED high
    /\ apc' = "remember"
    /\ UNCHANGED <<ring, sampVs, snapshot, cur, prev>>

Remember ==
    /\ apc = "remember"
    /\ prev' = g_buf[cur]
    /\ apc' = "loop"
    /\ UNCHANGED <<ring, sampVs, snapshot, cur, stats>>

Analyzer ==
    \/ Poll \/ DelayEnds \/ Snapshot \/ Release \/ BatchEnds
    \/ Compare \/ Measure \/ Remember

-----------------------------------------------------------------------------

Zero == [level |-> 0, timestamp |-> 0]

Init ==
    /\ g_buf = [k \in Slots |-> Zero] /\ g_head = 0 /\ g_tail = 0
    /\ clock = 1 /\ spc = "sample" /\ smp = Zero /\ dropped = 0
    /\ apc = "poll" /\ snapshot = 0 /\ cur = 0 /\ prev = Zero
    /\ edge_count = 0
    /\ high = [sum |-> 0, cnt |-> 0] /\ low = [sum |-> 0, cnt |-> 0]

Sampler == (clock < MaxClock /\ Sample) \/ Store

Next == Sampler \/ Analyzer

Spec == Init /\ [][Next]_vars

-----------------------------------------------------------------------------
(* Properties *)

Words == 0..(CycleMod - 1)
Sums  == [sum : Words, cnt : Words]

\* Every variable stays in its domain: no index leaves the buffer.
TypeOK ==
    /\ g_buf \in [Slots -> Samples]
    /\ {g_head, g_tail, snapshot, cur} \subseteq Slots
    /\ {clock, dropped} \subseteq Words /\ smp \in Samples
    /\ spc \in {"sample", "check", "level", "timestamp", "publish"}
    /\ apc \in {"poll", "delay", "snapshot", "loop", "read", "measure", "remember"}
    /\ prev \in Samples
    /\ edge_count \in Words /\ high \in Sums /\ low \in Sums

Reading == apc \in {"read", "measure", "remember"}

\* The analyzer gives a slot back (g_tail++) before it reads it, three times.
\* The sampler still never writes the slot being read: the one slot a full
\* ring leaves empty is exactly that slot.
NoDataRace ==
    Reading /\ spc \in {"level", "timestamp", "publish"} => g_head # cur

\* The ring is a FIFO of BUF_SIZE - 1 samples: what the analyzer has in hand
\* does not change under it, and nothing is lost, repeated or reordered
\* between a stored sample and its analysis.
Unread ==
    [k \in 1..buf_count |->
        g_buf[IF g_tail + k - 1 < BUF_SIZE THEN g_tail + k - 1
                                           ELSE g_tail + k - 1 - BUF_SIZE]]

Fifo == INSTANCE BoundedFifo
            WITH Messages <- Samples,
                 Depth    <- BUF_SIZE - 1,
                 Nothing  <- Zero,
                 contents <- Unread,
                 last     <- IF Reading THEN g_buf[cur] ELSE prev

RingIsFifo == Fifo!Spec

=============================================================================
