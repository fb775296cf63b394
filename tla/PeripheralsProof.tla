--------------------------- MODULE PeripheralsProof ---------------------------
(***************************************************************************)
(* What the examples of MCPeripherals promise, for any capacities, sizes,  *)
(* sample counts and page tables that fit together: proved with TLAPS.     *)
(*                                                                         *)
(* Only one example is flashed.  A step of the board is one of its own, or *)
(* leaves its variables alone, and so each is argued about by itself.      *)
(***************************************************************************)
EXTENDS MCPeripherals, Mcycle64Proof, Sequences, FiniteSetTheorems, WellFoundedInduction, TLAPS

LEMMA OneExample ==
    ASSUME [BoardNext]_boardVars
    PROVE  /\ [Next]_vars
           /\ T!Next \/ UNCHANGED tVars
           /\ C!Next \/ UNCHANGED cVars
           /\ D!Next \/ UNCHANGED dVars
           /\ H!Next \/ UNCHANGED hVars
           /\ I!Next \/ UNCHANGED iVars
           /\ U!Next \/ UNCHANGED uVars
           /\ P!Next \/ UNCHANGED pVars
           /\ M!Next \/ UNCHANGED mVars
           /\ UNCHANGED example
           /\ example # "15" => UNCHANGED mVars
  BY DEF BoardNext, boardVars, vars

-----------------------------------------------------------------------------
(* Induction over the naturals, with a set in the place of a predicate *)

\* A set of naturals that is not empty has a least element.
LEMMA LeastElement ==
    ASSUME NEW S \in SUBSET Nat, S # {}
    PROVE  \E x \in S : \A y \in S : x <= y
  <1>1. OpToRel(<, Nat) = {ss \in Nat \X Nat : ss[1] < ss[2]}
    BY DEF OpToRel
  <1>2. PICK x \in S : \A y \in S : <<y, x>> \notin {ss \in Nat \X Nat : ss[1] < ss[2]}
    BY <1>1, NatLessThanWellFounded, WFMin, ZenonT(60)
  <1>3. ASSUME NEW y \in S PROVE x <= y
    <2>1. ~(y < x)
      BY <1>2, Zenon
    <2>2. x \in Nat /\ y \in Nat
      OBVIOUS
    <2> QED
      BY <2>1, <2>2
  <1> QED
    BY <1>3

\* Induction, with a set in the place of a predicate
LEMMA SetInduction ==
    ASSUME NEW S, 0 \in S, \A n \in Nat : n \in S => n + 1 \in S
    PROVE  Nat \subseteq S
  <1> SUFFICES ASSUME Nat \ S # {} PROVE FALSE
    OBVIOUS
  <1>1. PICK x \in Nat \ S : \A y \in Nat \ S : x <= y
    <2>1. Nat \ S \in SUBSET Nat
      OBVIOUS
    <2> QED
      BY <2>1, LeastElement
  <1>2. x # 0 /\ x - 1 \in Nat /\ ~(x <= x - 1)
    BY <1>1
  <1>3. x - 1 \in S
    BY <1>1, <1>2
  <1> QED
    BY <1>1, <1>2, <1>3

-----------------------------------------------------------------------------
(* 23: timers *)

\* A sample is counted before it is summed, and nothing else is missing from
\* the sum, also as printed: a task that outranks app_main has no sample in
\* hand then.  The value that a one-shot timer leaves is never taken back.
TimerInv ==
    /\ T!TypeOK
    /\ \A k \in T!Timers : tcount[k] = summed[k] + IF recording[k] THEN 1 ELSE 0
    /\ tpc # "poll" => T!Full
    /\ tpc \in {"poll", "stop", "print"} => shot = 0
    /\ tpc \in {"start", "low", "high", "read", "returned"} =>
          \A k \in T!Timers :
              \/ printed[k] = [count |-> SAMPLE_N, summed |-> SAMPLE_N]
              \/ /\ ~(T!Prio(k) > T!MainPrio)
                 /\ printed[k] = [count |-> SAMPLE_N, summed |-> SAMPLE_N - 1]
    /\ fired # 0 /\ tpc \in {"low", "high", "read"} => fired = firedAt
    /\ tpc = "high" /\ low # 0 => fired # 0
    /\ tpc = "read" => fired # 0
    /\ T!ResultsComplete

LEMMA TimerStep == TimerInv /\ (T!Next \/ UNCHANGED tVars) => TimerInv'
  <1> SUFFICES ASSUME TimerInv, T!Next \/ UNCHANGED tVars PROVE TimerInv'
    OBVIOUS
  <1> USE ParametersAssumption
      DEF TimerInv, T!TypeOK, T!ResultsComplete, T!Timers, T!MainPrio, T!Prio, T!Word,
          T!Full, T!statVs, T!shotVs
  <1>1. ASSUME NEW k \in T!Timers, T!Callback(k) PROVE TimerInv'
    <2>1. prev' = [prev EXCEPT ![k] = TRUE] /\ k \notin stopped /\ ~recording[k]
      BY <1>1 DEF T!Callback
    <2>2. UNCHANGED <<daemonPrio, summed, tpc, stopped, printed, shot, fired, low, firedAt, actual>>
      BY <1>1 DEF T!Callback
    <2>3. CASE UNCHANGED <<tcount, recording>>
      BY <2>1, <2>2, <2>3
    <2>4. CASE /\ prev[k] /\ tcount[k] < SAMPLE_N
               /\ tcount' = [tcount EXCEPT ![k] = @ + 1]
               /\ recording' = [recording EXCEPT ![k] = TRUE]
      <3>1. T!TypeOK'
        BY <2>1, <2>2, <2>4
      <3>2. \A t \in T!Timers : tcount'[t] = summed'[t] + IF recording'[t] THEN 1 ELSE 0
        BY <2>1, <2>2, <2>4
      <3> QED
        BY <2>1, <2>2, <2>4, <3>1, <3>2
    <2> QED
      BY <1>1, <2>3, <2>4 DEF T!Callback
  <1>2. ASSUME NEW k \in T!Timers, T!Sum(k) PROVE TimerInv'
    BY <1>2 DEF T!Sum
  <1>3. CASE T!oneshot_cb
    BY <1>3 DEF T!oneshot_cb
  <1>4. CASE T!PollCounts \/ T!StopTimers
    BY <1>4 DEF T!PollCounts, T!StopTimers
  <1>5. CASE T!StatPrint
    BY <1>5 DEF T!StatPrint, T!MainRuns
  <1>6. CASE T!StartOneshot
    BY <1>6 DEF T!StartOneshot
  <1>7. CASE T!LoadLow
    BY <1>7 DEF T!LoadLow
  <1>8. CASE T!LoadHigh
    BY <1>8 DEF T!LoadHigh
  <1>9. CASE T!ReadFired
    BY <1>9 DEF T!ReadFired
  <1>10. CASE T!Stay \/ UNCHANGED tVars
    BY <1>10 DEF T!Stay, T!vars, tVars
  <1> QED
    BY <1>1, <1>2, <1>3, <1>4, <1>5, <1>6, <1>7, <1>8, <1>9, <1>10 DEF T!Next

LEMMA TimerStart == BoardInit => TimerInv
  BY ParametersAssumption
  DEF BoardInit, T!Init, TimerInv, T!TypeOK, T!ResultsComplete, T!Timers, T!Word, T!Full

\* What app_main prints has every sample of a callback that outranks it, and
\* all but at most the one being recorded of a callback that does not; one-shot
\* times are whole: for any number of samples and of one-shot timers, and any
\* priority of the timer task.
THEOREM TimersComplete == BoardSpec => []ResultsComplete
  <1>1. TimerInv /\ [BoardNext]_boardVars => TimerInv'
    BY OneExample, TimerStep
  <1>2. TimerInv => ResultsComplete
    BY DEF TimerInv, ResultsComplete
  <1> QED
    BY TimerStart, <1>1, <1>2, PTL DEF BoardSpec

-----------------------------------------------------------------------------
(* 14: cache *)

\* What the cache holds is the flash's, or, once pattern B is written, what the
\* flash held before: never that when the writes drop their line or
\* esp_cache_msync has done its work.
CacheInv ==
    /\ flash \subseteq C!Erased /\ C!AfterA \subseteq C!Erased
    /\ line = <<>> \/ \E b \in SUBSET C!Erased : line = <<b>>
    /\ cpc = "find" => flash = initially
    /\ cpc \in {"warm", "writeB"} => flash = C!AfterA
    /\ cpc \in {"find", "writeA", "warm"} => line = <<>>
    /\ cpc = "writeA" => flash = initially
    /\ cpc # "returned" => line \in {<<>>, <<flash>>, <<C!AfterA>>}
    /\ cpc # "returned" /\ (writeDrops \/ (cpc = "reread" /\ msync = "works")) =>
            line \in {<<>>, <<flash>>}
    /\ C!FreshAfterInvalidation

LEMMA CacheStep == CacheInv /\ (C!Next \/ UNCHANGED cVars) => CacheInv'
  <1> SUFFICES ASSUME CacheInv, C!Next \/ UNCHANGED cVars PROVE CacheInv'
    OBVIOUS
  <1> USE DEF CacheInv, C!FreshAfterInvalidation, C!board, C!Go
  <1>1. initially' = initially /\ C!AfterA' = C!AfterA
    BY DEF C!Next, C!GiveUp, C!Map, C!WriteA, C!Warm, C!WriteB, C!ReadBefore,
           C!invalidate_cache_region, C!ReadAfter, C!Restore, C!Stay, C!Evict, C!vars, cVars,
           C!AfterA, C!esp_partition_erase_range
  <1>r. C!Rewritten(C!PatternA) \subseteq C!Erased /\ C!Rewritten(C!PatternB) \subseteq C!Erased
    BY DEF C!Rewritten, C!esp_partition_write, C!esp_partition_erase_range
  <1>2. CASE C!WriteA
    BY <1>1, <1>2, <1>r DEF C!WriteA, C!Rewrite, C!Rewritten, C!AfterA
  <1>3. CASE C!WriteB
    BY <1>1, <1>3, <1>r DEF C!WriteB, C!Rewrite
  <1>4. CASE C!Restore
    BY <1>1, <1>4, <1>r DEF C!Restore, C!Rewrite
  <1>5. CASE C!Warm \/ C!ReadBefore \/ C!ReadAfter
    BY <1>1, <1>5 DEF C!Warm, C!ReadBefore, C!ReadAfter, C!Read
  <1>6. CASE C!GiveUp \/ C!Map
    BY <1>1, <1>6 DEF C!GiveUp, C!Map
  <1>7. CASE C!Evict
    BY <1>1, <1>7 DEF C!Evict
  <1>8. CASE C!invalidate_cache_region
    BY <1>1, <1>8 DEF C!invalidate_cache_region
  <1>9. CASE C!Stay \/ UNCHANGED cVars
    BY <1>1, <1>9 DEF C!Stay, C!vars, cVars
  <1> QED
    BY <1>2, <1>3, <1>4, <1>5, <1>6, <1>7, <1>8, <1>9 DEF C!Next

LEMMA CacheStart == BoardInit => CacheInv
  <1>1. ASSUME BoardInit PROVE C!AfterA \subseteq C!Erased
    BY <1>1, ParametersAssumption
       DEF BoardInit, C!Init, C!AfterA, C!esp_partition_write, C!esp_partition_erase_range
  <1> QED
    BY <1>1, ParametersAssumption DEF BoardInit, C!Init, CacheInv, C!FreshAfterInvalidation

\* Whatever esp_cache_msync does, the read after it is of the flash or of what
\* the flash held before pattern B was written; the latter only if the call did
\* not work and the writes keep the cached line: for any unit of erasing and any
\* contents.
THEOREM ReadsFresh == BoardSpec => []FreshAfterInvalidation
  <1>1. CacheInv /\ [BoardNext]_boardVars => CacheInv'
    BY OneExample, CacheStep
  <1>2. CacheInv => FreshAfterInvalidation
    BY DEF CacheInv, FreshAfterInvalidation
  <1> QED
    BY CacheStart, <1>1, <1>2, PTL DEF BoardSpec

-----------------------------------------------------------------------------
(* 16: the PMP *)

\* A power of two is twice the one before: subsets are counted.
LEMMA Doubling == \A n \in Nat : 2^n \in Nat \ {0} /\ 2^(n + 1) = 2 * 2^n
  <1> TAKE n \in Nat
  <1> DEFINE A == SUBSET (1..n)
             B == {X \cup {n + 1} : X \in A}
  <1>1. /\ IsFiniteSet(1..n) /\ Cardinality(1..n) = n
        /\ IsFiniteSet(1..(n + 1)) /\ Cardinality(1..(n + 1)) = n + 1
    <2>1. \A m \in Nat : IsFiniteSet(1..m) /\ Cardinality(1..m) = m
      BY FS_Interval
    <2> QED
      BY <2>1
  <1>2. IsFiniteSet(A) /\ Cardinality(A) = 2^n
    BY <1>1, FS_SUBSET
  <1>3. Cardinality(SUBSET (1..(n + 1))) = 2^(n + 1)
    BY <1>1, FS_SUBSET
  <1>4. \A X \in A : n + 1 \notin X
    OBVIOUS
  <1>5. IsFiniteSet(B) /\ Cardinality(B) = Cardinality(A)
    <2> DEFINE f == [X \in A |-> X \cup {n + 1}]
    <2>1. f \in Surjection(A, B)
      BY DEF Surjection
    <2>2. \A X, Y \in A : f[X] = f[Y] => X = Y
      BY <1>4
    <2>3. f \in [A -> B]
      OBVIOUS
    <2>4. f \in Injection(A, B)
      BY <2>2, <2>3 DEF Injection, IsInjective
    <2>5. f \in Bijection(A, B)
      BY <2>1, <2>4 DEF Bijection
    <2> QED
      BY <1>2, <2>5, FS_Bijection DEF ExistsBijection
  <1>6. A \cap B = {}
    BY <1>4
  <1>7. SUBSET (1..(n + 1)) = A \cup B
    <2>1. 1..(n + 1) = (1..n) \cup {n + 1}
      OBVIOUS
    <2>2. ASSUME NEW X \in SUBSET (1..(n + 1)) PROVE X \in A \cup B
      <3>1. CASE n + 1 \in X
        <4>1. X \ {n + 1} \in A
          BY <2>1
        <4>2. X = (X \ {n + 1}) \cup {n + 1}
          BY <3>1
        <4> QED
          BY <4>1, <4>2
      <3>2. CASE n + 1 \notin X
        BY <2>1, <3>2
      <3> QED
        BY <3>1, <3>2
    <2>3. ASSUME NEW X \in A \cup B PROVE X \in SUBSET (1..(n + 1))
      BY <2>1
    <2> QED
      BY <2>2, <2>3
  <1> HIDE DEF A, B
  <1>8. Cardinality(A \cap B) = 0 /\ Cardinality(A) \in Nat
    BY <1>2, <1>6, FS_EmptySet, FS_CardinalityType
  <1>9. Cardinality(A \cup B) = Cardinality(A) + Cardinality(B) - Cardinality(A \cap B)
    BY <1>2, <1>5, FS_Union
  <1>10. A # {}
    BY DEF A
  <1>11. Cardinality(A) # 0
    BY <1>2, <1>10, FS_EmptySet
  <1>12. Cardinality(A \cup B) = 2 * Cardinality(A)
    BY <1>5, <1>8, <1>9
  <1> QED
    BY <1>2, <1>3, <1>7, <1>8, <1>11, <1>12

\* A power is larger than its exponent.
LEMMA PowerGrows == \A n \in Nat : n < 2^n
  <1> DEFINE S == {n \in Nat : n < 2^n}
  <1>1. 0 \in S
    OBVIOUS
  <1>2. \A n \in Nat : n \in S => n + 1 \in S
    BY Doubling
  <1> HIDE DEF S
  <1>3. Nat \subseteq S
    BY <1>1, <1>2, SetInduction
  <1> QED
    BY <1>3 DEF S

\* A smaller power divides a larger one.
LEMMA PowerDivides ==
    ASSUME NEW j \in Nat, NEW d \in Nat
    PROVE  \E m \in Nat : 2^(j + d) = 2^j * m
  <1> DEFINE S == {n \in Nat : \E m \in Nat : 2^(j + n) = 2^j * m}
  <1>1. 0 \in S
    <2>1. 2^(j + 0) = 2^j * 1
      BY Doubling
    <2> QED
      BY <2>1
  <1>2. \A n \in Nat : n \in S => n + 1 \in S
    <2> TAKE n \in Nat
    <2> HAVE n \in S
    <2>1. PICK m \in Nat : 2^(j + n) = 2^j * m
      OBVIOUS
    <2>2. 2^(j + (n + 1)) = 2 * 2^(j + n) /\ 2^j \in Nat
      <3>1. j + n \in Nat /\ j + (n + 1) = (j + n) + 1
        OBVIOUS
      <3> QED
        BY <3>1, Doubling
    <2>3. 2 * (2^j * m) = 2^j * (2 * m)
      BY <2>2
    <2>4. 2 * m \in Nat
      OBVIOUS
    <2>5. 2^(j + (n + 1)) = 2^j * (2 * m)
      BY <2>1, <2>2, <2>3
    <2>6. \E l \in Nat : 2^(j + (n + 1)) = 2^j * l
      BY <2>4, <2>5
    <2> QED
      BY <2>6
  <1> HIDE DEF S
  <1>3. Nat \subseteq S
    BY <1>1, <1>2, SetInduction
  <1> QED
    BY <1>3 DEF S

LEMMA Remainder ==
    ASSUME NEW d \in Nat \ {0}, NEW q \in Nat, NEW r \in 0..(d - 1)
    PROVE  (d * q + r) % d = r
  BY Z3

LEMMA Quotient ==
    ASSUME NEW d \in Nat \ {0}, NEW n \in Nat
    PROVE  n = d * (n \div d) + (n % d) /\ n \div d \in Nat /\ n % d \in 0..(d - 1)
  OBVIOUS

\* Two counts of trailing ones cannot both be right.
LEMMA OnesUnique ==
    ASSUME NEW a \in Nat, NEW j \in Nat, NEW k \in Nat, j < k,
           a % 2^(k + 1) = 2^k - 1
    PROVE  a % 2^(j + 1) # 2^j - 1
  <1> DEFINE less == 2^(j + 1)
             more == 2^(k + 1)
             q == a \div more
  <1>1. /\ 2^j \in Nat \ {0} /\ less \in Nat \ {0} /\ less = 2 * 2^j
        /\ 2^k \in Nat \ {0} /\ more \in Nat \ {0} /\ more = 2 * 2^k
    BY Doubling
  <1>2. PICK m \in Nat : 2^k = less * m
    <2>1. k - (j + 1) \in Nat /\ k = (j + 1) + (k - (j + 1)) /\ j + 1 \in Nat
      OBVIOUS
    <2>2. \E m \in Nat : 2^((j + 1) + (k - (j + 1))) = 2^(j + 1) * m
      BY <2>1, PowerDivides
    <2> QED
      BY <2>1, <2>2
  <1>3. q \in Nat /\ a = more * q + (2^k - 1)
    BY <1>1, Quotient
  <1> HIDE DEF less, more, q
  <1>4. a = less * ((2 * m) * q) + less * m - 1
    BY <1>1, <1>2, <1>3
  <1>5. m # 0
    BY <1>1, <1>2
  <1>6. (2 * m) * q + (m - 1) \in Nat
    BY <1>3, <1>5
  <1>7. a = less * ((2 * m) * q + (m - 1)) + (less - 1)
    BY <1>1, <1>2, <1>3, <1>4
  <1>8. a % less = less - 1
    <2>1. less - 1 \in 0..(less - 1)
      BY <1>1
    <2>2. (less * ((2 * m) * q + (m - 1)) + (less - 1)) % less = less - 1
      BY <1>1, <1>6, <2>1, Remainder
    <2> QED
      BY <1>7, <2>2
  <1> QED
    BY <1>1, <1>8 DEF less

LEMMA TrailingOnesOf ==
    ASSUME NEW k \in Nat, NEW q \in Nat
    PROVE  P!TrailingOnes(2^(k + 1) * q + (2^k - 1)) = k
  <1> DEFINE a == 2^(k + 1) * q + (2^k - 1)
  <1>1. 2^k \in Nat \ {0} /\ 2^(k + 1) = 2 * 2^k /\ k < 2^k
    BY Doubling, PowerGrows
  <1>2. 2^(k + 1) * q \in Nat
    BY <1>1
  <1>3. a \in Nat /\ k \in 0..a
    BY <1>1, <1>2
  <1>4. a % 2^(k + 1) = 2^k - 1
    <2>1. 2^k - 1 \in 0..(2^(k + 1) - 1) /\ 2^(k + 1) \in Nat \ {0}
      BY <1>1
    <2> QED
      BY <2>1, Remainder
  <1> HIDE DEF a
  <1>5. ASSUME NEW j \in 0..a, a % 2^(j + 1) = 2^j - 1 PROVE j = k
    <2>1. j \in Nat
      BY <1>3
    <2>2. ~(j < k)
      BY <1>3, <1>4, <1>5, <2>1, OnesUnique
    <2>3. ~(k < j)
      BY <1>3, <1>4, <1>5, <2>1, OnesUnique
    <2> QED
      BY <2>1, <2>2, <2>3
  <1> QED
    BY <1>3, <1>4, <1>5 DEF P!TrailingOnes, a

\* The address that napot_encode gives is that of the buffer and nothing else.
LEMMA NapotExact ==
    ASSUME NEW b \in Bases
    PROVE  P!Napot(P!napot_encode(b, Size)) = b..(b + Size - 1)
  <1>1. PICK k \in Nat : Size = 2^(k + 3)
    BY PmpAssumption
  <1> DEFINE p == 2^k
             q == b \div Size
             a == 2^(k + 1) * q + (p - 1)
  <1>2. p \in Nat \ {0} /\ 2^(k + 1) = 2 * p /\ Size = 8 * p
    <2>1. 2^k \in Nat \ {0} /\ 2^(k + 1) = 2 * 2^k
      BY Doubling
    <2>2. 2^((k + 1) + 1) = 2 * 2^(k + 1)
      BY Doubling
    <2>3. 2^((k + 2) + 1) = 2 * 2^(k + 2)
      BY Doubling
    <2>4. (k + 1) + 1 = k + 2 /\ (k + 2) + 1 = k + 3
      OBVIOUS
    <2> QED
      BY <1>1, <2>1, <2>2, <2>3, <2>4
  <1>3. q \in Nat /\ b = Size * q /\ b \in Nat
    <2>1. b \in Nat /\ b % Size = 0 /\ Size \in Nat \ {0}
      BY <1>2, PmpAssumption
    <2>2. b = Size * (b \div Size) + (b % Size) /\ b \div Size \in Nat
      BY <2>1, Quotient
    <2> QED
      BY <2>1, <2>2
  <1> HIDE DEF p, q
  <1>4. PICK r \in Nat : r = p * q
    BY <1>2, <1>3
  <1>5. b = 8 * r /\ a = 2 * r + (p - 1)
    BY <1>2, <1>3, <1>4
  <1>6. P!napot_encode(b, Size) = a
    <2>1. Size \div 2 - 1 = 4 * p - 1
      BY <1>2
    <2>2. b + (Size \div 2 - 1) = 4 * a + 3
      BY <1>5, <2>1, <1>2
    <2>3. (4 * a + 3) \div 4 = a
      BY <1>2, <1>5
    <2> QED
      BY <2>2, <2>3 DEF P!napot_encode
  <1>7. P!TrailingOnes(a) = k
    BY <1>3, TrailingOnesOf DEF p
  <1>8. P!Napot(a) = ((a - (p - 1)) * 4)..((a - (p - 1)) * 4 + Size - 1)
    BY <1>1, <1>7 DEF P!Napot, p
  <1>9. (a - (p - 1)) * 4 = b
    BY <1>2, <1>5
  <1> QED
    BY <1>6, <1>8, <1>9

\* What a write of pmpcfg1 through a fresh copy leaves
LEMMA CfgWritten ==
    ASSUME NEW w, DOMAIN pmpcfg1 = 0..3, cfg1 = pmpcfg1,
           pmpcfg1' = P!WriteCfg1([cfg1 EXCEPT ![2] = w])
    PROVE  /\ DOMAIN pmpcfg1' = 0..3
           /\ \A b \in {0, 1, 3} : pmpcfg1'[b] = pmpcfg1[b]
           /\ pmpcfg1'[2] = IF pmpcfg1[2].L THEN pmpcfg1[2] ELSE w
  <1> DEFINE c == [cfg1 EXCEPT ![2] = w]
  <1>1. c[2] = w /\ \A b \in {0, 1, 3} : c[b] = pmpcfg1[b]
    OBVIOUS
  <1> HIDE DEF c
  <1>2. pmpcfg1' = [b \in 0..3 |-> IF pmpcfg1[b].L THEN pmpcfg1[b] ELSE c[b]]
    BY DEF P!WriteCfg1, c
  <1>3. ASSUME NEW b \in 0..3
        PROVE  pmpcfg1'[b] = IF pmpcfg1[b].L THEN pmpcfg1[b] ELSE c[b]
    BY <1>2
  <1>4. \A b \in {0, 1, 3} : pmpcfg1'[b] = pmpcfg1[b]
    <2> TAKE b \in {0, 1, 3}
    <2>1. b \in 0..3
      OBVIOUS
    <2> QED
      BY <1>1, <1>3, <2>1
  <1> QED
    BY <1>1, <1>2, <1>3, <1>4

\* Entry 6 is written through a copy of all four bytes, which is never stale;
\* what was locked at boot stays; what the reading back said stays true until
\* the entry is switched off.
PmpInv ==
    /\ base \in Bases /\ atBoot \in [4..7 -> Boot]
    /\ DOMAIN pmpcfg1 = 0..3 /\ DOMAIN pmpaddr = 4..7
    /\ \A b \in {0, 1, 3} :
          pmpcfg1[b] = atBoot[b + 4].byte /\ pmpaddr[b + 4] = atBoot[b + 4].addr
    /\ atBoot[6].byte.L => pmpcfg1[2] = atBoot[6].byte
    /\ ~atBoot[6].byte.L => ~pmpcfg1[2].L
    /\ P!LockedTor(atBoot[7].byte) => pmpaddr[6] = atBoot[6].addr
    /\ ppc \in {"write cfg", "write off"} => cfg1 = pmpcfg1
    /\ ppc \in {"store", "disable"} =>
          /\ ok[1] => pmpaddr[6] = P!napot_encode(base, Size)
          /\ ok[2] => pmpcfg1[2] = P!ReadOnly
    /\ ppc = "returned" => pmpcfg1[2] = IF atBoot[6].byte.L THEN atBoot[6].byte ELSE P!Off

LEMMA PmpStep == PmpInv /\ (P!Next \/ UNCHANGED pVars) => PmpInv'
  <1> SUFFICES ASSUME PmpInv, P!Next \/ UNCHANGED pVars PROVE PmpInv'
    OBVIOUS
  <1>1. ~P!Off.L /\ ~P!ReadOnly.L
    BY DEF P!Off, P!ReadOnly
  <1>2. CASE P!ProtectAddr
    <2>1. DOMAIN pmpaddr' = 4..7 /\ \A b \in {0, 1, 3} : pmpaddr'[b + 4] = pmpaddr[b + 4]
      <3>1. PICK a : pmpaddr' = [pmpaddr EXCEPT ![6] = a]
        BY <1>2 DEF P!ProtectAddr, P!WriteAddr
      <3>2. DOMAIN pmpaddr = 4..7
        BY DEF PmpInv
      <3>3. \A b \in {0, 1, 3} : b + 4 \in 4..7 /\ b + 4 # 6
        OBVIOUS
      <3> QED
        BY <3>1, <3>2, <3>3
    <2>2. P!LockedTor(atBoot[7].byte) => pmpaddr'[6] = pmpaddr[6]
      <3>1. P!Byte(7) = atBoot[7].byte
        <4>1. \A b \in {0, 1, 3} : pmpcfg1[b] = atBoot[b + 4].byte
          BY DEF PmpInv
        <4>2. pmpcfg1[3] = atBoot[3 + 4].byte /\ 3 + 4 = 7 /\ 7 % 4 = 3
          BY <4>1
        <4> QED
          BY <4>2 DEF P!Byte
      <3>2. P!LockedTor(atBoot[7].byte) => P!AddrLocked(6)
        BY <3>1 DEF P!AddrLocked
      <3>3. DOMAIN pmpaddr = 4..7
        BY DEF PmpInv
      <3>4. pmpaddr' = [pmpaddr EXCEPT ![6] = IF P!AddrLocked(6) THEN pmpaddr[6]
                                              ELSE P!napot_encode(base, Size)]
        BY <1>2 DEF P!ProtectAddr, P!WriteAddr
      <3>5. pmpaddr'[6] = IF P!AddrLocked(6) THEN pmpaddr[6] ELSE P!napot_encode(base, Size)
        BY <3>3, <3>4
      <3> QED
        BY <3>2, <3>5
    <2> QED
      BY <1>2, <2>1, <2>2 DEF P!ProtectAddr, P!Go, PmpInv
  <1>3. CASE P!ReadCfg1
    BY <1>3 DEF P!ReadCfg1, P!pmpVs, P!Go, PmpInv
  <1>4. CASE P!WriteCfg
    <2>1. cfg1 = pmpcfg1 /\ DOMAIN pmpcfg1 = 0..3
      BY <1>4 DEF P!WriteCfg, P!Go, PmpInv
    <2>2. /\ DOMAIN pmpcfg1' = 0..3
          /\ \A b \in {0, 1, 3} : pmpcfg1'[b] = pmpcfg1[b]
          /\ pmpcfg1'[2] = IF pmpcfg1[2].L THEN pmpcfg1[2] ELSE P!ReadOnly
      BY <1>4, <2>1, CfgWritten DEF P!WriteCfg
    <2> QED
      BY <1>1, <1>4, <2>2 DEF P!WriteCfg, P!Go, PmpInv
  <1>5. CASE P!Verify
    BY <1>5 DEF P!Verify, P!pmpVs, P!Go, PmpInv
  <1>6. CASE P!Store
    BY <1>6 DEF P!Store, P!pmpVs, P!Go, PmpInv
  <1>7. CASE P!pmp_disable_entry6
    <2>1. cfg1 = pmpcfg1 /\ DOMAIN pmpcfg1 = 0..3
      BY <1>7 DEF P!pmp_disable_entry6, P!Go, PmpInv
    <2>2. /\ DOMAIN pmpcfg1' = 0..3
          /\ \A b \in {0, 1, 3} : pmpcfg1'[b] = pmpcfg1[b]
          /\ pmpcfg1'[2] = IF pmpcfg1[2].L THEN pmpcfg1[2] ELSE P!Off
      BY <1>7, <2>1, CfgWritten DEF P!pmp_disable_entry6
    <2> QED
      BY <1>1, <1>7, <2>2 DEF P!pmp_disable_entry6, P!Go, PmpInv
  <1>8. CASE P!Stay \/ UNCHANGED pVars
    BY <1>8 DEF P!Stay, P!vars, P!pmpVs, pVars, PmpInv
  <1> QED
    BY <1>2, <1>3, <1>4, <1>5, <1>6, <1>7, <1>8 DEF P!Next

LEMMA PmpStart == BoardInit => PmpInv
  <1> SUFFICES ASSUME BoardInit PROVE PmpInv
    OBVIOUS
  <1>1. P!Init
    BY DEF BoardInit
  <1> QED
    BY <1>1 DEF P!Init, PmpInv

\* Entry 6 covers the buffer and not a byte more when the reading back says it
\* is set; its neighbours' registers are never touched, and neither is the
\* memory they cover, but for an unlocked TOR entry 7, which begins where
\* pmpaddr6 says; and in the end entry 6 is off again: for any buffer of a power
\* of two bytes from 8, and whatever ESP-IDF has left or locked in the entries 4
\* to 7, of any of the four ways of matching.
THEOREM BufferCovered == BoardSpec => []OnlyTheBuffer
  <1>1. PmpInv /\ [BoardNext]_boardVars => PmpInv'
    BY OneExample, PmpStep
  <1>2. PmpInv => OnlyTheBuffer
    <2> SUFFICES ASSUME PmpInv PROVE OnlyTheBuffer
      OBVIOUS
    <2>1. \A i \in 4..7 : P!Entry(i) = [byte |-> pmpcfg1[i - 4], addr |-> pmpaddr[i]]
      <3>1. \A i \in 4..7 : i % 4 = i - 4
        OBVIOUS
      <3> QED
        BY <3>1 DEF P!Entry, P!Byte
    <2>2. ASSUME ppc \in {"store", "disable"}, ok = <<TRUE, TRUE>>
          PROVE  P!Covers(6) = base..(base + Size - 1)
      <3>1. pmpcfg1[2] = P!ReadOnly /\ pmpaddr[6] = P!napot_encode(base, Size)
        BY <2>2 DEF PmpInv
      <3>2. P!Byte(6) = P!ReadOnly
        BY <3>1 DEF P!Byte
      <3>3. P!ReadOnly.A = "NAPOT"
        BY DEF P!ReadOnly, P!Off
      <3>4. P!Covers(6) = P!Napot(P!napot_encode(base, Size))
        BY <3>1, <3>2, <3>3 DEF P!Covers, P!Matched
      <3> QED
        BY <3>4, NapotExact DEF PmpInv
    <2>3. ASSUME NEW i \in {4, 5, 7} PROVE P!Entry(i) = atBoot[i]
      <3>1. i \in 4..7 /\ i - 4 \in {0, 1, 3} /\ (i - 4) + 4 = i
        OBVIOUS
      <3>2. pmpcfg1[i - 4] = atBoot[i].byte /\ pmpaddr[i] = atBoot[i].addr
        BY <3>1 DEF PmpInv
      <3>3. atBoot[i] = [byte |-> atBoot[i].byte, addr |-> atBoot[i].addr]
        <4>1. atBoot[i] \in Boot
          BY <3>1 DEF PmpInv
        <4> QED
          BY <4>1, PmpAssumption
      <3> QED
        BY <2>1, <3>1, <3>2, <3>3
    <2>4. P!Entry(6).byte = pmpcfg1[2]
      BY <2>1
    <2>5. ASSUME NEW i \in {4, 5, 7}
          PROVE  P!Byte(i) = atBoot[i].byte /\ pmpaddr[i] = atBoot[i].addr
      <3>1. /\ P!Entry(i) = [byte |-> P!Byte(i), addr |-> pmpaddr[i]]
            /\ P!Entry(i) = atBoot[i]
        BY <2>3, <2>5 DEF P!Entry
      <3> QED
        BY <3>1
    <2>6. P!Covers(4) = P!CoveredAtBoot(4) /\ P!Covers(5) = P!CoveredAtBoot(5)
      BY <2>5 DEF P!Covers, P!CoveredAtBoot
    <2>7. \/ P!Covers(7) = P!CoveredAtBoot(7)
          \/ atBoot[7].byte.A = "TOR" /\ ~atBoot[7].byte.L
      <3>1. atBoot[7].byte.A \in P!Modes
        <4>1. atBoot \in [4..7 -> Boot]
          BY DEF PmpInv
        <4>2. atBoot[7] \in Boot
          BY <4>1
        <4> QED
          BY <4>2, PmpAssumption
      <3>2. CASE P!LockedTor(atBoot[7].byte)
        <4>1. pmpaddr[6] = atBoot[6].addr
          BY <3>2 DEF PmpInv
        <4> QED
          BY <2>5, <4>1 DEF P!Covers, P!CoveredAtBoot
      <3>3. CASE atBoot[7].byte.A \in {"OFF", "NA4", "NAPOT"}
        BY <2>5, <3>3 DEF P!Covers, P!CoveredAtBoot, P!Matched
      <3> QED
        BY <3>1, <3>2, <3>3 DEF P!LockedTor, P!Modes
    <2> QED
      BY <2>2, <2>3, <2>4, <2>6, <2>7 DEF PmpInv, OnlyTheBuffer, P!OnlyTheBuffer
  <1> QED
    BY PmpStart, <1>1, <1>2, PTL DEF BoardSpec

-----------------------------------------------------------------------------
(* 20: the SPI bus and its buffers *)

WithDevice == {"loopback", "transmit", "loopback_free", "remove_device"}

\* What is held between two steps of a demonstration
DmaInv ==
    /\ wrong = FALSE
    /\ \A p \in allocated :
          \/ p \in {"dma", "normal"} /\ dpc = "forget_both"
          \/ p \in {"tx", "rx"} /\ dpc \in {"flow_use", "flow_free", "transmit", "loopback_free"}
    /\ bus \in {"free", "initialized"}
    /\ bus = "initialized" <=> dpc \in {"device", "free_bus"} \cup WithDevice
    /\ dpc \in WithDevice => devices = 1
    /\ dpc \notin WithDevice => devices = 0

LEMMA DmaStep == DmaInv /\ (D!Next \/ UNCHANGED dVars) => DmaInv'
  <1> SUFFICES ASSUME DmaInv, D!Next \/ UNCHANGED dVars PROVE DmaInv'
    OBVIOUS
  <1> USE DEF DmaInv, WithDevice
  <1>1. CASE \/ D!Allocate({"dma", "normal"}, "requirements", "forget_both")
             \/ D!Allocate({"tx", "rx"}, "flow", "flow_use")
             \/ D!Allocate({"tx", "rx"}, "loopback", "transmit")
    BY <1>1 DEF D!Allocate
  <1>2. CASE \/ D!Release({"dma", "normal"}, "forget_both", "flow")
             \/ D!Release({"tx", "rx"}, "flow_free", "bus")
             \/ D!Release({"tx", "rx"}, "loopback_free", "remove_device")
    BY <1>2 DEF D!Release
  <1>3. CASE D!Synchronise \/ D!Transmit
    BY <1>3 DEF D!Synchronise, D!Transmit
  <1>4. CASE D!spi_bus_initialize
    BY <1>4 DEF D!spi_bus_initialize
  <1>5. CASE D!spi_bus_add_device
    <2>1. wrong' = FALSE /\ devices = 0
      BY <1>5 DEF D!spi_bus_add_device
    <2> QED
      BY <1>5, <2>1 DEF D!spi_bus_add_device
  <1>6. CASE D!RemoveDevice
    <2>1. devices # 0
      BY <1>6 DEF D!RemoveDevice
    <2>2. wrong' = FALSE
      BY <1>6, <2>1, Zenon DEF D!RemoveDevice
    <2>3. devices' = 0
      BY <1>6 DEF D!RemoveDevice
    <2> QED
      BY <1>6, <2>2, <2>3 DEF D!RemoveDevice
  <1>7. CASE D!spi_bus_free
    BY <1>7 DEF D!spi_bus_free
  <1>8. CASE D!Stay \/ UNCHANGED dVars
    BY <1>8 DEF D!Stay, D!vars, dVars
  <1> QED
    BY <1>1, <1>2, <1>3, <1>4, <1>5, <1>6, <1>7, <1>8 DEF D!Next

-----------------------------------------------------------------------------
(* 19: the heap and the pool *)

Small == 0..(SMALL_N - 1)
CellsOf == 0..(Cells - 1)

\* The blocks that the program has a pointer to
Live == {p \in CellsOf : p = large \/ p = g_pool \/ \E k \in Small : ptrs[k] = p}

\* Each block is reached from its pointer, and each cell is in such a block,
\* free, or another's.
Owned(heap, live, theirs) ==
    /\ heap \in [CellsOf -> Int]
    /\ \A p \in live : p \in CellsOf /\ heap[p] = p
    /\ \A c \in CellsOf : IF c \in theirs THEN heap[c] = H!Others
                           ELSE heap[c] = H!Free \/ heap[c] \in live

LEMMA MallocOwns ==
    ASSUME NEW live, Owned(cell, live, others), NEW n \in Nat \ {0}, NEW a \in H!Places(n)
    PROVE  a \in CellsOf /\ a \notin live /\ Owned(H!Taking(a, n), live \cup {a}, others)
  <1> USE ParametersAssumption DEF CellsOf, Owned, H!Places, H!Taking, H!Free, H!Others
  <1>1. a \in CellsOf /\ a \in a..(a + n - 1) /\ cell[a] = H!Free
    OBVIOUS
  <1>2. a \notin live
    BY <1>1
  <1>3. \A p \in live : p \notin a..(a + n - 1)
    OBVIOUS
  <1>4. \A c \in others \cap CellsOf : c \notin a..(a + n - 1)
    OBVIOUS
  <1>5. H!Taking(a, n) \in [CellsOf -> Int]
    BY <1>1
  <1>6. \A p \in live \cup {a} : p \in CellsOf /\ H!Taking(a, n)[p] = p
    BY <1>1, <1>3
  <1>7. \A c \in CellsOf : IF c \in others THEN H!Taking(a, n)[c] = H!Others
                           ELSE H!Taking(a, n)[c] = H!Free \/ H!Taking(a, n)[c] \in live \cup {a}
    BY <1>4
  <1> QED
    BY <1>1, <1>2, <1>5, <1>6, <1>7

LEMMA FreeOwns ==
    ASSUME NEW live, Owned(cell, live, others), NEW p \in live \cup {H!NULL}, H!free(p), misuse = FALSE
    PROVE  Owned(cell', live \ {p}, others) /\ misuse' = FALSE
  <1> USE ParametersAssumption DEF CellsOf, Owned, H!free, H!NULL, H!Free, H!Others
  <1>1. cell' \in [CellsOf -> Int]
    OBVIOUS
  <1>2. \A q \in live \ {p} : q \in CellsOf /\ cell'[q] = q
    OBVIOUS
  <1>3. \A c \in CellsOf : IF c \in others THEN cell'[c] = H!Others
                           ELSE cell'[c] = H!Free \/ cell'[c] \in live \ {p}
    BY SMTT(60)
  <1>4. p # H!NULL => cell[p] = p
    OBVIOUS
  <1>5. misuse' = FALSE
    BY <1>4
  <1> QED
    BY <1>1, <1>2, <1>3, <1>5

\* The pointers, and the blocks they lead to; no two are the same.
BlocksInv ==
    /\ others \subseteq CellsOf
    /\ ptrs \in [Small -> CellsOf \cup {H!NULL}]
    /\ large \in CellsOf \cup {H!NULL} /\ g_pool \in CellsOf \cup {H!NULL}
    /\ misuse = FALSE
    /\ Owned(cell, Live, others)
    /\ \A j, k \in Small : ptrs[j] = ptrs[k] => j = k \/ ptrs[j] = H!NULL
    /\ \A k \in Small : ptrs[k] = large => large = H!NULL

\* app_main's loops, and what has been freed by each of them
Pooling == {"take_all", "give_even", "take_again", "give_all", "drop_pool"}
StageInv ==
    /\ apc \in {"alloc", "chess", "cleanup"} => loop_i \in Small
    /\ apc \in {"large", "large_again", "pool"} => loop_i = 0
    /\ apc \in Pooling \ {"drop_pool"} => loop_i \in H!S
    /\ apc = "alloc" => \A k \in Small : k >= loop_i => ptrs[k] = H!NULL
    /\ apc = "cleanup" => \A k \in Small : k < loop_i => ptrs[k] = H!NULL
    /\ apc \in {"large_again", "pool", "returned"} \cup Pooling =>
          \A k \in Small : ptrs[k] = H!NULL
    /\ large # H!NULL => apc \in {"large", "large_again"}
    /\ g_pool # H!NULL => apc \in Pooling

Run == \E a \in 0..(Cells - LargeCells) : \A c \in a..(a + LargeCells - 1) : c \notin others

\* The last result of try_large_alloc
ResultInv ==
    /\ got \in [{"large", "large_again"} -> BOOLEAN]
    /\ apc = "large_again" /\ large # H!NULL => got["large_again"] /\ Run
    /\ apc = "pool" => (got["large_again"] <=> Run)

LEMMA AllocSmallKeeps ==
    ASSUME BlocksInv, StageInv, ResultInv, H!AllocSmall
    PROVE  BlocksInv' /\ StageInv' /\ ResultInv'
  <1> USE ParametersAssumption DEF H!AllocSmall, StageInv, Pooling, Small, H!NULL, H!Loop
  <1>1. loop_i \in Small /\ ptrs[loop_i] = H!NULL /\ UNCHANGED <<others, large, g_pool, got>>
    OBVIOUS
  <1>2. BlocksInv'
    <2>1. CASE H!Places(1) = {}
      <3>1. cell' = cell /\ misuse' = misuse /\ ptrs' = [ptrs EXCEPT ![loop_i] = H!NULL]
        BY <1>1, <2>1 DEF H!malloc, H!heapVs
      <3>2. ptrs' = ptrs
        BY <1>1, <3>1 DEF BlocksInv
      <3>3. Live' = Live
        BY <1>1, <3>2 DEF Live
      <3> QED
        BY <1>1, <3>1, <3>2, <3>3 DEF BlocksInv
    <2>2. ASSUME NEW a \in H!Places(1), cell' = H!Taking(a, 1), misuse' = misuse,
                 ptrs' = [ptrs EXCEPT ![loop_i] = a]
          PROVE  BlocksInv'
      <3>1. a \in CellsOf /\ a \notin Live /\ Owned(cell', Live \cup {a}, others)
        <4>1. Owned(cell, Live, others) /\ 1 \in Nat \ {0}
          BY DEF BlocksInv
        <4> QED
          BY <2>2, <4>1, MallocOwns
      <3>2. Live' = Live \cup {a}
        BY <1>1, <2>2, <3>1 DEF Live, BlocksInv
      <3>3. \A k \in Small : ptrs[k] # a
        BY <3>1 DEF Live
      <3>4. large # a
        BY <3>1 DEF Live
      <3> QED
        BY <1>1, <2>2, <3>1, <3>2, <3>3, <3>4 DEF BlocksInv, CellsOf
    <2> QED
      BY <2>1, <2>2 DEF H!malloc
  <1>3. StageInv'
    <2>1. \A k \in Small : k # loop_i => ptrs'[k] = ptrs[k]
      BY DEF BlocksInv
    <2>2. CASE loop_i' = loop_i + 1 /\ loop_i + 1 < SMALL_N /\ apc' = "alloc"
      BY <1>1, <2>1, <2>2
    <2>3. CASE loop_i' = 0 /\ apc' = "chess"
      BY <1>1, <2>3
    <2> QED
      BY <2>2, <2>3
  <1>4. ResultInv'
    BY <1>1 DEF ResultInv, Run
  <1> QED
    BY <1>2, <1>3, <1>4

LEMMA FreeSmallKeeps ==
    ASSUME BlocksInv, StageInv, ResultInv, H!FreeEven \/ H!Cleanup
    PROVE  BlocksInv' /\ StageInv' /\ ResultInv'
  <1> USE ParametersAssumption
      DEF H!FreeEven, H!Cleanup, StageInv, Pooling, Small, H!NULL, H!Loop
  <1>1. /\ loop_i \in Small /\ g_pool = H!NULL /\ H!free(ptrs[loop_i])
        /\ ptrs' = [ptrs EXCEPT ![loop_i] = H!NULL]
        /\ UNCHANGED <<others, large, g_pool, got>>
    OBVIOUS
  <1>2. BlocksInv'
    <2>1. ptrs[loop_i] \in Live \cup {H!NULL} /\ Owned(cell, Live, others) /\ misuse = FALSE
      BY <1>1 DEF BlocksInv, Live
    <2>2. Owned(cell', Live \ {ptrs[loop_i]}, others) /\ misuse' = FALSE
      BY <1>1, <2>1, FreeOwns
    <2>3. Live' = Live \ {ptrs[loop_i]}
      BY <1>1, SMTT(60) DEF BlocksInv, Live, CellsOf
    <2> QED
      BY <1>1, <2>2, <2>3 DEF BlocksInv
  <1>3. StageInv'
    <2>1. \A k \in Small : k # loop_i => ptrs'[k] = ptrs[k]
      BY <1>1 DEF BlocksInv
    <2>2. ptrs'[loop_i] = H!NULL
      BY <1>1 DEF BlocksInv
    <2>3. CASE H!FreeEven
      BY <1>1, <2>1, <2>2, <2>3
    <2>4. CASE H!Cleanup
      BY <1>1, <2>1, <2>2, <2>4
    <2> QED
      BY <2>3, <2>4
  <1>4. ResultInv'
    BY <1>1 DEF ResultInv, Run
  <1> QED
    BY <1>2, <1>3, <1>4

\* With everything given back, a run of free cells is a run that is not others'.
LEMMA RunWhenEmpty ==
    ASSUME BlocksInv, Live = {}
    PROVE  H!Places(LargeCells) # {} <=> Run
  <1>1. \A c \in CellsOf : cell[c] = H!Free <=> c \notin others
    BY DEF BlocksInv, Owned, H!Free, H!Others
  <1>2. \A a \in 0..(Cells - LargeCells) : \A c \in a..(a + LargeCells - 1) : c \in CellsOf
    BY ParametersAssumption DEF CellsOf
  <1> QED
    BY <1>1, <1>2 DEF H!Places, Run

LEMMA TryLargeKeeps ==
    ASSUME BlocksInv, StageInv, ResultInv, H!TryLarge
    PROVE  BlocksInv' /\ StageInv' /\ ResultInv'
  <1> USE ParametersAssumption DEF H!TryLarge, StageInv, Pooling, Small, H!NULL
  <1>1. /\ g_pool = H!NULL /\ large = H!NULL /\ UNCHANGED <<others, g_pool, ptrs, loop_i>>
        /\ apc \in {"large", "large_again"}
    OBVIOUS
  <1>2. PICK p \in {H!NULL} \cup CellsOf :
           /\ H!malloc(p, LargeCells) /\ large' = p
           /\ got' = [got EXCEPT ![apc] = (p # H!NULL)]
           /\ apc' = IF p # H!NULL THEN apc ELSE IF apc = "large" THEN "cleanup" ELSE "pool"
    BY DEF CellsOf
  <1>3. CASE H!Places(LargeCells) = {}
    <2>1. p = H!NULL /\ cell' = cell /\ misuse' = misuse /\ large' = H!NULL
      BY <1>2, <1>3 DEF H!malloc, H!heapVs
    <2>2. Live' = Live
      BY <1>1, <2>1 DEF Live
    <2>3. BlocksInv'
      BY <1>1, <2>1, <2>2 DEF BlocksInv
    <2>4. StageInv'
      BY <1>1, <1>2, <2>1
    <2>5. apc' = "pool" => ~Run
      <3>1. apc = "large_again" => Live = {}
        BY <1>1 DEF Live, CellsOf
      <3> QED
        BY <1>1, <1>2, <1>3, <3>1, RunWhenEmpty
    <2>6. ResultInv'
      BY <1>1, <1>2, <2>1, <2>5 DEF ResultInv, Run
    <2> QED
      BY <2>3, <2>4, <2>6
  <1>4. ASSUME p \in H!Places(LargeCells), cell' = H!Taking(p, LargeCells), misuse' = misuse
        PROVE  BlocksInv' /\ StageInv' /\ ResultInv'
    <2>1. p \in CellsOf /\ p \notin Live /\ Owned(cell', Live \cup {p}, others)
      <3>1. Owned(cell, Live, others) /\ LargeCells \in Nat \ {0}
        BY DEF BlocksInv
      <3> QED
        BY <1>4, <3>1, MallocOwns
    <2>2. Live' = Live \cup {p}
      BY <1>1, <1>2, <2>1 DEF Live, CellsOf
    <2>3. \A k \in Small : ptrs[k] # p
      BY <2>1 DEF Live
    <2>4. BlocksInv'
      BY <1>1, <1>2, <1>4, <2>1, <2>2, <2>3 DEF BlocksInv, CellsOf
    <2>5. p # H!NULL /\ apc' = apc
      BY <1>2, <2>1 DEF CellsOf
    <2>6. StageInv'
      BY <1>1, <1>2, <2>5
    <2>7. apc = "large_again" => Run
      <3>1. apc = "large_again" => Live = {}
        BY <1>1 DEF Live, CellsOf
      <3> QED
        BY <1>4, <3>1, RunWhenEmpty
    <2>8. ResultInv'
      BY <1>1, <1>2, <2>5, <2>7 DEF ResultInv, Run
    <2> QED
      BY <2>4, <2>6, <2>8
  <1> QED
    BY <1>2, <1>3, <1>4 DEF H!malloc

LEMMA FreeLargeKeeps ==
    ASSUME BlocksInv, StageInv, ResultInv, H!FreeLarge
    PROVE  BlocksInv' /\ StageInv' /\ ResultInv'
  <1> USE ParametersAssumption DEF H!FreeLarge, StageInv, Pooling, Small, H!NULL
  <1>1. /\ g_pool = H!NULL /\ large # H!NULL /\ H!free(large) /\ large' = H!NULL
        /\ UNCHANGED <<others, g_pool, ptrs, loop_i, got>>
    OBVIOUS
  <1>2. BlocksInv'
    <2>1. large \in Live \cup {H!NULL} /\ Owned(cell, Live, others) /\ misuse = FALSE
      BY <1>1 DEF BlocksInv, Live
    <2>2. Owned(cell', Live \ {large}, others) /\ misuse' = FALSE
      BY <1>1, <2>1, FreeOwns
    <2>3. Live' = Live \ {large}
      BY <1>1 DEF BlocksInv, Live, CellsOf
    <2>4. \A k \in Small : ptrs'[k] = large' => large' = H!NULL
      BY <1>1
    <2> QED
      BY <1>1, <2>2, <2>3, <2>4 DEF BlocksInv
  <1>3. StageInv'
    BY <1>1
  <1>4. ResultInv'
    BY <1>1 DEF ResultInv, Run
  <1> QED
    BY <1>2, <1>3, <1>4

LEMMA MakePoolKeeps ==
    ASSUME BlocksInv, StageInv, ResultInv, H!MakePool
    PROVE  BlocksInv' /\ StageInv' /\ ResultInv'
  <1> USE ParametersAssumption DEF H!MakePool, StageInv, Pooling, Small, H!NULL
  <1>1. /\ g_pool = H!NULL /\ large = H!NULL /\ \A k \in Small : ptrs[k] = H!NULL
        /\ UNCHANGED <<others, large, ptrs, loop_i, got>>
    OBVIOUS
  <1>2. PICK p \in {H!NULL} \cup CellsOf :
           /\ H!malloc(p, PoolCells) /\ g_pool' = p
           /\ apc' = IF p = H!NULL THEN "returned" ELSE "take_all"
    BY DEF CellsOf
  <1>3. BlocksInv'
    <2>1. CASE H!Places(PoolCells) = {}
      <3>1. cell' = cell /\ misuse' = misuse /\ g_pool' = g_pool
        BY <1>1, <1>2, <2>1 DEF H!malloc, H!heapVs
      <3>2. Live' = Live
        BY <1>1, <3>1 DEF Live
      <3> QED
        BY <1>1, <3>1, <3>2 DEF BlocksInv
    <2>2. ASSUME p \in H!Places(PoolCells), cell' = H!Taking(p, PoolCells), misuse' = misuse
          PROVE  BlocksInv'
      <3>1. p \in CellsOf /\ Owned(cell', Live \cup {p}, others)
        <4>1. Owned(cell, Live, others) /\ PoolCells \in Nat \ {0}
          BY DEF BlocksInv
        <4> QED
          BY <2>2, <4>1, MallocOwns
      <3>2. Live' = Live \cup {p}
        BY <1>1, <1>2, <3>1 DEF Live, CellsOf
      <3> QED
        BY <1>1, <1>2, <2>2, <3>1, <3>2 DEF BlocksInv
    <2> QED
      BY <1>2, <2>1, <2>2 DEF H!malloc
  <1>4. StageInv'
    BY <1>1, <1>2 DEF H!S
  <1>5. ResultInv'
    BY <1>1, <1>2 DEF ResultInv, Run
  <1> QED
    BY <1>3, <1>4, <1>5

LEMMA DropPoolKeeps ==
    ASSUME BlocksInv, StageInv, ResultInv, H!DropPool
    PROVE  BlocksInv' /\ StageInv' /\ ResultInv'
  <1> USE ParametersAssumption DEF H!DropPool, StageInv, Pooling, Small, H!NULL
  <1>1. /\ large = H!NULL /\ \A k \in Small : ptrs[k] = H!NULL
        /\ H!free(g_pool) /\ g_pool' = H!NULL /\ apc' = "returned"
        /\ UNCHANGED <<others, large, ptrs, loop_i, got>>
    OBVIOUS
  <1>2. BlocksInv'
    <2>1. g_pool \in Live \cup {H!NULL} /\ Owned(cell, Live, others) /\ misuse = FALSE
      BY <1>1 DEF BlocksInv, Live
    <2>2. Owned(cell', Live \ {g_pool}, others) /\ misuse' = FALSE
      BY <1>1, <2>1, FreeOwns
    <2>3. Live' = Live \ {g_pool}
      BY <1>1, SMTT(60) DEF BlocksInv, Live, CellsOf
    <2> QED
      BY <1>1, <2>2, <2>3 DEF BlocksInv
  <1> QED
    BY <1>1, <1>2 DEF ResultInv, Run

LEMMA UsePoolKeeps ==
    ASSUME BlocksInv, StageInv, ResultInv, H!Take \/ H!Give
    PROVE  BlocksInv' /\ StageInv' /\ ResultInv'
  <1> USE DEF H!Take, H!Give, H!heapVs
  <1>1. UNCHANGED <<others, cell, misuse, ptrs, large, g_pool, got>>
    OBVIOUS
  <1>2. Live' = Live
    BY <1>1 DEF Live
  <1>3. BlocksInv'
    BY <1>1, <1>2 DEF BlocksInv
  <1>4. StageInv'
    BY <1>1 DEF StageInv, Pooling, Small, H!S, H!Loop
  <1>5. ResultInv'
    BY <1>1 DEF ResultInv, Run, H!Loop
  <1> QED
    BY <1>3, <1>4, <1>5

\* The slot that s[k] points to, if any, is held by k, or by nobody but js.
Has(k) == \A slot \in H!Slots : s[k] = slot * POOL_SLOT_SZ => holder[slot] = k
HeldBy(k, js) ==
    \A slot \in H!Slots : s[k] = slot * POOL_SLOT_SZ => holder[slot] \in js \cup {H!NULL}

\* A slot has its bit set as long as it is held, or lost; a pointer is to a slot,
\* and to the one its index holds.
SlotsCore ==
    /\ holder \in [H!Slots -> H!S \cup {H!NULL, H!Lost}]
    /\ shared = FALSE
    /\ used = {slot \in H!Slots : holder[slot] # H!NULL}
    /\ s \in [H!S -> Int]
    /\ \A k \in H!S : s[k] = H!NULL \/ \E slot \in H!Slots : s[k] = slot * POOL_SLOT_SZ
    /\ \A slot \in H!Slots : holder[slot] \in H!S => s[holder[slot]] = slot * POOL_SLOT_SZ

\* Who holds the slots in each of demo_pool's loops: the pointers that are given
\* back by the second and not overwritten by the third are stale, and their
\* slots held by an index that the fourth comes to before.
LoopsInv ==
    /\ apc \notin Pooling \cup {"returned"} =>
          /\ \A k \in H!S : s[k] = H!NULL
          /\ \A slot \in H!Slots : holder[slot] = H!NULL
    /\ apc = "take_all" => \A k \in H!S : Has(k)
    /\ apc = "give_even" =>
          /\ loop_i \in {0, 2, 4, 6}
          /\ \A k \in H!S : IF k \in {0, 2, 4, 6} /\ k < loop_i THEN HeldBy(k, {}) ELSE Has(k)
    /\ apc = "take_again" =>
          /\ loop_i < 4
          /\ \A k \in H!S : IF k \in {0, 2, 4, 6} /\ k >= loop_i
                             THEN HeldBy(k, 0..(loop_i - 1)) ELSE Has(k)
    /\ apc = "give_all" =>
          \A k \in H!S : k >= loop_i =>
              IF k \in {4, 6} THEN HeldBy(k, loop_i..3) ELSE Has(k)
    /\ repeated = {k \in {4, 6} \cap H!GivenAtLast : s[k] # H!NULL}

SlotsInv == SlotsCore /\ LoopsInv

\* The lowest of some numbers
LEMMA LowestIsOne ==
    ASSUME NEW ns \in SUBSET Nat, ns # {}
    PROVE  H!Min(ns) \in ns
  <1>1. PICK n \in ns : \A m \in ns : ~(<<m, n>> \in OpToRel(<, Nat))
    BY NatLessThanWellFounded, WFMin
  <1>2. \A m \in ns : ~(m < n)
    BY <1>1 DEF OpToRel
  <1>3. \A m \in ns : n =< m
    BY <1>2
  <1>4. \E x \in ns : \A y \in ns : x =< y
    BY <1>3
  <1> QED
    BY <1>4, Zenon DEF H!Min

\* The offset of a slot divided by the size of a slot is the slot.
LEMMA SlotOfOffset ==
    ASSUME NEW slot \in H!Slots
    PROVE  (slot * POOL_SLOT_SZ) \div POOL_SLOT_SZ = slot /\ slot * POOL_SLOT_SZ >= 0
  BY ParametersAssumption DEF H!Slots

LEMMA OffsetsDiffer ==
    /\ \A x, y \in H!Slots : x * POOL_SLOT_SZ = y * POOL_SLOT_SZ => x = y
    /\ \A x \in H!Slots : x * POOL_SLOT_SZ # H!NULL /\ x * POOL_SLOT_SZ \in Int
  <1>1. \A x \in H!Slots : x * POOL_SLOT_SZ \in Int
    BY ParametersAssumption DEF H!Slots
  <1> QED
    BY <1>1, SlotOfOffset DEF H!NULL

\* pool_alloc takes a slot that nobody holds, for k.
LEMMA AllocSlot ==
    ASSUME SlotsCore, NEW k \in H!S, H!pool_alloc(k)
    PROVE  /\ SlotsCore' /\ repeated' = repeated
           /\ Has(k)'
           /\ \A j \in H!S \ {k} :
                 /\ s'[j] = s[j]
                 /\ Has(j) => Has(j)'
                 /\ \A js \in SUBSET H!S :
                       k \notin js /\ HeldBy(j, js) => HeldBy(j, js \cup {k})'
  <1> DEFINE losing == [x \in H!Slots |-> IF holder[x] = k THEN H!Lost ELSE holder[x]]
  <1>1. losing = H!Losing(k)
    BY DEF H!Losing
  <1>2. /\ losing \in [H!Slots -> H!S \cup {H!NULL, H!Lost}]
        /\ \A x \in H!Slots : losing[x] = IF holder[x] = k THEN H!Lost ELSE holder[x]
    BY DEF SlotsCore
  <1>3. H!NULL \notin H!S /\ H!Lost \notin H!S /\ H!Lost # H!NULL
    BY DEF H!S, H!NULL, H!Lost
  <1> HIDE DEF losing
  <1>4. CASE used = H!Slots
    <2>1. s' = [s EXCEPT ![k] = H!NULL] /\ holder' = losing /\ UNCHANGED <<used, shared, repeated>>
      BY <1>1, <1>4 DEF H!pool_alloc
    <2>2. s' \in [H!S -> Int] /\ s'[k] = H!NULL /\ \A j \in H!S \ {k} : s'[j] = s[j]
      BY <2>1 DEF SlotsCore, H!NULL
    <2>3. SlotsCore'
      BY <1>2, <1>3, <2>1, <2>2 DEF SlotsCore
    <2>4. Has(k)'
      BY <2>2, OffsetsDiffer DEF Has
    <2>5. ASSUME NEW j \in H!S \ {k}, Has(j) PROVE Has(j)'
      BY <1>2, <2>1, <2>2, <2>5 DEF Has
    <2>6. ASSUME NEW j \in H!S \ {k}, NEW js \in SUBSET H!S, k \notin js, HeldBy(j, js)
          PROVE  HeldBy(j, js \cup {k})'
      BY <1>2, <1>3, <2>1, <2>2, <2>6 DEF HeldBy
    <2> QED
      BY <2>1, <2>2, <2>3, <2>4, <2>5, <2>6
  <1>5. CASE used # H!Slots
    <2> DEFINE new == H!Min(H!Slots \ used)
    <2>1. new \in H!Slots \ used
      <3>1. (H!Slots \ used) \in SUBSET Nat
        BY ParametersAssumption DEF H!Slots
      <3>2. H!Slots \ used # {}
        BY <1>5 DEF SlotsCore
      <3> QED
        BY <3>1, <3>2, LowestIsOne
    <2>2. /\ used' = used \cup {new} /\ s' = [s EXCEPT ![k] = new * POOL_SLOT_SZ]
          /\ shared' = (shared \/ holder[new] # H!NULL)
          /\ holder' = [losing EXCEPT ![new] = k] /\ repeated' = repeated
      BY <1>1, <1>5 DEF H!pool_alloc, H!Marked
    <2> HIDE DEF new
    <2>3. holder[new] = H!NULL /\ shared' = FALSE
      BY <2>1, <2>2 DEF SlotsCore
    <2>4. s' \in [H!S -> Int] /\ s'[k] = new * POOL_SLOT_SZ /\ \A j \in H!S \ {k} : s'[j] = s[j]
      BY <2>1, <2>2, OffsetsDiffer DEF SlotsCore
    <2>5. /\ holder' \in [H!Slots -> H!S \cup {H!NULL, H!Lost}]
          /\ holder'[new] = k
          /\ \A x \in H!Slots \ {new} : holder'[x] = IF holder[x] = k THEN H!Lost ELSE holder[x]
      BY <1>2, <2>1, <2>2
    <2>6. SlotsCore'
      <3>1. used' = {slot \in H!Slots : holder'[slot] # H!NULL}
        BY <1>3, <2>1, <2>2, <2>3, <2>5 DEF SlotsCore
      <3>2. \A j \in H!S : s'[j] = H!NULL \/ \E slot \in H!Slots : s'[j] = slot * POOL_SLOT_SZ
        BY <2>1, <2>4 DEF SlotsCore
      <3>3. \A slot \in H!Slots : holder'[slot] \in H!S => s'[holder'[slot]] = slot * POOL_SLOT_SZ
        BY <1>3, <2>4, <2>5 DEF SlotsCore
      <3> QED
        BY <2>3, <2>4, <2>5, <3>1, <3>2, <3>3 DEF SlotsCore
    <2>7. Has(k)'
      BY <2>1, <2>4, <2>5, OffsetsDiffer DEF Has
    <2>8. ASSUME NEW j \in H!S \ {k}, Has(j) PROVE Has(j)'
      BY <1>3, <2>3, <2>4, <2>5, <2>8 DEF Has
    <2>9. ASSUME NEW j \in H!S \ {k}, NEW js \in SUBSET H!S, k \notin js, HeldBy(j, js)
          PROVE  HeldBy(j, js \cup {k})'
      BY <1>3, <2>4, <2>5, <2>9 DEF HeldBy
    <2> QED
      BY <2>2, <2>4, <2>6, <2>7, <2>8, <2>9
  <1> QED
    BY <1>4, <1>5

\* pool_free gives back what k holds, and a stale pointer disturbs nobody.
LEMMA FreeSlot ==
    ASSUME SlotsCore, NEW k \in H!S, Has(k) \/ HeldBy(k, {}), H!pool_free(k)
    PROVE  /\ SlotsCore' /\ s' = s
           /\ HeldBy(k, {})'
           /\ repeated' = IF HeldBy(k, {}) /\ s[k] # H!NULL THEN repeated \cup {k} ELSE repeated
           /\ \A j \in H!S \ {k} :
                 /\ Has(j) => Has(j)'
                 /\ \A js \in SUBSET H!S : HeldBy(j, js) => HeldBy(j, js \ {k})'
  <1>1. H!NULL \notin H!S /\ H!Lost \notin H!S /\ H!Lost # H!NULL /\ H!NULL \notin H!Slots
    BY DEF H!S, H!NULL, H!Lost, H!Slots
  <1> DEFINE m == H!SlotOf(s[k])
  <1>2. /\ used' = used \ {m} /\ s' = s
        /\ holder' = [x \in H!Slots |-> IF x = m /\ holder[x] = k THEN H!NULL ELSE holder[x]]
        /\ shared' = (shared \/ (m \in H!Slots /\ holder[m] \notin {k, H!NULL}))
        /\ repeated' = IF m \in H!Slots /\ holder[m] = H!NULL THEN repeated \cup {k} ELSE repeated
    BY DEF H!pool_free
  <1>3. s[k] = H!NULL => m = H!NULL
    BY DEF H!SlotOf
  <1>4. s[k] # H!NULL => m \in H!Slots /\ s[k] = m * POOL_SLOT_SZ
    <2>1. ASSUME NEW x \in H!Slots, s[k] = x * POOL_SLOT_SZ
          PROVE  m = x
      BY <2>1, SlotOfOffset, OffsetsDiffer DEF H!SlotOf
    <2> QED
      BY <2>1 DEF SlotsCore
  <1> HIDE DEF m
  <1>5. m \in H!Slots => s[k] # H!NULL /\ s[k] = m * POOL_SLOT_SZ
    BY <1>1, <1>3, <1>4
  <1>6. m \in H!Slots => holder[m] \in {k, H!NULL}
    BY <1>5 DEF Has, HeldBy
  <1>7. /\ holder' \in [H!Slots -> H!S \cup {H!NULL, H!Lost}]
        /\ \A x \in H!Slots : holder'[x] = IF x = m /\ holder[x] = k THEN H!NULL ELSE holder[x]
    BY <1>2 DEF SlotsCore
  <1>8. SlotsCore'
    <2>1. used' = {slot \in H!Slots : holder'[slot] # H!NULL}
      BY <1>1, <1>2, <1>6, <1>7 DEF SlotsCore
    <2>2. \A slot \in H!Slots : holder'[slot] \in H!S => s'[holder'[slot]] = slot * POOL_SLOT_SZ
      BY <1>1, <1>2, <1>7 DEF SlotsCore
    <2> QED
      BY <1>2, <1>6, <1>7, <2>1, <2>2 DEF SlotsCore
  <1>9. HeldBy(k, {})'
    BY <1>2, <1>4, <1>6, <1>7, OffsetsDiffer DEF HeldBy
  <1>10. repeated' = IF HeldBy(k, {}) /\ s[k] # H!NULL THEN repeated \cup {k} ELSE repeated
    <2>1. (m \in H!Slots /\ holder[m] = H!NULL) <=> (HeldBy(k, {}) /\ s[k] # H!NULL)
      BY <1>1, <1>4, <1>5, OffsetsDiffer DEF HeldBy
    <2> QED
      BY <1>2, <2>1
  <1>11. ASSUME NEW j \in H!S \ {k}, Has(j) PROVE Has(j)'
    BY <1>2, <1>7, <1>11 DEF Has
  <1>12. ASSUME NEW j \in H!S \ {k}, NEW js \in SUBSET H!S, HeldBy(j, js)
         PROVE  HeldBy(j, js \ {k})'
    <2> SUFFICES ASSUME NEW x \in H!Slots, s[j] = x * POOL_SLOT_SZ
                 PROVE  holder'[x] \in (js \ {k}) \cup {H!NULL}
      BY <1>2 DEF HeldBy
    <2>1. holder[x] \in js \cup {H!NULL}
      BY <1>12 DEF HeldBy
    <2>2. CASE holder[x] = k
      <3>1. s[k] = x * POOL_SLOT_SZ
        BY <2>2 DEF SlotsCore
      <3>2. x = m
        BY <1>4, <3>1, OffsetsDiffer
      <3> QED
        BY <1>7, <2>2, <3>2
    <2>3. CASE holder[x] # k
      BY <1>7, <2>1, <2>3
    <2> QED
      BY <2>2, <2>3
  <1> QED
    BY <1>2, <1>8, <1>9, <1>10, <1>11, <1>12

LEMMA TakeKeeps ==
    ASSUME SlotsInv, StageInv, H!Take
    PROVE  SlotsInv'
  <1>0. PICK n \in H!S : n = loop_i
    BY DEF H!Take, StageInv, Pooling
  <1>1. n \in H!S /\ H!pool_alloc(n)
    BY <1>0 DEF H!Take
  <1>2. SlotsCore' /\ repeated' = repeated /\ repeated = {}
    BY <1>0, <1>1, AllocSlot DEF SlotsInv, LoopsInv, H!Take, H!GivenAtLast
  <1>3. CASE apc = "take_all"
    <2>1. \A k \in H!S : Has(k)'
      BY <1>0, <1>1, <1>3, AllocSlot DEF SlotsInv, LoopsInv
    <2>2. CASE apc' = "take_all"
      BY <1>0, <1>2, <2>1, <2>2 DEF SlotsInv, LoopsInv, H!GivenAtLast, Pooling
    <2>3. CASE apc' = "give_even" /\ loop_i' = 0
      BY <1>0, <1>2, <2>1, <2>3 DEF SlotsInv, LoopsInv, H!GivenAtLast, Pooling, H!S
    <2> QED
      BY <1>0, <1>3, <2>2, <2>3 DEF H!Take, H!Loop
  <1>4. CASE apc = "take_again"
    <2>1. n \in 0..3 /\ 0..(n - 1) \in SUBSET H!S /\ n \notin 0..(n - 1)
          /\ 0..((n + 1) - 1) = 0..(n - 1) \cup {n}
      BY <1>0, <1>1, <1>4 DEF SlotsInv, LoopsInv, H!S
    <2>2. \A k \in H!S : IF k \in {0, 2, 4, 6} /\ k >= n + 1
                         THEN HeldBy(k, 0..(n - 1) \cup {n})' ELSE Has(k)'
      <3> TAKE k \in H!S
      <3>1. CASE k = n
        <4>1. Has(n)'
          BY <1>1, <1>2, AllocSlot DEF SlotsInv
        <4>2. Has(k)'
          BY <3>1, <4>1
        <4>3. ~(k >= n + 1)
          BY <2>1, <3>1
        <4> QED
          BY <4>2, <4>3
      <3>2. CASE k # n /\ ~(k \in {0, 2, 4, 6} /\ k >= n)
        <4>1. Has(k) /\ ~(k \in {0, 2, 4, 6} /\ k >= n + 1)
          BY <1>0, <1>4, <2>1, <3>2 DEF SlotsInv, LoopsInv, H!S
        <4>2. Has(k)'
          BY <1>1, <3>2, <4>1, AllocSlot DEF SlotsInv
        <4> QED
          BY <4>1, <4>2
      <3>3. CASE k # n /\ k \in {0, 2, 4, 6} /\ k >= n
        <4>1. HeldBy(k, 0..(n - 1)) /\ k >= n + 1
          BY <1>0, <1>4, <2>1, <3>3 DEF SlotsInv, LoopsInv, H!S
        <4> DEFINE js == 0..(n - 1)
        <4>2. js \in SUBSET H!S /\ n \notin js /\ HeldBy(k, js)
          BY <2>1, <4>1
        <4> HIDE DEF js
        <4>3. HeldBy(k, js \cup {n})'
          BY <1>1, <3>3, <4>2, AllocSlot DEF SlotsInv
        <4> QED
          BY <3>3, <4>1, <4>3 DEF js
      <3> QED
        BY <3>1, <3>2, <3>3
    <2>3. CASE apc' = "take_again" /\ loop_i' = n + 1 /\ n + 1 < 4
      <3>1. 0..(loop_i' - 1) = 0..(n - 1) \cup {n}
        BY <2>1, <2>3
      <3>2. (\A k \in H!S : IF k \in {0, 2, 4, 6} /\ k >= loop_i
                            THEN HeldBy(k, 0..(loop_i - 1)) ELSE Has(k))'
        BY <2>2, <2>3, <3>1 DEF HeldBy, Has
      <3> QED
        BY <1>0, <1>2, <3>2, <2>3, <3>1 DEF SlotsInv, LoopsInv, H!GivenAtLast, Pooling
    <2>4. CASE apc' = "give_all" /\ loop_i' = 0 /\ n = 3
      <3>1. 0..(n - 1) \cup {n} = 0..3
        BY <2>4
      <3>2. (\A k \in H!S : IF k \in {4, 6} THEN HeldBy(k, loop_i..3) ELSE Has(k))'
        BY <2>2, <2>4, <3>1 DEF H!S, HeldBy, Has
      <3>3. H!GivenAtLast' = {}
        BY <2>4 DEF H!GivenAtLast
      <3> QED
        BY <1>0, <1>2, <2>4, <3>2, <3>3 DEF SlotsInv, LoopsInv, Pooling
    <2> QED
      BY <1>0, <1>4, <2>1, <2>3, <2>4 DEF H!Take, H!Loop
  <1> QED
    BY <1>3, <1>4 DEF H!Take

LEMMA GiveKeeps ==
    ASSUME SlotsInv, StageInv, H!Give
    PROVE  SlotsInv'
  <1>0. PICK n \in H!S : n = loop_i
    BY DEF H!Give, StageInv, Pooling
  <1>1. n \in H!S /\ H!pool_free(n)
    BY <1>0 DEF H!Give
  <1>2. SlotsCore
    BY DEF SlotsInv
  <1>3. CASE apc = "give_even"
    <2>1. n \in {0, 2, 4, 6} /\ Has(n) /\ repeated = {}
      BY <1>0, <1>1, <1>3 DEF SlotsInv, LoopsInv, H!GivenAtLast
    <2>2. ~(HeldBy(n, {}) /\ s[n] # H!NULL)
      BY <1>1, <1>2, <2>1 DEF SlotsCore, Has, HeldBy, H!S, H!NULL
    <2>3. SlotsCore' /\ s' = s /\ repeated' = {}
      BY <1>1, <1>2, <2>1, <2>2, FreeSlot
    <2>4. \A k \in H!S : IF k \in {0, 2, 4, 6} /\ k < n + 2 THEN HeldBy(k, {})' ELSE Has(k)'
      <3> TAKE k \in H!S
      <3>1. CASE k = n
        BY <1>1, <1>2, <2>1, <3>1, FreeSlot
      <3>2. CASE k # n /\ k \in {0, 2, 4, 6} /\ k < n
        <4>1. HeldBy(k, {}) /\ {} \in SUBSET H!S /\ {} \ {n} = {}
          BY <1>0, <1>3, <3>2 DEF SlotsInv, LoopsInv
        <4>2. HeldBy(k, {} \ {n})'
          BY <1>1, <1>2, <2>1, <3>2, <4>1, FreeSlot
        <4> QED
          BY <2>1, <3>2, <4>1, <4>2 DEF HeldBy
      <3>3. CASE k # n /\ ~(k \in {0, 2, 4, 6} /\ k < n)
        <4>1. Has(k) /\ ~(k \in {0, 2, 4, 6} /\ k < n + 2)
          BY <1>0, <1>3, <2>1, <3>3 DEF SlotsInv, LoopsInv
        <4> QED
          BY <1>1, <1>2, <2>1, <3>3, <4>1, FreeSlot
      <3> QED
        BY <3>1, <3>2, <3>3
    <2>5. CASE apc' = "give_even" /\ loop_i' = n + 2 /\ n + 2 < 8
      BY <1>0, <2>1, <2>3, <2>4, <2>5 DEF SlotsInv, LoopsInv, H!GivenAtLast, Pooling
    <2>6. CASE apc' = "take_again" /\ loop_i' = 0 /\ n = 6
      <3>1. (\A k \in H!S : IF k \in {0, 2, 4, 6} /\ k >= loop_i
                            THEN HeldBy(k, 0..(loop_i - 1)) ELSE Has(k))'
        BY <2>4, <2>6 DEF H!S, HeldBy, Has
      <3>2. H!GivenAtLast' = {}
        BY <2>6 DEF H!GivenAtLast
      <3> QED
        BY <1>0, <2>3, <2>6, <3>1, <3>2 DEF SlotsInv, LoopsInv, Pooling
    <2> QED
      BY <1>0, <1>3, <2>1, <2>5, <2>6 DEF H!Give, H!Loop
  <1>4. CASE apc = "give_all"
    <2>1. IF n \in {4, 6} THEN HeldBy(n, {}) ELSE Has(n)
      <3>1. IF n \in {4, 6} THEN HeldBy(n, n..3) ELSE Has(n)
        BY <1>0, <1>1, <1>4 DEF SlotsInv, LoopsInv, H!S
      <3>2. n \in {4, 6} => n..3 = {}
        OBVIOUS
      <3> QED
        BY <3>1, <3>2
    <2>2. SlotsCore' /\ s' = s
      BY <1>1, <1>2, <2>1, FreeSlot
    <2>3. repeated' = {k \in {4, 6} : k <= n /\ s[k] # H!NULL}
      <3>1. repeated = {k \in {4, 6} : k < n /\ s[k] # H!NULL}
        BY <1>0, <1>1, <1>4 DEF SlotsInv, LoopsInv, H!GivenAtLast, H!S
      <3>2. CASE n \in {4, 6}
        <4>1. repeated' = IF s[n] # H!NULL THEN repeated \cup {n} ELSE repeated
          BY <1>1, <1>2, <2>1, <3>2, FreeSlot
        <4> QED
          BY <3>1, <3>2, <4>1
      <3>3. CASE n \notin {4, 6}
        <4>1. ~(HeldBy(n, {}) /\ s[n] # H!NULL)
          BY <1>1, <1>2, <2>1, <3>3 DEF SlotsCore, Has, HeldBy, H!S, H!NULL
        <4>2. repeated' = repeated
          BY <1>1, <1>2, <2>1, <3>3, <4>1, FreeSlot
        <4>3. \A k \in {4, 6} : k <= n <=> k < n
          BY <1>1, <3>3 DEF H!S
        <4> QED
          BY <3>1, <4>2, <4>3
      <3> QED
        BY <3>2, <3>3
    <2>4. \A k \in H!S : k >= n + 1 =>
             IF k \in {4, 6} THEN HeldBy(k, (n..3) \ {n})' ELSE Has(k)'
      <3> SUFFICES ASSUME NEW k \in H!S, k >= n + 1
                   PROVE  IF k \in {4, 6} THEN HeldBy(k, (n..3) \ {n})' ELSE Has(k)'
        OBVIOUS
      <3>1. k # n /\ k >= n /\ n..3 \in SUBSET H!S
        BY <1>1 DEF H!S
      <3>2. IF k \in {4, 6} THEN HeldBy(k, n..3) ELSE Has(k)
        BY <1>0, <1>4, <3>1 DEF SlotsInv, LoopsInv
      <3>3. CASE k \in {4, 6}
        <4> DEFINE js == n..3
        <4>1. HeldBy(k, js) /\ js \in SUBSET H!S /\ k \in H!S \ {n}
          BY <3>1, <3>2, <3>3
        <4> HIDE DEF js
        <4>2. HeldBy(k, js \ {n})'
          BY <1>1, <1>2, <2>1, <4>1, FreeSlot
        <4> QED
          BY <3>3, <4>2 DEF js
      <3>4. CASE k \notin {4, 6}
        BY <1>1, <1>2, <2>1, <3>1, <3>2, <3>4, FreeSlot
      <3> QED
        BY <3>3, <3>4
    <2>5. CASE apc' = "give_all" /\ loop_i' = n + 1 /\ n + 1 < 8
      <3>1. (n..3) \ {n} = (n + 1)..3
        BY <1>1 DEF H!S
      <3>2. (\A k \in H!S : k >= loop_i =>
                  IF k \in {4, 6} THEN HeldBy(k, loop_i..3) ELSE Has(k))'
        BY <2>4, <2>5, <3>1 DEF HeldBy, Has
      <3>3. repeated' = {k \in {4, 6} \cap H!GivenAtLast' : s'[k] # H!NULL}
        BY <1>1, <2>2, <2>3, <2>5 DEF H!GivenAtLast, H!S
      <3> QED
        BY <1>0, <2>2, <2>5, <3>2, <3>3 DEF SlotsInv, LoopsInv, Pooling
    <2>6. CASE apc' = "drop_pool" /\ n = 7
      <3>1. repeated' = {k \in {4, 6} \cap H!GivenAtLast' : s'[k] # H!NULL}
        BY <2>2, <2>3, <2>6 DEF H!GivenAtLast, H!S
      <3> QED
        BY <1>0, <2>2, <2>6, <3>1 DEF SlotsInv, LoopsInv, Pooling
    <2> QED
      BY <1>0, <1>1, <1>4, <2>5, <2>6 DEF H!Give, H!Loop, H!S
  <1> QED
    BY <1>3, <1>4 DEF H!Give

LEMMA SlotsKeep ==
    ASSUME SlotsInv, StageInv, H!Next \/ UNCHANGED hVars
    PROVE  SlotsInv'
  <1>1. ASSUME UNCHANGED <<used, s, holder, shared, repeated>>,
               apc' \notin Pooling /\ (apc' = "returned" \/ apc \notin Pooling \cup {"returned"}),
               apc \notin {"take_all", "give_even", "take_again", "give_all"},
               apc' = "returned" \/ apc' \notin Pooling
        PROVE  SlotsInv'
    <2>1. SlotsCore'
      BY <1>1 DEF SlotsInv, SlotsCore
    <2>2. repeated' = {k \in {4, 6} \cap H!GivenAtLast' : s'[k] # H!NULL}
      <3>1. CASE apc \notin Pooling \cup {"returned"}
        <4>1. \A k \in {4, 6} : s[k] = H!NULL
          BY <3>1 DEF SlotsInv, LoopsInv, H!S
        <4> QED
          BY <1>1, <4>1 DEF SlotsInv, LoopsInv
      <3>2. CASE apc \in {"drop_pool", "returned"}
        BY <1>1, <3>2 DEF SlotsInv, LoopsInv, H!GivenAtLast
      <3> QED
        BY <1>1, <3>1, <3>2 DEF Pooling
    <2> QED
      BY <1>1, <2>1, <2>2 DEF SlotsInv, LoopsInv, Pooling
  <1>2. CASE H!AllocSmall \/ H!FreeEven \/ H!TryLarge \/ H!FreeLarge \/ H!Cleanup \/ H!DropPool
    BY <1>1, <1>2
    DEF H!AllocSmall, H!FreeEven, H!TryLarge, H!FreeLarge, H!Cleanup, H!DropPool, H!poolVs,
        H!Loop, Pooling
  <1>3. CASE H!MakePool
    <2>1. /\ apc = "pool" /\ apc' \in {"returned", "take_all"} /\ used' = {}
          /\ UNCHANGED <<s, holder, shared, repeated, loop_i>>
      BY <1>3 DEF H!MakePool
    <2>2. /\ \A k \in H!S : s[k] = H!NULL
          /\ \A slot \in H!Slots : holder[slot] = H!NULL
      BY <2>1 DEF SlotsInv, LoopsInv, Pooling
    <2>3. SlotsCore'
      BY <2>1, <2>2 DEF SlotsInv, SlotsCore
    <2>4. \A k \in H!S : Has(k)'
      BY <2>1, <2>2, OffsetsDiffer DEF Has
    <2>5. repeated' = {k \in {4, 6} \cap H!GivenAtLast' : s'[k] # H!NULL}
      BY <2>1, <2>2 DEF SlotsInv, LoopsInv, H!S
    <2> QED
      BY <2>1, <2>3, <2>4, <2>5 DEF SlotsInv, LoopsInv, Pooling
  <1>4. CASE H!Take
    BY <1>4, TakeKeeps
  <1>5. CASE H!Give
    BY <1>5, GiveKeeps
  <1>6. CASE H!Stay \/ UNCHANGED hVars
    BY <1>6 DEF H!Stay, H!vars, H!poolVs, hVars, SlotsInv, SlotsCore, LoopsInv, Has, HeldBy, H!GivenAtLast
  <1> QED
    BY <1>2, <1>3, <1>4, <1>5, <1>6 DEF H!Next

HeapInv == BlocksInv /\ StageInv /\ ResultInv /\ SlotsInv

LEMMA HeapStep == HeapInv /\ (H!Next \/ UNCHANGED hVars) => HeapInv'
  <1> SUFFICES ASSUME HeapInv, H!Next \/ UNCHANGED hVars PROVE HeapInv'
    OBVIOUS
  <1> USE DEF HeapInv
  <1>1. CASE H!Stay \/ UNCHANGED hVars
    <2>1. UNCHANGED hVars
      BY <1>1 DEF H!Stay, H!vars, H!heapVs, H!poolVs, hVars
    <2>2. Live' = Live
      BY <2>1 DEF Live, hVars
    <2> QED
      BY <2>1, <2>2, SlotsKeep DEF BlocksInv, StageInv, ResultInv, Run, hVars
  <1> QED
    BY <1>1, SlotsKeep, AllocSmallKeeps, FreeSmallKeeps, TryLargeKeeps, FreeLargeKeeps,
       MakePoolKeeps, UsePoolKeeps, DropPoolKeeps DEF H!Next

LEMMA HeapStart == BoardInit => HeapInv
  <1> SUFFICES ASSUME BoardInit PROVE HeapInv
    OBVIOUS
  <1> USE ParametersAssumption
      DEF BoardInit, H!Init, H!NULL, H!Free, H!Others, Small, CellsOf
  <1>1. Live = {}
    BY SMTT(60) DEF Live
  <1>2. others \subseteq CellsOf
    OBVIOUS
  <1>3. Owned(cell, Live, others)
    BY <1>1, <1>2 DEF Owned
  <1>4. BlocksInv
    BY <1>2, <1>3 DEF BlocksInv
  <1>5. StageInv /\ ResultInv
    BY DEF StageInv, ResultInv, Pooling
  <1>6. SlotsInv
    BY DEF SlotsInv, SlotsCore, LoopsInv, Pooling, H!GivenAtLast, H!S
  <1> QED
    BY <1>4, <1>5, <1>6 DEF HeapInv

\* No block is freed that is not allocated, no slot is taken from the pointer
\* that holds it, and the only slots given back that nobody holds are those of
\* s[4] and s[6], by the last loop: in a heap and a pool of any size, wherever
\* the heap places its blocks.
THEOREM OneOwnerEach == BoardSpec => []HoldersKeepTheirs
  <1>1. HeapInv /\ [BoardNext]_boardVars => HeapInv'
    BY OneExample, HeapStep
  <1>2. HeapInv => HoldersKeepTheirs
    BY DEF HeapInv, BlocksInv, SlotsInv, SlotsCore, LoopsInv, HoldersKeepTheirs,
           H!HoldersKeepTheirs
  <1> QED
    BY HeapStart, <1>1, <1>2, PTL DEF BoardSpec

LEMMA DmaStart == BoardInit => DmaInv
  BY DEF BoardInit, D!Init, DmaInv, WithDevice

\* Whichever allocation fails, the heap, the SPI bus and its device are left as
\* they were found; the large block fits in the end if it did at the start.
THEOREM AllGivenBack == BoardSpec => []NothingLeaked
  <1>1. HeapInv /\ DmaInv /\ [BoardNext]_boardVars => (HeapInv /\ DmaInv)'
    BY OneExample, HeapStep, DmaStep
  <1>2. HeapInv => H!HeapRestored
    <2> SUFFICES ASSUME HeapInv PROVE H!HeapRestored
      OBVIOUS
    <2>1. apc = "returned" => Live = {}
      BY DEF HeapInv, StageInv, Live, Pooling, Small, CellsOf, H!NULL
    <2>2. apc = "returned" => \A c \in CellsOf : cell[c] = H!Free <=> c \notin others
      BY <2>1 DEF HeapInv, BlocksInv, Owned, H!Free, H!Others
    <2>3. DOMAIN cell = CellsOf
      BY DEF HeapInv, BlocksInv, Owned
    <2> QED
      BY <2>2, <2>3 DEF HeapInv, ResultInv, Run, H!HeapRestored
  <1>3. DmaInv => D!AllReleased
    BY DEF DmaInv, D!AllReleased, WithDevice
  <1> QED
    BY HeapStart, DmaStart, <1>1, <1>2, <1>3, PTL DEF BoardSpec, NothingLeaked

-----------------------------------------------------------------------------
(* 02: the echo console *)

LEMMA ElementsOfSeq ==
    ASSUME NEW S, NEW seq \in Seq(S)
    PROVE  DOMAIN seq = 1..Len(seq) /\ \A k \in 1..Len(seq) : seq[k] \in S
  OBVIOUS

LEMMA SubSeqIs ==
    ASSUME NEW S, NEW seq \in Seq(S), NEW m \in Nat \ {0}, NEW n \in (m - 1)..Len(seq)
    PROVE  SubSeq(seq, m, n) = [i \in 1..(n - m + 1) |-> seq[m + i - 1]]
  OBVIOUS

Bytes == Chars \cup {"?", "NUL"}

\* What is printed of the buffer is the line, up to the first NUL in it.
LEMMA CStringIs ==
    ASSUME NEW b, idx \in Nat, b[idx] = "NUL",
           \A k \in 0..idx : b[k] \in Bytes
    PROVE  /\ U!CString(b) = U!BeforeNul([k \in 1..idx |-> b[k - 1]])
           /\ U!CString(b) \in Seq(Bytes)
  <1> DEFINE First(n) == b[n] = "NUL" /\ \A k \in 0..(n - 1) : b[k] # "NUL"
             N == CHOOSE n \in 0..idx : First(n)
             text == [k \in 1..idx |-> b[k - 1]]
             nuls == {k \in 1..Len(text) : text[k] = "NUL"}
  <1>1. \E n \in 0..idx : First(n)
    <2> DEFINE Z == {n \in 0..idx : b[n] = "NUL"}
    <2>1. Z \in SUBSET Nat /\ idx \in Z
      OBVIOUS
    <2> HIDE DEF Z
    <2>2. PICK n \in Z : \A k \in Z : n <= k
      BY <2>1, LeastElement
    <2>3. n \in 0..idx /\ b[n] = "NUL"
      BY <2>2 DEF Z
    <2>4. ASSUME NEW k \in 0..(n - 1) PROVE b[k] # "NUL"
      <3>1. k \in 0..idx /\ ~(n <= k)
        BY <2>3
      <3>2. k \notin Z
        BY <2>2, <3>1
      <3> QED
        BY <3>1, <3>2 DEF Z
    <2> QED
      BY <2>3, <2>4
  <1>2. N \in 0..idx /\ First(N)
    BY <1>1
  <1>3. U!CString(b) = [k \in 1..N |-> b[k - 1]]
    BY DEF U!CString
  <1> HIDE DEF N
  <1>4. U!CString(b) \in Seq(Bytes)
    <2>1. \A k \in 1..N : b[k - 1] \in Bytes
      BY <1>2
    <2>2. [k \in 1..N |-> b[k - 1]] \in [1..N -> Bytes]
      BY <2>1
    <2> QED
      BY <1>2, <1>3, <2>2
  <1>5. text \in Seq(Bytes) /\ Len(text) = idx /\ \A k \in 1..idx : text[k] = b[k - 1]
    <2>1. \A k \in 1..idx : b[k - 1] \in Bytes
      OBVIOUS
    <2> QED
      BY <2>1
  <1> HIDE DEF text
  <1>6. CASE N = idx
    <2>1. \A k \in 1..idx : k - 1 \in 0..(N - 1)
      BY <1>2, <1>6
    <2>2. nuls = {}
      BY <1>2, <1>5, <2>1
    <2>3. U!BeforeNul(text) = text
      BY <2>2 DEF U!BeforeNul
    <2> QED
      BY <1>3, <1>4, <1>6, <2>3 DEF text
  <1>7. CASE N < idx
    <2>1. N + 1 \in nuls
      BY <1>2, <1>5, <1>7
    <2>2. ASSUME NEW k \in nuls PROVE N + 1 <= k /\ k \in Nat
      <3>1. k \in 1..idx /\ b[k - 1] = "NUL"
        BY <1>5
      <3>2. k - 1 \notin 0..(N - 1)
        BY <1>2, <3>1
      <3> QED
        BY <1>2, <3>1, <3>2
    <2> HIDE DEF nuls
    <2>3. U!Min(nuls) \in nuls /\ \A k \in nuls : U!Min(nuls) <= k
      BY <2>1, <2>2 DEF U!Min
    <2>4. U!Min(nuls) = N + 1
      BY <1>2, <2>1, <2>2, <2>3
    <2>5. U!BeforeNul(text) = SubSeq(text, 1, N)
      <3>1. nuls # {}
        BY <2>1
      <3>2. U!BeforeNul(text) = SubSeq(text, 1, (N + 1) - 1)
        BY <2>4, <3>1 DEF U!BeforeNul, nuls
      <3>3. (N + 1) - 1 = N
        BY <1>2
      <3> QED
        BY <3>2, <3>3
    <2>6. SubSeq(text, 1, N) = [k \in 1..N |-> b[k - 1]]
      BY <1>2, <1>5, <1>7
    <2> QED
      BY <1>3, <1>4, <2>5, <2>6 DEF text
  <1> QED
    BY <1>2, <1>6, <1>7

\* The line being typed began at from: what the buffer holds is its beginning.
Begun(from) ==
    /\ from = 1 \/ typed[from - 1] \in U!LineEnds
    /\ \A k \in from..read : typed[k] \notin U!LineEnds
    /\ idx = IF read + 1 - from < BufSize THEN read + 1 - from ELSE BufSize - 1
    /\ \A n \in 0..(idx - 1) : buf[n] = typed[from + n]

EchoInv ==
    /\ typed \in Seq(Chars \cup U!LineEnds) /\ read \in 0..Len(typed)
    /\ buf \in [0..(BufSize - 1) -> Bytes] /\ idx \in 0..(BufSize - 1)
    /\ echoed \in Seq(Seq(Bytes))
    /\ \E from \in 1..(read + 1) : Begun(from)
    /\ IsFiniteSet(U!Lines) /\ U!LinesEchoed

\* What is typed later changes no line that has been read.
LEMMA LinesKept ==
    ASSUME typed \in Seq(Chars \cup U!LineEnds), read \in 0..Len(typed),
           NEW c \in Chars \cup U!LineEnds, typed' = Append(typed, c), UNCHANGED <<read, echoed>>
    PROVE  /\ U!Lines' = U!Lines
           /\ U!LinesEchoed => U!LinesEchoed'
  <1>1. /\ Len(typed) \in Nat /\ typed' \in Seq(Chars \cup U!LineEnds)
        /\ Len(typed') = Len(typed) + 1
        /\ \A k \in 1..Len(typed) : typed'[k] = typed[k]
    OBVIOUS
  <1>2. \A k \in 1..read : typed'[k] = typed[k]
    BY <1>1
  <1>3. U!LineEnds' = U!LineEnds
    BY DEF U!LineEnds
  <1>4. \A l \in (1..read) \X (1..read) : U!IsLine(l[1], l[2])' <=> U!IsLine(l[1], l[2])
    <2> TAKE l \in (1..read) \X (1..read)
    <2>1. /\ l[1] \in 1..read /\ l[2] \in 1..read
          /\ l[1] = 1 \/ l[1] - 1 \in 1..read
          /\ \A k \in l[1]..(l[2] - 1) : k \in 1..read
      OBVIOUS
    <2> QED
      BY <1>2, <2>1 DEF U!IsLine, U!LineEnds
  <1>5. U!Lines' = U!Lines
    BY <1>4 DEF U!Lines
  <1>6. ASSUME NEW l \in U!Lines PROVE SubSeq(typed', l[1], l[2] - 1) = SubSeq(typed, l[1], l[2] - 1)
    <2>1. l[1] \in 1..read /\ l[2] \in 1..read /\ l[1] < l[2]
      BY DEF U!Lines, U!IsLine
    <2> DEFINE a == l[1]
               n == l[2] - 1
    <2>2. a \in Nat \ {0} /\ n \in (a - 1)..Len(typed) /\ n \in (a - 1)..Len(typed') /\ n <= read
      BY <1>1, <2>1
    <2> HIDE DEF a, n
    <2>3. SubSeq(typed, a, n) = [i \in 1..(n - a + 1) |-> typed[a + i - 1]]
      BY <2>2, SubSeqIs
    <2>4. SubSeq(typed', a, n) = [i \in 1..(n - a + 1) |-> typed'[a + i - 1]]
      <3>1. PICK t : t = typed'
        OBVIOUS
      <3>2. t \in Seq(Chars \cup U!LineEnds) /\ n \in (a - 1)..Len(t)
        BY <1>1, <2>2, <3>1
      <3>3. SubSeq(t, a, n) = [i \in 1..(n - a + 1) |-> t[a + i - 1]]
        BY <2>2, <3>2, SubSeqIs
      <3> QED
        BY <3>1, <3>3
    <2>5. \A i \in 1..(n - a + 1) : typed'[a + i - 1] = typed[a + i - 1]
      <3>1. \A i \in 1..(n - a + 1) : a + i - 1 \in 1..read
        BY <2>2
      <3> QED
        BY <1>2, <3>1
    <2>6. SubSeq(typed', a, n) = SubSeq(typed, a, n)
      BY <2>3, <2>4, <2>5
    <2> QED
      BY <2>6 DEF a, n
  <1>7. ASSUME U!LinesEchoed PROVE U!LinesEchoed'
    <2>1. Len(echoed') = U!Cardinality(U!Lines')
      BY <1>5, <1>7 DEF U!LinesEchoed
    <2>2. ASSUME NEW l \in U!Lines'
          PROVE  echoed'[U!Cardinality({m \in U!Lines' : m[2] <= l[2]})]
                   = U!BeforeNul(U!Cut(SubSeq(typed', l[1], l[2] - 1)))
      BY <1>5, <1>6, <1>7 DEF U!LinesEchoed
    <2> QED
      BY <2>1, <2>2 DEF U!LinesEchoed, U!Cut, U!BeforeNul, U!Cardinality, U!Min
  <1> QED
    BY <1>5, <1>7

\* A line end is the end of the line being typed, if that is not empty.
LEMMA LinesGrow ==
    ASSUME typed \in Seq(Chars \cup U!LineEnds), read \in 0..Len(typed), read < Len(typed),
           NEW from \in 1..(read + 1), Begun(from), typed' = typed, read' = read + 1
    PROVE  U!Lines' = IF typed[read + 1] \in U!LineEnds /\ from < read + 1
                      THEN U!Lines \cup {<<from, read + 1>>} ELSE U!Lines
  <1>1. read \in Nat /\ Len(typed) \in Nat /\ U!LineEnds' = U!LineEnds
    BY DEF U!LineEnds
  <1>2. \A a, e : U!IsLine(a, e)' <=> U!IsLine(a, e)
    BY DEF U!IsLine, U!LineEnds
  <1>3. ASSUME NEW a \in 1..(read + 1)
        PROVE  U!IsLine(a, read + 1) <=>
                 typed[read + 1] \in U!LineEnds /\ from < read + 1 /\ a = from
    <2>1. CASE a = from
      <3>1. \A k \in from..((read + 1) - 1) : typed[k] \notin U!LineEnds
        BY <1>1 DEF Begun
      <3> QED
        BY <2>1, <3>1 DEF U!IsLine, Begun
    <2>2. CASE a < from
      <3>1. from # 1 /\ from - 1 \in a..((read + 1) - 1)
        BY <1>1, <2>2
      <3>2. typed[from - 1] \in U!LineEnds
        BY <3>1 DEF Begun
      <3> QED
        BY <2>2, <3>1, <3>2 DEF U!IsLine
    <2>3. CASE from < a
      <3>1. a # 1 /\ a - 1 \in from..read
        BY <1>1, <2>3
      <3>2. typed[a - 1] \notin U!LineEnds
        BY <3>1 DEF Begun
      <3> QED
        BY <2>3, <3>1, <3>2 DEF U!IsLine
    <2> QED
      BY <1>1, <2>1, <2>2, <2>3
  <1>4. U!Lines' = {l \in (1..(read + 1)) \X (1..(read + 1)) : U!IsLine(l[1], l[2])}
    BY <1>2 DEF U!Lines
  <1>5. \A a, e : U!IsLine(a, e) => a < e
    BY DEF U!IsLine
  <1>6. ASSUME NEW l \in (1..(read + 1)) \X (1..(read + 1)), U!IsLine(l[1], l[2]), l \notin U!Lines
        PROVE  l = <<from, read + 1>> /\ typed[read + 1] \in U!LineEnds /\ from < read + 1
    <2>1. l[1] \in 1..(read + 1) /\ l[2] \in 1..(read + 1) /\ l[1] < l[2] /\ l = <<l[1], l[2]>>
      BY <1>5, <1>6
    <2>2. l[2] = read + 1
      <3> SUFFICES ASSUME l[2] # read + 1 PROVE FALSE
        OBVIOUS
      <3>1. l[1] \in 1..read /\ l[2] \in 1..read
        BY <1>1, <2>1
      <3>2. l \in (1..read) \X (1..read)
        BY <2>1, <3>1
      <3> QED
        BY <1>6, <3>2 DEF U!Lines
    <2> QED
      BY <1>3, <1>6, <2>1, <2>2
  <1>7. U!Lines \subseteq U!Lines'
    BY <1>1, <1>4 DEF U!Lines
  <1>8. CASE typed[read + 1] \in U!LineEnds /\ from < read + 1
    <2>1. <<from, read + 1>> \in U!Lines'
      BY <1>1, <1>3, <1>4, <1>8
    <2> QED
      BY <1>4, <1>6, <1>7, <1>8, <2>1
  <1>9. CASE ~(typed[read + 1] \in U!LineEnds /\ from < read + 1)
    BY <1>4, <1>6, <1>7, <1>9
  <1> QED
    BY <1>8, <1>9

\* A line that is printed is the next of the lines.
LEMMA LinePrinted ==
    ASSUME IsFiniteSet(U!Lines), U!LinesEchoed, echoed \in Seq(Seq(Bytes)), read \in Nat,
           NEW from \in 1..read, typed' = typed, read' = read + 1,
           U!Lines' = U!Lines \cup {<<from, read + 1>>},
           NEW text \in Seq(Bytes), echoed' = Append(echoed, text),
           text = U!BeforeNul(U!Cut(SubSeq(typed, from, read)))
    PROVE  IsFiniteSet(U!Lines') /\ U!LinesEchoed'
  <1> DEFINE L == U!Lines
             new == <<from, read + 1>>
             Upto(Q, e) == {m \in Q : m[2] <= e}
             Due(l) == U!BeforeNul(U!Cut(SubSeq(typed, l[1], l[2] - 1)))
  <1>1. \A S : U!Cardinality(S) = Cardinality(S)
    BY DEF U!Cardinality, Cardinality
  <1>2. /\ Len(echoed) = Cardinality(L)
        /\ \A l \in L : echoed[Cardinality(Upto(L, l[2]))] = Due(l)
    BY <1>1 DEF U!LinesEchoed
  <1>3. \A l \in L : l[1] \in 1..read /\ l[2] \in 1..read
    BY DEF U!Lines
  <1>4. new \notin L /\ new[2] = read + 1 /\ new[1] = from
    BY <1>3
  <1> HIDE DEF L
  <1>5. /\ IsFiniteSet(L \cup {new}) /\ Cardinality(L \cup {new}) = Cardinality(L) + 1
        /\ Cardinality(L) \in Nat
    BY <1>4, FS_AddElement, FS_CardinalityType DEF L
  <1>6. /\ \A i \in 1..Len(echoed) : echoed'[i] = echoed[i]
        /\ echoed'[Len(echoed) + 1] = text /\ Len(echoed') = Len(echoed) + 1
    OBVIOUS
  <1>7. Upto(L \cup {new}, new[2]) = L \cup {new}
    BY <1>3, <1>4
  <1>8. ASSUME NEW l \in L PROVE Upto(L \cup {new}, l[2]) = Upto(L, l[2])
    BY <1>3, <1>4
  <1>9. ASSUME NEW l \in L PROVE Cardinality(Upto(L, l[2])) \in 1..Len(echoed)
    <2>1. IsFiniteSet(L)
      BY DEF L
    <2>2. Upto(L, l[2]) \subseteq L /\ l \in Upto(L, l[2])
      BY <1>3
    <2> HIDE DEF Upto
    <2>3. IsFiniteSet(Upto(L, l[2])) /\ Cardinality(Upto(L, l[2])) <= Cardinality(L)
      BY <2>1, <2>2, FS_Subset
    <2>4. Cardinality(Upto(L, l[2])) \in Nat /\ Cardinality(Upto(L, l[2])) # 0
      BY <2>2, <2>3, FS_CardinalityType, FS_EmptySet
    <2> QED
      BY <1>2, <1>5, <2>3, <2>4
  <1>10. Due(new) = text
    BY <1>4
  <1> HIDE DEF new, Upto, Due
  <1>11. ASSUME NEW l \in L \cup {new}
         PROVE  echoed'[Cardinality(Upto(L \cup {new}, l[2]))] = Due(l)
    <2>1. CASE l \in L
      BY <1>2, <1>6, <1>8, <1>9, <2>1
    <2>2. CASE l = new
      BY <1>2, <1>5, <1>6, <1>7, <1>10, <2>2
    <2> QED
      BY <2>1, <2>2
  <1>12. Len(echoed') = Cardinality(L \cup {new})
    BY <1>2, <1>5, <1>6
  <1>13. U!Lines' = L \cup {new}
    BY DEF L, new
  <1>14. Len(echoed') = U!Cardinality(U!Lines')
    BY <1>1, <1>12, <1>13
  <1>15. ASSUME NEW l \in U!Lines'
         PROVE  echoed'[U!Cardinality({m \in U!Lines' : m[2] <= l[2]})]
                  = U!BeforeNul(U!Cut(SubSeq(typed', l[1], l[2] - 1)))
    <2>1. echoed'[Cardinality(Upto(L \cup {new}, l[2]))] = Due(l)
      BY <1>11, <1>13
    <2> QED
      BY <1>1, <1>13, <2>1 DEF Upto, Due
  <1> QED
    BY <1>5, <1>13, <1>14, <1>15 DEF U!LinesEchoed, U!Cut, U!BeforeNul, U!Cardinality, U!Min

LEMMA EchoedSame ==
    ASSUME typed' = typed, echoed' = echoed, U!Lines' = U!Lines, U!LinesEchoed
    PROVE  U!LinesEchoed'
  <1>1. Len(echoed') = U!Cardinality(U!Lines')
    BY DEF U!LinesEchoed
  <1>2. ASSUME NEW l \in U!Lines'
        PROVE  echoed'[U!Cardinality({m \in U!Lines' : m[2] <= l[2]})]
                 = U!BeforeNul(U!Cut(SubSeq(typed', l[1], l[2] - 1)))
    BY DEF U!LinesEchoed
  <1> QED
    BY <1>1, <1>2 DEF U!LinesEchoed, U!Cut, U!BeforeNul, U!Cardinality, U!Min

LEMMA LineEnded ==
    ASSUME EchoInv, U!GetChar, U!EndLine(typed[read + 1])
    PROVE  EchoInv'
  <1> USE EchoAssumption
  <1>1. /\ read < Len(typed) /\ read' = read + 1 /\ typed' = typed
        /\ typed[read + 1] \in U!LineEnds
    BY DEF U!GetChar, U!EndLine
  <1>2. PICK from \in 1..(read + 1) : Begun(from)
    BY DEF EchoInv
  <1>3. /\ typed \in Seq(Chars \cup U!LineEnds) /\ read \in 0..Len(typed) /\ Len(typed) \in Nat
        /\ idx \in 0..(BufSize - 1) /\ read \in Nat
    BY DEF EchoInv
  <1>4. U!Lines' = IF from < read + 1 THEN U!Lines \cup {<<from, read + 1>>} ELSE U!Lines
    BY <1>1, <1>2, <1>3, LinesGrow
  <1>5. idx > 0 <=> from < read + 1
    BY <1>2, <1>3 DEF Begun
  <1>6. read' \in 0..Len(typed')
    BY <1>1, <1>3
  <1>7. U!LineEnds' = U!LineEnds
    BY DEF U!LineEnds
  <1>8. idx' = 0 => \E f \in 1..(read' + 1) : Begun(f)'
    <2> HAVE idx' = 0
    <2>1. PICK f : f = read + 2
      OBVIOUS
    <2>2. f \in 1..(read' + 1) /\ f - 1 = read + 1 /\ read' + 1 - f = 0 /\ f..read' = {}
      BY <1>1, <1>3, <2>1
    <2>3. typed'[f - 1] \in U!LineEnds'
      BY <1>1, <1>7, <2>2
    <2>4. /\ \A k \in f..read' : typed'[k] \notin U!LineEnds'
          /\ idx' = IF read' + 1 - f < BufSize THEN read' + 1 - f ELSE BufSize - 1
          /\ \A n \in 0..(idx' - 1) : buf'[n] = typed'[f + n]
      BY <2>2
    <2> QED
      BY <2>2, <2>3, <2>4 DEF Begun
  <1>9. CASE idx > 0
    <2>1. /\ buf' = [buf EXCEPT ![idx] = "NUL"] /\ echoed' = Append(echoed, U!CString(buf')) /\ idx' = 0
      BY <1>9 DEF U!EndLine
    <2>2. buf' \in [0..(BufSize - 1) -> Bytes] /\ buf'[idx] = "NUL"
          /\ \A k \in 0..(idx - 1) : buf'[k] = buf[k]
      BY <1>3, <2>1 DEF EchoInv, Bytes
    <2>3. /\ U!CString(buf') = U!BeforeNul([k \in 1..idx |-> buf'[k - 1]])
          /\ U!CString(buf') \in Seq(Bytes)
      <3>1. PICK b : b = buf'
        OBVIOUS
      <3>2. idx \in Nat /\ b[idx] = "NUL" /\ \A k \in 0..idx : b[k] \in Bytes
        BY <1>3, <2>2, <3>1
      <3>3. /\ U!CString(b) = U!BeforeNul([k \in 1..idx |-> b[k - 1]])
            /\ U!CString(b) \in Seq(Bytes)
        BY <3>2, CStringIs
      <3> QED
        BY <3>1, <3>3
    <2>4. [k \in 1..idx |-> buf'[k - 1]] = U!Cut(SubSeq(typed, from, read))
      <3> DEFINE len == read + 1 - from
                 text == SubSeq(typed, from, read)
      <3>1. text = [k \in 1..len |-> typed[from + k - 1]]
        BY <1>1, <1>2, <1>3, SubSeqIs
      <3>2. len \in Nat /\ \A k \in 1..len : from + k - 1 \in 1..Len(typed)
        BY <1>1, <1>2, <1>3
      <3>3. \A k \in 1..len : typed[from + k - 1] \in Chars \cup U!LineEnds
        <4>1. \A j \in 1..Len(typed) : typed[j] \in Chars \cup U!LineEnds
          BY <1>3, ElementsOfSeq
        <4> QED
          BY <3>2, <4>1
      <3>4. text \in Seq(Chars \cup U!LineEnds) /\ Len(text) = len
        BY <3>1, <3>2, <3>3
      <3>5. idx = (IF len < BufSize THEN len ELSE BufSize - 1) /\ idx \in 0..len
        BY <1>2, <1>3, <3>2 DEF Begun
      <3> HIDE DEF len, text
      <3>6. U!Cut(text) = SubSeq(text, 1, idx)
        BY <3>4, <3>5 DEF U!Cut
      <3>7. SubSeq(text, 1, idx) = [k \in 1..idx |-> text[k]]
        BY <1>3, <3>2, <3>4, <3>5
      <3>8. \A k \in 1..idx : text[k] = buf'[k - 1]
        <4> TAKE k \in 1..idx
        <4>1. text[k] = typed[from + k - 1]
          BY <1>3, <3>1, <3>2, <3>5
        <4>2. k - 1 \in 0..(idx - 1) /\ from + (k - 1) = from + k - 1
          BY <1>2, <1>3
        <4>3. buf[k - 1] = typed[from + (k - 1)]
          BY <1>2, <4>2 DEF Begun
        <4> QED
          BY <2>2, <4>1, <4>2, <4>3
      <3> QED
        BY <3>6, <3>7, <3>8 DEF text
    <2>5. IsFiniteSet(U!Lines') /\ U!LinesEchoed'
      <3>1. PICK text : text = U!CString(buf')
        OBVIOUS
      <3>2. /\ text \in Seq(Bytes) /\ echoed' = Append(echoed, text)
            /\ text = U!BeforeNul(U!Cut(SubSeq(typed, from, read)))
        BY <2>1, <2>3, <2>4, <3>1
      <3>3. from \in 1..read /\ U!Lines' = U!Lines \cup {<<from, read + 1>>}
        BY <1>2, <1>3, <1>4, <1>5, <1>9
      <3>4. IsFiniteSet(U!Lines) /\ U!LinesEchoed /\ echoed \in Seq(Seq(Bytes))
        BY DEF EchoInv
      <3> QED
        BY <1>1, <1>3, <3>2, <3>3, <3>4, LinePrinted
    <2>6. echoed' \in Seq(Seq(Bytes))
      BY <2>1, <2>3 DEF EchoInv
    <2>7. idx' \in 0..(BufSize - 1) /\ typed' \in Seq(Chars \cup U!LineEnds')
      BY <1>1, <1>3, <1>7, <2>1
    <2>8. Bytes' = Bytes
      BY DEF Bytes
    <2> QED
      BY <1>6, <1>8, <2>1, <2>2, <2>5, <2>6, <2>7, <2>8 DEF EchoInv
  <1>10. CASE idx = 0
    <2>1. UNCHANGED <<buf, idx, echoed>>
      BY <1>10 DEF U!EndLine
    <2>2. U!Lines' = U!Lines
      BY <1>4, <1>5, <1>10
    <2>3. U!LinesEchoed'
      BY <1>1, <2>1, <2>2, EchoedSame DEF EchoInv
    <2> QED
      BY <1>1, <1>6, <1>7, <1>8, <1>10, <2>1, <2>2, <2>3 DEF EchoInv, Bytes
  <1> QED
    BY <1>3, <1>9, <1>10

LEMMA CharKept ==
    ASSUME EchoInv, U!GetChar, U!KeepChar(typed[read + 1])
    PROVE  EchoInv'
  <1> USE EchoAssumption
  <1>1. /\ read < Len(typed) /\ read' = read + 1 /\ typed' = typed /\ echoed' = echoed
        /\ typed[read + 1] \in Chars /\ typed[read + 1] \notin U!LineEnds
    BY DEF U!GetChar, U!KeepChar
  <1>2. PICK from \in 1..(read + 1) : Begun(from)
    BY DEF EchoInv
  <1>3. /\ typed \in Seq(Chars \cup U!LineEnds) /\ read \in 0..Len(typed) /\ Len(typed) \in Nat
        /\ idx \in 0..(BufSize - 1) /\ read \in Nat
    BY DEF EchoInv
  <1>4. U!Lines' = U!Lines
    BY <1>1, <1>2, <1>3, LinesGrow
  <1>5. U!LinesEchoed'
    BY <1>1, <1>4, EchoedSame DEF EchoInv
  <1>6. /\ buf' \in [0..(BufSize - 1) -> Bytes] /\ idx' \in 0..(BufSize - 1)
        /\ Begun(from)'
    <2>1. \A k \in from..read' : typed'[k] \notin U!LineEnds'
      BY <1>1, <1>2, <1>3 DEF Begun, U!LineEnds
    <2>2. from = 1 \/ typed'[from - 1] \in U!LineEnds'
      BY <1>1, <1>2 DEF Begun, U!LineEnds
    <2>3. CASE U!HasRoom
      <3>1. buf' = [buf EXCEPT ![idx] = typed[read + 1]] /\ idx' = idx + 1 /\ idx < BufSize - 1
        BY <2>3 DEF U!KeepChar, U!HasRoom
      <3>2. idx = read + 1 - from
        BY <1>2, <1>3, <3>1 DEF Begun
      <3>3. \A n \in 0..(idx' - 1) : buf'[n] = typed'[from + n]
        <4> TAKE n \in 0..(idx' - 1)
        <4>1. DOMAIN buf = 0..(BufSize - 1)
          BY DEF EchoInv
        <4>2. CASE n = idx
          BY <1>1, <1>2, <1>3, <3>1, <3>2, <4>1, <4>2
        <4>3. CASE n \in 0..(idx - 1)
          <5>1. buf[n] = typed[from + n]
            BY <1>2, <4>3 DEF Begun
          <5> QED
            BY <1>1, <1>3, <3>1, <4>1, <4>3, <5>1
        <4> QED
          BY <1>3, <3>1, <4>2, <4>3
      <3>4. buf' \in [0..(BufSize - 1) -> Bytes]
        BY <1>1, <1>3, <3>1 DEF EchoInv, Bytes
      <3>5. /\ idx' \in 0..(BufSize - 1)
            /\ idx' = IF read' + 1 - from < BufSize THEN read' + 1 - from ELSE BufSize - 1
        BY <1>1, <1>2, <1>3, <3>1, <3>2
      <3> QED
        BY <2>1, <2>2, <3>3, <3>4, <3>5 DEF Begun
    <2>4. CASE ~U!HasRoom
      <3>1. UNCHANGED <<buf, idx>> /\ idx = BufSize - 1
        BY <1>3, <2>4 DEF U!KeepChar, U!HasRoom
      <3>2. idx' = IF read' + 1 - from < BufSize THEN read' + 1 - from ELSE BufSize - 1
        BY <1>1, <1>2, <1>3, <3>1 DEF Begun
      <3>3. \A n \in 0..(idx' - 1) : buf'[n] = typed'[from + n]
        BY <1>1, <1>2, <3>1 DEF Begun
      <3> QED
        BY <1>3, <2>1, <2>2, <3>1, <3>2, <3>3 DEF Begun, EchoInv
    <2> QED
      BY <2>3, <2>4
  <1>7. from \in 1..(read' + 1) /\ read' \in 0..Len(typed')
    BY <1>1, <1>3
  <1> QED
    BY <1>1, <1>4, <1>5, <1>6, <1>7 DEF EchoInv, Bytes, U!LineEnds

LEMMA EchoStep == EchoInv /\ (U!Next \/ UNCHANGED uVars) => EchoInv'
  <1> SUFFICES ASSUME EchoInv, U!Next \/ UNCHANGED uVars PROVE EchoInv'
    OBVIOUS
  <1>1. CASE U!Type
    <2>1. PICK c \in Chars \cup U!LineEnds : typed' = Append(typed, c)
      BY <1>1 DEF U!Type
    <2>2. UNCHANGED <<read, buf, idx, echoed>>
      BY <1>1 DEF U!Type, U!echoVs
    <2>3. typed \in Seq(Chars \cup U!LineEnds) /\ read \in 0..Len(typed)
      BY DEF EchoInv
    <2>4. U!Lines' = U!Lines /\ U!LinesEchoed'
      BY <2>1, <2>2, <2>3, LinesKept DEF EchoInv
    <2>5. /\ typed' \in Seq(Chars \cup U!LineEnds) /\ read' \in 0..Len(typed')
          /\ \A k \in 1..read : typed'[k] = typed[k]
      BY <2>1, <2>2, <2>3
    <2>6. PICK from \in 1..(read + 1) : Begun(from)
      BY DEF EchoInv
    <2>7. Begun(from)'
      <3>1. idx <= read + 1 - from /\ read \in Nat /\ idx \in Nat
        BY <2>3, <2>6, EchoAssumption DEF EchoInv, Begun
      <3>2. \A n \in 0..(idx - 1) : from + n \in 1..read
        BY <2>6, <3>1
      <3>3. \A n \in 0..(idx - 1) : buf'[n] = typed'[from + n]
        BY <2>2, <2>5, <2>6, <3>2 DEF Begun
      <3>4. \A k \in from..read : k \in 1..read /\ typed[k] \notin U!LineEnds
        BY <2>6, <3>1 DEF Begun
      <3>5. from = 1 \/ (from - 1 \in 1..read /\ typed[from - 1] \in U!LineEnds)
        BY <2>6, <3>1 DEF Begun
      <3> QED
        BY <2>2, <2>5, <2>6, <3>3, <3>4, <3>5 DEF Begun, U!LineEnds
    <2> QED
      BY <2>2, <2>4, <2>5, <2>6, <2>7 DEF EchoInv, Bytes, U!LineEnds
  <1>2. CASE U!GetChar
    <2>1. U!EndLine(typed[read + 1]) \/ U!KeepChar(typed[read + 1])
      BY <1>2 DEF U!GetChar
    <2> QED
      BY <1>2, <2>1, LineEnded, CharKept
  <1>3. CASE U!GetEof \/ U!EchoWakes \/ U!Beat \/ U!BeatDelayEnds \/ UNCHANGED uVars
    <2>1. UNCHANGED <<typed, read, buf, idx, echoed>>
      BY <1>3 DEF U!GetEof, U!EchoWakes, U!Beat, U!BeatDelayEnds, U!echoVs, uVars
    <2>2. U!Lines' = U!Lines
      BY <2>1 DEF U!Lines, U!IsLine, U!LineEnds
    <2>3. U!LinesEchoed'
      BY <2>1, <2>2, EchoedSame DEF EchoInv
    <2>4. PICK from \in 1..(read + 1) : Begun(from)
      BY DEF EchoInv
    <2>5. Begun(from)'
      BY <2>1, <2>4 DEF Begun, U!LineEnds
    <2> QED
      BY <2>1, <2>2, <2>3, <2>4, <2>5 DEF EchoInv, Bytes, U!LineEnds
  <1> QED
    BY <1>1, <1>2, <1>3 DEF U!Next

LEMMA EchoStart == BoardInit => EchoInv
  <1> SUFFICES ASSUME BoardInit PROVE EchoInv
    OBVIOUS
  <1>1. U!Init
    BY DEF BoardInit
  <1>2. U!Lines = {}
    BY <1>1 DEF U!Init, U!Lines
  <1>3. U!Cardinality(U!Lines) = 0 /\ IsFiniteSet(U!Lines)
    <2>1. \A S : U!Cardinality(S) = Cardinality(S)
      BY DEF U!Cardinality, Cardinality
    <2> QED
      BY <1>2, <2>1, FS_EmptySet
  <1>4. U!LinesEchoed
    BY <1>1, <1>2, <1>3 DEF U!Init, U!LinesEchoed
  <1>5. Begun(1) /\ 1 \in 1..(read + 1)
    BY <1>1, EchoAssumption DEF U!Init, Begun
  <1> QED
    BY <1>1, <1>3, <1>4, <1>5, EchoAssumption DEF U!Init, EchoInv, Bytes

\* What has been printed is what was typed, line by line, cut to the buffer:
\* for any buffer, any characters and any length of what is typed.
THEOREM EchoesEveryLine == BoardSpec => []LinesEchoed
  <1>1. EchoInv /\ [BoardNext]_boardVars => EchoInv'
    BY OneExample, EchoStep
  <1>2. EchoInv => LinesEchoed
    BY DEF EchoInv, LinesEchoed
  <1> QED
    BY EchoStart, <1>1, <1>2, PTL DEF BoardSpec

-----------------------------------------------------------------------------
(* 10: interrupt latency *)

\* The counter n cycles after it was at t
After(t, n) == IF t + n < CounterWrap THEN t + n ELSE t + n - CounterWrap

\* The wrapping difference of two readings is the time between them.
LEMMA AfterSteps ==
    ASSUME NEW t \in 0..(CounterWrap - 1), NEW n \in 0..MaxLate
    PROVE  /\ After(t, n) \in 0..(CounterWrap - 1)
           /\ (After(t, n) - t) % CounterWrap = n
           /\ (After(t, n) + 1) % CounterWrap = After(t, n + 1)
  BY ParametersAssumption DEF After

\* What SumFunction works out
Added(h, S) ==
    (CHOOSE iter : iter =
       [sub \in SUBSET S |->
          IF sub = {} THEN 0
          ELSE h[CHOOSE x \in sub : TRUE] + iter[sub \ {CHOOSE x \in sub : TRUE}]])[S]

\* What is counted by classes adds up to the whole.
LEMMA CountsAddUp ==
    ASSUME NEW All, IsFiniteSet(All), NEW S, IsFiniteSet(S), NEW c \in [All -> S],
           NEW h, h = [b \in S |-> Cardinality({k \in All : c[k] = b})]
    PROVE  Added(h, S) = Cardinality(All)
  <1> DEFINE In(Q) == {k \in All : c[k] \in Q}
             One(Q) == CHOOSE x \in Q : TRUE
             Sum(f) == [sub \in SUBSET S |->
                 IF sub = {} THEN 0
                 ELSE h[CHOOSE x \in sub : TRUE] + f[sub \ {CHOOSE x \in sub : TRUE}]]
             g == [sub \in SUBSET S |-> Cardinality(In(sub))]
             t == CHOOSE iter : iter = Sum(iter)
  <1>1. \A Q : IsFiniteSet(In(Q)) /\ Cardinality(In(Q)) \in Nat
    <2> TAKE Q
    <2>1. In(Q) \subseteq All
      OBVIOUS
    <2> HIDE DEF In
    <2> QED
      BY <2>1, FS_Subset, FS_CardinalityType
  <1>2. \A Q : Q # {} => One(Q) \in Q
    OBVIOUS
  <1>3. ASSUME NEW Q \in SUBSET S, Q # {}
        PROVE  Cardinality(In(Q)) = h[One(Q)] + Cardinality(In(Q \ {One(Q)}))
    <2> DEFINE x == One(Q)
               A == {k \in All : c[k] = x}
               B == In(Q \ {x})
    <2>1. x \in Q /\ x \in S
      BY <1>2, <1>3
    <2>2. In(Q) = A \cup B /\ A \cap B = {} /\ A = In({x})
      BY <2>1
    <2>3. h[x] = Cardinality(A)
      BY <2>1
    <2> HIDE DEF x, A, B, In
    <2>4. IsFiniteSet(A) /\ IsFiniteSet(B) /\ Cardinality(A) \in Nat /\ Cardinality(B) \in Nat
      BY <1>1, <2>2 DEF B
    <2>5. Cardinality(A \cup B) = Cardinality(A) + Cardinality(B) - Cardinality(A \cap B)
      BY <2>4, FS_Union
    <2>6. Cardinality(A \cap B) = 0
      BY <2>2, FS_EmptySet
    <2>7. Cardinality(In(Q)) = h[x] + Cardinality(B)
      BY <2>2, <2>3, <2>4, <2>5, <2>6
    <2> QED
      BY <2>7 DEF B, x
  <1>4. Cardinality(In({})) = 0
    <2>1. In({}) = {}
      OBVIOUS
    <2> QED
      BY <2>1, FS_EmptySet
  <1>5. g = Sum(g)
    <2>1. ASSUME NEW Q \in SUBSET S PROVE g[Q] = Sum(g)[Q]
      <3>1. CASE Q = {}
        <4>1. g[Q] = 0
          BY <1>4, <3>1
        <4>2. Sum(g)[Q] = 0
          BY <3>1
        <4> QED
          BY <4>1, <4>2
      <3>2. CASE Q # {}
        <4> HIDE DEF In
        <4>1. Q \ {One(Q)} \in SUBSET S
          OBVIOUS
        <4>2. g[Q] = h[One(Q)] + g[Q \ {One(Q)}]
          BY <1>3, <3>2, <4>1
        <4> HIDE DEF g
        <4>3. Sum(g)[Q] = h[One(Q)] + g[Q \ {One(Q)}]
          BY <3>2
        <4> QED
          BY <4>2, <4>3
      <3> QED
        BY <3>1, <3>2
    <2>2. /\ g = [sub \in SUBSET S |-> g[sub]]
          /\ Sum(g) = [sub \in SUBSET S |-> Sum(g)[sub]]
      OBVIOUS
    <2> HIDE DEF g, Sum
    <2>3. [sub \in SUBSET S |-> g[sub]] = [sub \in SUBSET S |-> Sum(g)[sub]]
      BY <2>1
    <2> QED
      BY <2>2, <2>3
  <1>6. t = Sum(t)
    <2> HIDE DEF g, Sum
    <2> QED
      BY <1>5
  <1> DEFINE Right == {n \in Nat : \A Q \in SUBSET S : Cardinality(Q) = n => t[Q] = g[Q]}
  <1>7. t[{}] = 0 /\ g[{}] = 0
    <2>1. g[{}] = 0
      BY <1>4
    <2> HIDE DEF t
    <2>2. Sum(t)[{}] = 0
      OBVIOUS
    <2> QED
      BY <1>6, <2>1, <2>2
  <1>8. ASSUME NEW Q \in SUBSET S, Q # {}
        PROVE  /\ t[Q] = h[One(Q)] + t[Q \ {One(Q)}]
               /\ g[Q] = h[One(Q)] + g[Q \ {One(Q)}]
    <2> HIDE DEF t, g
    <2>1. \A f : Sum(f)[Q] = h[One(Q)] + f[Q \ {One(Q)}]
      BY <1>8
    <2> HIDE DEF Sum
    <2> QED
      BY <1>5, <1>6, <2>1
  <1> HIDE DEF t, g
  <1>9. 0 \in Right
    <2>1. ASSUME NEW Q \in SUBSET S, Cardinality(Q) = 0 PROVE t[Q] = g[Q]
      <3>1. IsFiniteSet(Q)
        BY FS_Subset
      <3>2. Q = {}
        BY <2>1, <3>1, FS_EmptySet
      <3> QED
        BY <1>7, <3>2
    <2> QED
      BY <2>1
  <1>10. \A n \in Nat : n \in Right => n + 1 \in Right
    <2> SUFFICES ASSUME NEW n \in Nat, n \in Right,
                        NEW Q \in SUBSET S, Cardinality(Q) = n + 1
                 PROVE  t[Q] = g[Q]
      OBVIOUS
    <2>1. IsFiniteSet(Q)
      BY FS_Subset
    <2>2. Q # {}
      <3>1. Cardinality({}) = 0 /\ Cardinality(Q) # 0
        BY FS_EmptySet
      <3> QED
        BY <3>1
    <2>3. One(Q) \in Q /\ Q \ {One(Q)} \in SUBSET S
      BY <1>2, <2>2
    <2>4. Cardinality(Q \ {One(Q)}) = n
      <3>1. Cardinality(Q \ {One(Q)}) = Cardinality(Q) - 1
        BY <2>1, <2>3, FS_RemoveElement
      <3> QED
        BY <3>1
    <2>5. t[Q \ {One(Q)}] = g[Q \ {One(Q)}]
      BY <2>3, <2>4
    <2> HIDE DEF One, Right
    <2> QED
      BY <1>8, <2>2, <2>5
  <1>11. S \in SUBSET S /\ Cardinality(S) \in Right
    <2> HIDE DEF Right
    <2>1. Nat \subseteq Right
      BY <1>9, <1>10, SetInduction
    <2> QED
      BY <2>1, FS_CardinalityType
  <1>12. t[S] = g[S]
    BY <1>11
  <1>13. g[S] = Cardinality(All)
    <2>1. In(S) = All
      OBVIOUS
    <2> QED
      BY <2>1 DEF g
  <1> QED
    BY <1>12, <1>13 DEF t, Added

LatencyTypes ==
    /\ cycle \in 0..(CounterWrap - 1) /\ g_trigger_cycle \in 0..(CounterWrap - 1)
    /\ age \in 0..MaxLate
    /\ took \in [isr : 0..MaxLate, collected : Seq(0..MaxLate)]
    /\ pending \in BOOLEAN /\ g_sample_ready \in BOOLEAN

\* No flag of an earlier interrupt is left when the counter is stamped, and the
\* interrupt that sets it is this sample's, however late.
LatencyInv ==
    /\ LatencyTypes
    /\ pending => ipc \in {"poll", "check", "delay"} /\ ~g_sample_ready
    /\ ipc \in {"stamp", "drive"} => ~g_sample_ready
    /\ ipc = "drive" \/ pending => cycle = After(g_trigger_cycle, age)
    /\ g_sample_ready /\ ipc \in {"poll", "check"} =>
          g_isr_cycle = After(g_trigger_cycle, took.isr)
    /\ I!LatencyExact

LEMMA LatencyStep == LatencyInv /\ (I!Next \/ UNCHANGED iVars) => LatencyInv'
  <1> SUFFICES ASSUME LatencyInv, I!Next \/ UNCHANGED iVars PROVE LatencyInv'
    OBVIOUS
  <1> USE ParametersAssumption DEF LatencyInv, LatencyTypes, I!LatencyExact, I!shared
  <1>1. CASE I!Tick
    <2>1. age' \in 0..MaxLate /\ cycle' \in 0..(CounterWrap - 1)
      BY <1>1, SMTT(60) DEF I!Tick, I!Timing
    <2>2. I!Timing => cycle' = After(g_trigger_cycle, age + 1) /\ age' = age + 1
      BY <1>1, AfterSteps DEF I!Tick, I!Timing
    <2> QED
      BY <1>1, <2>1, <2>2 DEF I!Tick, I!Timing
  <1>2. CASE I!gpio_isr_handler
    BY <1>2 DEF I!gpio_isr_handler
  <1>3. CASE I!Clear
    BY <1>3 DEF I!Clear
  <1>4. CASE I!Stamp
    BY <1>4 DEF I!Stamp, After
  <1>5. CASE I!Drive
    BY <1>5 DEF I!Drive
  <1>6. CASE I!Poll
    BY <1>6 DEF I!Poll
  <1>7. CASE I!Check
    <2>1. CASE g_sample_ready /\ I!Latency > 0 /\ I!Latency < Sane
      <3>1. (g_isr_cycle - g_trigger_cycle) % CounterWrap = took.isr
        BY <1>7, <2>1, AfterSteps DEF I!Check
      <3>2. I!Latency = took.isr
        BY <2>1, <3>1, SMTT(60) DEF I!Latency
      <3>3. took' = [took EXCEPT !.collected = Append(@, took.isr)] /\ data' = Append(data, took.isr)
        <4> HIDE DEF LatencyInv
        <4> QED
          BY <1>7, <2>1, <3>2 DEF I!Check
      <3>4. took'.isr = took.isr /\ took'.collected = Append(took.collected, took.isr)
        BY <3>3
      <3>5. took' \in [isr : 0..MaxLate, collected : Seq(0..MaxLate)]
        <4>1. Append(took.collected, took.isr) \in Seq(0..MaxLate)
          OBVIOUS
        <4>2. took' = [isr |-> took.isr, collected |-> Append(took.collected, took.isr)]
          BY <3>3
        <4> HIDE DEF LatencyInv
        <4>3. took.isr \in 0..MaxLate
          BY DEF LatencyInv
        <4> QED
          BY <4>1, <4>2, <4>3
      <3> QED
        BY <1>7, <3>3, <3>4, <3>5 DEF I!Check
    <2>2. CASE UNCHANGED <<data, took>>
      BY <1>7, <2>2 DEF I!Check
    <2> QED
      BY <1>7, <2>1, <2>2 DEF I!Check
  <1>8. CASE I!DelayEnds
    BY <1>8 DEF I!DelayEnds
  <1>9. CASE I!PrintStats
    <2>1. /\ UNCHANGED <<cycle, g_trigger_cycle, age, took, pending, g_sample_ready,
                          g_isr_cycle, data>>
          /\ ipc = "print" /\ ipc' = "returned"
      BY <1>9 DEF I!PrintStats
    <2> QED
      BY <2>1
  <1>10. CASE I!Stay \/ UNCHANGED iVars
    <2>1. UNCHANGED <<cycle, g_trigger_cycle, age, took, pending, g_sample_ready,
                      g_isr_cycle, data, ipc>>
      BY <1>10 DEF I!Stay, I!vars, iVars
    <2> QED
      BY <2>1
  <1> QED
    BY <1>1, <1>2, <1>3, <1>4, <1>5, <1>6, <1>7, <1>8, <1>9, <1>10 DEF I!Next

\* The histogram is built of at least one sample, and stays as it is printed.
HistogramInv ==
    /\ ipc = "print" => Len(data) >= SAMPLES
    /\ I!HistogramComplete

\* min and max are found, and are bounds, when there is a sample.
LEMMA SampleBounds ==
    ASSUME data \in Seq(0..MaxLate), data # <<>>
    PROVE  /\ I!Min(I!Range(data)) \in Nat /\ I!Max(I!Range(data)) \in Nat
           /\ \A k \in DOMAIN data : data[k] \in I!Min(I!Range(data))..I!Max(I!Range(data))
  <1> DEFINE V == I!Range(data)
             Rest == {MaxLate - v : v \in V}
  <1>1. V \subseteq 0..MaxLate /\ V # {} /\ \A k \in DOMAIN data : data[k] \in V
    <2> HIDE DEF V, Rest
    <2>1. DOMAIN data = 1..Len(data) /\ \A k \in 1..Len(data) : data[k] \in 0..MaxLate
      BY ElementsOfSeq
    <2>2. Len(data) \in Nat \ {0}
      OBVIOUS
    <2>3. 1 \in DOMAIN data
      BY <2>1, <2>2
    <2> QED
      BY <2>1, <2>3, Zenon DEF I!Range, V
  <1>2. MaxLate \in Nat
    BY ParametersAssumption
  <1> HIDE DEF V
  <1>3. \E m \in V : \A v \in V : m <= v
    <2>1. V \in SUBSET Nat
      BY <1>1, <1>2
    <2> QED
      BY <1>1, <2>1, LeastElement
  <1>4. \E m \in V : \A v \in V : m >= v
    <2>1. Rest \in SUBSET Nat /\ Rest # {}
      BY <1>1, <1>2
    <2>2. PICK r \in Rest : \A q \in Rest : r <= q
      BY <2>1, LeastElement
    <2>3. PICK m \in V : r = MaxLate - m
      BY <2>2
    <2>4. ASSUME NEW v \in V PROVE m >= v
      <3>1. MaxLate - v \in Rest /\ v \in Nat /\ m \in Nat
        BY <1>1, <1>2
      <3>2. r <= MaxLate - v
        BY <2>2, <3>1
      <3> QED
        BY <1>2, <2>3, <3>1, <3>2
    <2> QED
      BY <2>4
  <1>5. I!Min(V) \in V /\ \A v \in V : I!Min(V) <= v
    BY <1>3 DEF I!Min
  <1>6. I!Max(V) \in V /\ \A v \in V : I!Max(V) >= v
    BY <1>4 DEF I!Max
  <1>7. \A v \in V : v \in I!Min(V)..I!Max(V) /\ v \in Nat
    BY <1>1, <1>2, <1>5, <1>6
  <1> QED
    BY <1>1, <1>5, <1>6, <1>7 DEF V

\* Between the least and the greatest, every value has its bucket.
LEMMA BucketRange ==
    ASSUME NEW lo \in Nat, NEW hi \in Nat, lo # hi, NEW v \in lo..hi
    PROVE  I!Bucket(v, lo, hi) \in 0..(Buckets - 1)
  <1>1. Buckets \in Nat \ {0}
    BY LatencyAssumption
  <1> DEFINE w == (hi - lo + Buckets - 1) \div Buckets
             n == hi - lo + Buckets - 1
             b == (v - lo) \div w
  <1>2. n \in Nat /\ n >= Buckets
    BY <1>1
  <1>3. w \in Nat /\ n = Buckets * w + (n % Buckets) /\ n % Buckets < Buckets
    <2>1. /\ n = Buckets * (n \div Buckets) + (n % Buckets)
          /\ n \div Buckets \in Nat /\ n % Buckets \in 0..(Buckets - 1)
      <3> HIDE DEF n
      <3> QED
        BY <1>1, <1>2, Quotient
    <2> QED
      BY <1>1, <2>1
  <1>4. w # 0
    <2> HIDE DEF w, n
    <2> QED
      BY <1>1, <1>2, <1>3
  <1>5. v - lo \in Nat
    OBVIOUS
  <1> HIDE DEF w, n
  <1>6. b \in Nat
    BY <1>3, <1>4, <1>5, Quotient
  <1>7. I!Bucket(v, lo, hi) = IF b >= Buckets THEN Buckets - 1 ELSE b
    BY DEF I!Bucket, w
  <1> HIDE DEF b
  <1> QED
    BY <1>1, <1>6, <1>7

LEMMA SameCount == \A S : I!Cardinality(S) = Cardinality(S)
  BY DEF I!Cardinality, Cardinality

LEMMA HistogramSums ==
    ASSUME data \in Seq(0..MaxLate), data # <<>>, I!PrintStats, histogram' # <<>>
    PROVE  I!SumFunction(histogram') = Len(data)
  <1> DEFINE lo == I!Min(I!Range(data))
             hi == I!Max(I!Range(data))
             B == 1..Buckets
             N == 1..Len(data)
             c == [k \in N |-> I!Bucket(data[k], lo, hi) + 1]
  <1>1. /\ lo \in Nat /\ hi \in Nat /\ \A k \in N : data[k] \in lo..hi
        /\ Len(data) \in Nat /\ N = DOMAIN data
    BY SampleBounds
  <1>2. /\ lo # hi
        /\ histogram' = [b \in B |-> I!Cardinality({k \in N : I!Bucket(data[k], lo, hi) = b - 1})]
    BY <1>1 DEF I!PrintStats
  <1> HIDE DEF lo, hi
  <1>3. \A k \in N : I!Bucket(data[k], lo, hi) \in 0..(Buckets - 1)
    BY <1>1, <1>2, BucketRange
  <1>4. Buckets \in Nat
    BY LatencyAssumption
  <1>5. c \in [N -> B]
    BY <1>3, <1>4
  <1>6. histogram' = [b \in B |-> Cardinality({k \in N : c[k] = b})]
    <2>1. ASSUME NEW b \in B
          PROVE  {k \in N : I!Bucket(data[k], lo, hi) = b - 1} = {k \in N : c[k] = b}
      BY <1>3, <1>4
    <2> HIDE DEF c, N, B
    <2> QED
      BY <1>2, <2>1, SameCount
  <1>7. IsFiniteSet(N) /\ Cardinality(N) = Len(data) /\ IsFiniteSet(B)
    BY <1>1, <1>4, FS_Interval
  <1> HIDE DEF c, N, B
  <1>8. DOMAIN histogram' = B
    BY <1>6
  <1>9. Added(histogram', B) = Cardinality(N)
    BY <1>5, <1>6, <1>7, CountsAddUp
  <1>10. I!SumFunction(histogram') = Added(histogram', B)
    BY <1>8
    DEF I!SumFunction, I!SumFunctionOnSet, I!FoldFunctionOnSet, I!MapThenFoldSet, Added
  <1> QED
    BY <1>7, <1>9, <1>10

LEMMA HistogramStep ==
    LatencyInv /\ HistogramInv /\ (I!Next \/ UNCHANGED iVars) => HistogramInv'
  <1> SUFFICES ASSUME LatencyInv, HistogramInv, I!Next \/ UNCHANGED iVars
               PROVE  HistogramInv'
    OBVIOUS
  <1>1. CASE I!PrintStats
    <2>1. data \in Seq(0..MaxLate) /\ data # <<>>
      BY <1>1, LatencyAssumption DEF I!PrintStats, LatencyInv, LatencyTypes, I!LatencyExact, HistogramInv
    <2>2. histogram' # <<>> => I!SumFunction(histogram') = Len(data)
      BY <1>1, <2>1, HistogramSums
    <2>3. data' = data /\ ipc' = "returned"
      BY <1>1 DEF I!PrintStats
    <2> QED
      BY <2>2, <2>3 DEF HistogramInv, I!HistogramComplete
  <1>2. CASE I!DelayEnds
    <2>1. data' = data /\ ipc' = IF Len(data) < SAMPLES THEN "clear" ELSE "print"
      BY <1>2 DEF I!DelayEnds
    <2>2. Len(data) \in Nat /\ SAMPLES \in Nat
      BY LatencyAssumption DEF LatencyInv, LatencyTypes, I!LatencyExact
    <2> QED
      BY <2>1, <2>2 DEF HistogramInv, I!HistogramComplete
  <1>3. CASE I!Clear \/ I!Stamp \/ I!Drive \/ I!Poll \/ I!Check
    <2>1. ipc' \in {"stamp", "drive", "poll", "check", "delay"}
      BY <1>3 DEF I!Clear, I!Stamp, I!Drive, I!Poll, I!Check
    <2> QED
      BY <2>1 DEF HistogramInv, I!HistogramComplete
  <1>4. CASE I!gpio_isr_handler \/ I!Tick \/ I!Stay \/ UNCHANGED iVars
    <2>1. UNCHANGED <<ipc, data, histogram>>
      BY <1>4 DEF I!gpio_isr_handler, I!Tick, I!Stay, I!vars, iVars
    <2> QED
      BY <2>1 DEF HistogramInv, I!HistogramComplete
  <1> QED
    BY <1>1, <1>2, <1>3, <1>4 DEF I!Next

LEMMA LatencyStart == BoardInit => LatencyInv /\ HistogramInv
  <1> SUFFICES ASSUME I!Init PROVE LatencyInv /\ HistogramInv
    BY DEF BoardInit
  <1>1. 0 \in 0..(CounterWrap - 1) /\ 0 \in 0..MaxLate
    BY ParametersAssumption
  <1>2. took \in [isr : 0..MaxLate, collected : Seq(0..MaxLate)]
    BY <1>1 DEF I!Init
  <1>3. HistogramInv
    BY DEF I!Init, HistogramInv, I!HistogramComplete
  <1> QED
    BY <1>1, <1>2, <1>3 DEF I!Init, LatencyInv, LatencyTypes, I!LatencyExact

\* Every latency collected is that of its own interrupt, for any width of the
\* counter, any number of samples and any delay that does not outlast a wrap;
\* and every one of them is counted in one bucket of the histogram, for any
\* number of buckets.
THEOREM LatenciesCounted == BoardSpec => []LatenciesTrue
  <1>1. LatencyInv /\ HistogramInv /\ [BoardNext]_boardVars => LatencyInv' /\ HistogramInv'
    BY OneExample, LatencyStep, HistogramStep
  <1>2. LatencyInv /\ HistogramInv => LatenciesTrue
    BY DEF LatencyInv, HistogramInv, LatenciesTrue
  <1> QED
    BY LatencyStart, <1>1, <1>2, PTL DEF BoardSpec

-----------------------------------------------------------------------------
(* 15: address translation *)

\* An address is a page and an offset within it.
LEMMA Paging ==
    ASSUME NEW x \in Nat
    PROVE  /\ x \div PageSize \in Nat /\ x % PageSize \in 0..(PageSize - 1)
           /\ x = (x \div PageSize) * PageSize + (x % PageSize)
  BY ParametersAssumption

LEMMA PagingBack ==
    ASSUME NEW q \in Nat, NEW r \in 0..(PageSize - 1)
    PROVE  /\ (q * PageSize + r) \div PageSize = q
           /\ (q * PageSize + r) % PageSize = r
  BY ParametersAssumption

\* Of n pages, each address is in one of the first n.
LEMMA PagesBelow ==
    ASSUME NEW n \in Nat, NEW q \in Nat, NEW r \in 0..(PageSize - 1)
    PROVE  q < n <=> q * PageSize + r < n * PageSize
  BY ParametersAssumption

LEMMA SameCardinality == \A S : M!Cardinality(S) = Cardinality(S)
  BY DEF M!Cardinality, Cardinality

LEMMA PagesOfFlash ==
    ASSUME NEW x \in 0..(FlashSize - 1)
    PROVE  /\ M!Cardinality(M!Pages) \in Nat \ {0}
           /\ x \div PageSize < M!Cardinality(M!Pages)
  <1> DEFINE n == FlashSize \div PageSize
  <1>1. n \in Nat /\ FlashSize = n * PageSize
    <2>1. FlashSize \in Nat /\ FlashSize % PageSize = 0
      BY ParametersAssumption DEF M!ParametersFit
    <2>2. PageSize \in Nat
      BY ParametersAssumption
    <2>3. n \in Nat /\ FlashSize = n * PageSize + 0
      BY <2>1, Paging
    <2> QED
      BY <2>2, <2>3
  <1> HIDE DEF n
  <1>2. x \div PageSize < n
    <2>1. x \in Nat /\ x < n * PageSize
      BY <1>1
    <2> QED
      BY <1>1, <2>1, Paging, PagesBelow
  <1>3. Cardinality(0..(n - 1)) = n
    BY <1>1, <1>2, FS_Interval, Paging
  <1> QED
    BY <1>1, <1>2, <1>3, Paging, SameCardinality DEF M!Pages, n

\* An entry of the table that leads to an offset of the flash
Leads(entry, offset) == entry.valid = TRUE /\ entry.page = offset \div PageSize

\* An address in a window is that of an offset of the flash, if it is as far
\* into its page and the entry of its page leads there.
Placed(vaddr, window, offset) ==
    \E i \in 0..(Entries - 1) :
        /\ vaddr = window + i * PageSize + (offset % PageSize)
        /\ Leads(table[i], offset)

LEMMA TranslatesPlaced ==
    ASSUME NEW window \in {IBUS, DBUS}, NEW offset \in Nat, NEW vaddr, Placed(vaddr, window, offset)
    PROVE  /\ vaddr \in Int /\ M!In(vaddr, window)
           /\ M!TranslateFrom(window, vaddr) = <<"ok", offset>>
  <1> PICK i \in 0..(Entries - 1) : vaddr = window + i * PageSize + (offset % PageSize)
                                   /\ Leads(table[i], offset)
    BY DEF Placed
  <1>1. {PageSize, Entries, IBUS, DBUS, Window} \subseteq Nat /\ Entries * PageSize <= Window
    BY ParametersAssumption DEF M!ParametersFit
  <1>2. i \in Nat /\ i < Entries /\ offset % PageSize \in 0..(PageSize - 1)
    BY <1>1, Paging
  <1>3. vaddr - window = i * PageSize + (offset % PageSize) /\ vaddr \in Int
    BY <1>1, <1>2
  <1>4. i * PageSize + (offset % PageSize) < Entries * PageSize
    BY <1>1, <1>2, PagesBelow
  <1>5. M!In(vaddr, window)
    BY <1>1, <1>2, <1>3, <1>4 DEF M!In
  <1>6. (vaddr - window) \div PageSize = i /\ (vaddr - window) % PageSize = offset % PageSize
    BY <1>2, <1>3, PagingBack
  <1>7. M!FlashOffset(table[i], vaddr - window) = offset
    BY <1>6, Paging DEF M!FlashOffset, Leads
  <1> QED
    BY <1>3, <1>5, <1>6, <1>7 DEF M!TranslateFrom, Leads

\* The windows do not overlap, and neither has an address of IRAM.
LEMMA OneWindow ==
    ASSUME NEW vaddr \in Int
    PROVE  /\ M!In(vaddr, DBUS) => ~M!In(vaddr, IBUS) /\ vaddr < IBUS
           /\ vaddr = IBUS - 1 => ~M!In(vaddr, IBUS) /\ ~M!In(vaddr, DBUS)
  BY ParametersAssumption DEF M!In, M!ParametersFit

LEMMA Translating ==
    ASSUME NEW offset \in Nat, NEW vaddr
    PROVE  /\ Placed(vaddr, IBUS, offset) =>
                 /\ vaddr >= IBUS
                 /\ M!vaddr_to_flash_offset(vaddr) = <<"ok", offset>>
                 /\ M!vaddr_to_flash(vaddr) = <<"ok", offset>>
           /\ Placed(vaddr, DBUS, offset) =>
                 M!vaddr_to_flash_offset(vaddr) = <<"ok", offset>>
           /\ vaddr = IBUS - 1 =>
                 /\ vaddr < IBUS
                 /\ M!vaddr_to_flash_offset(vaddr) = <<"-1", 0>>
                 /\ M!vaddr_to_flash(vaddr) = <<"-1", 0>>
  <1>1. CASE Placed(vaddr, IBUS, offset)
    <2>1. vaddr \in Int /\ IBUS \in Nat
      BY <1>1, TranslatesPlaced, ParametersAssumption
    <2>2. M!In(vaddr, IBUS) /\ M!TranslateFrom(IBUS, vaddr) = <<"ok", offset>>
      BY <1>1, TranslatesPlaced
    <2>3. vaddr >= IBUS /\ ~(vaddr < IBUS) /\ vaddr # IBUS - 1 /\ ~Placed(vaddr, DBUS, offset)
      BY <2>1, <2>2, TranslatesPlaced, OneWindow DEF M!In
    <2>4. ~M!In(vaddr, DBUS)
      BY <2>1, <2>2, OneWindow
    <2> QED
      BY <2>2, <2>3, <2>4 DEF M!vaddr_to_flash_offset, M!vaddr_to_flash
  <1>2. CASE Placed(vaddr, DBUS, offset)
    <2>1. vaddr \in Int /\ M!In(vaddr, DBUS) /\ M!TranslateFrom(DBUS, vaddr) = <<"ok", offset>>
      BY <1>2, TranslatesPlaced
    <2>2. ~M!In(vaddr, IBUS) /\ vaddr # IBUS - 1 /\ ~Placed(vaddr, IBUS, offset)
      BY <2>1, TranslatesPlaced, OneWindow
    <2> QED
      BY <2>1, <2>2 DEF M!vaddr_to_flash_offset
  <1>3. CASE vaddr = IBUS - 1
    <2>1. vaddr \in Int /\ vaddr < IBUS
      BY <1>3, ParametersAssumption
    <2>2. ~M!In(vaddr, IBUS) /\ ~M!In(vaddr, DBUS)
      BY <1>3, <2>1, OneWindow
    <2>3. ~Placed(vaddr, IBUS, offset) /\ ~Placed(vaddr, DBUS, offset)
      BY <2>2, TranslatesPlaced
    <2> QED
      BY <2>1, <2>2, <2>3 DEF M!vaddr_to_flash_offset, M!vaddr_to_flash
  <1> QED
    BY <1>1, <1>2, <1>3

\* The bootloader has mapped the code, or it is in IRAM; the partition is
\* mapped where mptr points to until it is unmapped.
MmuInv ==
    /\ codeAt \in 0..(FlashSize - 1)
    /\ DOMAIN table = 0..(Entries - 1)
    /\ part # <<>> => part[1].address \in Nat /\ part[1].size \in Nat \ {0}
    /\ mpc \in {"code", "dump"} => app_main = IBUS - 1 \/ Placed(app_main, IBUS, codeAt)
    /\ mpc \in {"mapped", "translated"} => part # <<>>
    /\ mpc = "mapped" => Placed(mptr, DBUS, part[1].address)
    /\ M!Translates

\* A partition touches a page at least.
LEMMA TouchesAPage ==
    ASSUME NEW p, p.address \in Nat, p.size \in Nat \ {0}
    PROVE  M!Cardinality(M!PagesOf(p)) \in Nat \ {0}
  <1> DEFINE end == p.address + p.size - 1
             p0   == p.address \div PageSize
             last == end \div PageSize
  <1>1. end \in Nat /\ p.address <= end /\ PageSize \in Nat \ {0}
    BY ParametersAssumption
  <1> HIDE DEF end
  <1>2. p0 \in Nat /\ last \in Nat
    BY <1>1, Paging
  <1>3. p0 * PageSize < (last + 1) * PageSize
    <2>1. p.address = p0 * PageSize + (p.address % PageSize) /\ p.address % PageSize \in 0..(PageSize - 1)
      BY Paging
    <2>2. end = last * PageSize + (end % PageSize) /\ end % PageSize \in 0..(PageSize - 1)
      BY <1>1, Paging
    <2> HIDE DEF p0, last
    <2>3. p0 * PageSize \in Int /\ last * PageSize \in Int
          /\ (last + 1) * PageSize = last * PageSize + PageSize
      BY <1>1, <1>2
    <2> QED
      BY <1>1, <2>1, <2>2, <2>3
  <1>4. M!PagesOf(p) = p0..last
    BY DEF M!PagesOf, end
  <1> HIDE DEF p0, last
  <1>5. p0 <= last
    BY <1>1, <1>2, <1>3, PagesBelow
  <1>6. M!Cardinality(p0..last) = last - p0 + 1
    BY <1>2, <1>5, FS_Interval, SameCardinality
  <1> QED
    BY <1>2, <1>4, <1>5, <1>6

LEMMA MapPlaces ==
    ASSUME MmuInv, M!MapPartition
    PROVE  part # <<>> /\ Placed(mptr, DBUS, part[1].address)' /\ DOMAIN table' = DOMAIN table
  <1>1. PICK first \in 0..(Entries - 1) :
           LET n  == M!Cardinality(M!PagesOf(part[1]))
               p0 == part[1].address \div PageSize
           IN  /\ M!Free(first, n)
               /\ table' = [i \in DOMAIN table |->
                              IF i \in first..(first + n - 1)
                              THEN [valid |-> TRUE, page |-> p0 + (i - first)] ELSE table[i]]
               /\ mptr' = DBUS + first * PageSize + (part[1].address % PageSize)
    BY DEF M!MapPartition
  <1>2. part # <<>> /\ part' = part /\ part[1].address \in Nat /\ part[1].size \in Nat \ {0}
    BY DEF M!MapPartition, M!placed, MmuInv
  <1> DEFINE n  == M!Cardinality(M!PagesOf(part[1]))
             p0 == part[1].address \div PageSize
  <1>3. n \in Nat \ {0} /\ p0 \in Nat
    BY <1>2, TouchesAPage, Paging
  <1>4. table' = [i \in DOMAIN table |->
                    IF i \in first..(first + n - 1)
                    THEN [valid |-> TRUE, page |-> p0 + (i - first)] ELSE table[i]]
        /\ mptr' = DBUS + first * PageSize + (part[1].address % PageSize)
    BY <1>1
  <1> HIDE DEF n
  <1>5. first \in Int /\ first \in DOMAIN table /\ first \in first..(first + n - 1)
    <2>1. Entries \in Nat /\ DOMAIN table = 0..(Entries - 1)
      BY ParametersAssumption DEF MmuInv
    <2> QED
      BY <1>3, <2>1
  <1>6. p0 + (first - first) = p0
    BY <1>3, <1>5
  <1> HIDE DEF p0
  <1>7. table'[first] = [valid |-> TRUE, page |-> p0]
    BY <1>4, <1>5, <1>6
  <1>8. DOMAIN table' = DOMAIN table
    BY <1>4
  <1>9. Leads(table[first], part[1].address)'
    BY <1>2, <1>7 DEF Leads, p0
  <1>10. mptr' = DBUS + first * PageSize + (part'[1].address % PageSize)
    BY <1>2, <1>4
  <1>11. Placed(mptr, DBUS, part[1].address)'
    BY <1>9, <1>10 DEF Placed
  <1> QED
    BY <1>2, <1>8, <1>11

LEMMA TranslateCodeKeeps == MmuInv /\ M!TranslateCode => MmuInv'
  <1> SUFFICES ASSUME MmuInv, M!TranslateCode PROVE MmuInv'
    OBVIOUS
  <1>1. /\ mpc = "code" /\ mpc' = "dump"
        /\ app_main' = app_main /\ codeAt' = codeAt /\ part' = part /\ table' = table
    BY DEF M!TranslateCode, M!Go, M!placed
  <1>2. codeAt \in Nat /\ (app_main = IBUS - 1 \/ Placed(app_main, IBUS, codeAt))
    BY <1>1, ParametersAssumption DEF MmuInv
  <1> DEFINE v == M!vaddr_to_flash_offset(app_main)
  <1>3. ret' = v[1] /\ paddr' = v[2]
    BY DEF M!TranslateCode
  <1>4. /\ v = (IF app_main < IBUS THEN <<"-1", 0>> ELSE <<"ok", codeAt>>)
        /\ M!vaddr_to_flash(app_main) = v
    <2>1. CASE app_main = IBUS - 1
      BY <1>2, <2>1, Translating
    <2>2. CASE Placed(app_main, IBUS, codeAt)
      <3>1. app_main >= IBUS /\ v = <<"ok", codeAt>> /\ M!vaddr_to_flash(app_main) = <<"ok", codeAt>>
        BY <1>2, <2>2, Translating
      <3>2. app_main \in Int /\ IBUS \in Int
        BY <1>2, <2>2, TranslatesPlaced, ParametersAssumption
      <3> QED
        BY <3>1, <3>2
    <2> QED
      BY <1>2, <2>1, <2>2
  <1>5. v \in {<<"-1", 0>>, <<"ok", codeAt>>}
    BY <1>4
  <1> HIDE DEF v
  <1>6. <<ret', paddr'>> = v
    BY <1>3, <1>5
  <1>7. M!vaddr_to_flash(app_main)' = M!vaddr_to_flash(app_main)
    BY <1>1 DEF M!vaddr_to_flash, M!TranslateFrom, M!FlashOffset
  <1>8. M!Translates'
    BY <1>1, <1>4, <1>6, <1>7 DEF M!Translates
  <1>9. Placed(app_main, IBUS, codeAt)' <=> Placed(app_main, IBUS, codeAt)
    BY <1>1 DEF Placed, Leads
  <1> QED
    BY <1>1, <1>2, <1>8, <1>9 DEF MmuInv

LEMMA TranslateMappedKeeps == MmuInv /\ M!TranslateMapped => MmuInv'
  <1> SUFFICES ASSUME MmuInv, M!TranslateMapped PROVE MmuInv'
    OBVIOUS
  <1>1. /\ mpc = "mapped" /\ mpc' = "translated"
        /\ codeAt' = codeAt /\ part' = part /\ table' = table
    BY DEF M!TranslateMapped, M!Go, M!placed
  <1>2. part # <<>> /\ part[1].address \in Nat /\ Placed(mptr, DBUS, part[1].address)
    BY <1>1 DEF MmuInv
  <1>3. ret' = "ok" /\ paddr' = part[1].address
    BY <1>2, Translating DEF M!TranslateMapped
  <1>4. M!Translates'
    BY <1>1, <1>3 DEF M!Translates
  <1> QED
    BY <1>1, <1>4 DEF MmuInv

LEMMA MmuStep == MmuInv /\ (M!Next \/ UNCHANGED mVars) => MmuInv'
  <1> SUFFICES ASSUME MmuInv, M!Next \/ UNCHANGED mVars PROVE MmuInv'
    OBVIOUS
  <1>1. CASE M!TranslateCode
    BY <1>1, TranslateCodeKeeps
  <1>2. CASE M!TranslateMapped
    BY <1>2, TranslateMappedKeeps
  <1>3. CASE M!MapPartition
    <2>1. part # <<>> /\ Placed(mptr, DBUS, part[1].address)' /\ DOMAIN table' = DOMAIN table
      BY <1>3, MapPlaces
    <2>2. mpc' = "mapped" /\ codeAt' = codeAt /\ part' = part
      BY <1>3 DEF M!MapPartition, M!Go, M!placed
    <2>3. M!Translates'
      BY <2>2 DEF M!Translates
    <2> QED
      BY <2>1, <2>2, <2>3 DEF MmuInv
  <1>4. CASE M!Dump \/ M!SkipPartition \/ M!Unmap
    <2>1. mpc' \in {"map", "returned"} /\ codeAt' = codeAt /\ part' = part
      BY <1>4 DEF M!Dump, M!SkipPartition, M!Unmap, M!Go, M!placed
    <2>2. DOMAIN table' = DOMAIN table
      BY <1>4 DEF M!Dump, M!SkipPartition, M!Unmap
    <2>3. M!Translates'
      BY <2>1 DEF M!Translates
    <2> QED
      BY <2>1, <2>2, <2>3 DEF MmuInv
  <1>5. CASE M!Stay \/ UNCHANGED mVars
    <2>1. UNCHANGED mVars
      BY <1>5 DEF M!Stay, M!vars, M!placed, mVars
    <2>2. /\ table' = table /\ app_main' = app_main /\ codeAt' = codeAt /\ part' = part
          /\ mptr' = mptr /\ mpc' = mpc /\ ret' = ret /\ paddr' = paddr
      BY <2>1 DEF mVars
    <2>3. M!Translates'
      BY <2>2 DEF MmuInv, M!Translates, M!vaddr_to_flash, M!TranslateFrom, M!FlashOffset
    <2>4. /\ Placed(app_main, IBUS, codeAt)' <=> Placed(app_main, IBUS, codeAt)
          /\ Placed(mptr, DBUS, part[1].address)' <=> Placed(mptr, DBUS, part[1].address)
      BY <2>2 DEF Placed, Leads
    <2> QED
      BY <2>2, <2>3, <2>4 DEF MmuInv
  <1> QED
    BY <1>1, <1>2, <1>3, <1>4, <1>5 DEF M!Next

\* The entry of the code's own page is right in whatever table the bootloader
\* leaves.
LEMMA MmuStart == M!MmuInit => MmuInv
  <1> SUFFICES ASSUME M!MmuInit PROVE MmuInv
    OBVIOUS
  <1>1. /\ codeAt \in 0..(FlashSize - 1) /\ mpc = "code"
        /\ {PageSize, Entries, FlashSize} \subseteq Nat /\ PageSize # 0
    BY ParametersAssumption DEF M!MmuInit
  <1>2. DOMAIN table = 0..(Entries - 1)
    BY DEF M!MmuInit
  <1>3. part # <<>> => part[1].address \in Nat /\ part[1].size \in Nat \ {0}
    BY <1>1 DEF M!MmuInit
  <1>4. app_main = IBUS - 1 \/ Placed(app_main, IBUS, codeAt)
    <2>1. CASE app_main = IBUS - 1
      BY <2>1
    <2>2. CASE app_main # IBUS - 1
      <3>1. PICK i \in 0..(Entries - 1), rest \in SUBSET (0..(Entries - 1)) :
               /\ app_main = IBUS + i * PageSize + (codeAt % PageSize)
               /\ i \in rest
               /\ table = [j \in 0..(Entries - 1) |->
                             IF j \in rest
                             THEN [valid |-> TRUE,
                                   page |-> ((codeAt \div PageSize) + (j - i)) % M!Cardinality(M!Pages)]
                             ELSE M!Invalid]
        BY <2>2 DEF M!MmuInit
      <3> DEFINE q == codeAt \div PageSize
                 n == M!Cardinality(M!Pages)
      <3>2. q \in Nat /\ n \in Nat \ {0} /\ q < n
        BY <1>1, Paging, PagesOfFlash
      <3> HIDE DEF n, q
      <3>3. (q + (i - i)) % n = q
        BY <3>2
      <3>4. table[i] = [valid |-> TRUE, page |-> q]
        BY <3>1, <3>3 DEF n, q
      <3> QED
        BY <3>1, <3>4 DEF Placed, Leads, q
    <2> QED
      BY <2>1, <2>2
  <1>5. M!Translates
    BY <1>1 DEF M!Translates
  <1> QED
    BY <1>1, <1>2, <1>3, <1>4, <1>5 DEF MmuInv

\* The offset in the flash that is worked out from the MMU's table is where
\* the code or the mapped partition is, and both examples find the same:
\* for every page size, table, layout of the two windows and place of the
\* code (vaddr_to_flash_offset of 15_flash_mmu).
THEOREM AddressesTranslated == BoardSpec => []Translates
  <1> DEFINE Inv == example = "15" => MmuInv
  <1>1. BoardInit => Inv
    BY MmuStart DEF BoardInit
  <1>2. Inv /\ [BoardNext]_boardVars => Inv'
    <2> SUFFICES ASSUME Inv, [BoardNext]_boardVars, example' = "15" PROVE MmuInv'
      OBVIOUS
    <2>1. example = "15" /\ (M!Next \/ UNCHANGED mVars)
      BY OneExample
    <2> QED
      BY <2>1, MmuStep
  <1>3. Inv => Translates
    BY DEF MmuInv, Translates
  <1> QED
    BY <1>1, <1>2, <1>3, PTL DEF BoardSpec

-----------------------------------------------------------------------------
(* The types of the nine examples, and what they rest on *)

CacheTyped ==
    /\ CacheInv /\ sector \in SectorSizes /\ partition \in {"none", "small", "large_enough"}
    /\ initially \in Contents /\ read_buf \subseteq C!Erased
    /\ writeDrops \in BOOLEAN /\ mapped \in BOOLEAN /\ msync \in {"missing", "fails", "works"}
    /\ cpc \in {"find", "writeA", "warm", "writeB", "read", "sync", "reread",
                "restore", "returned"}
    /\ said \in {"nothing", "stale", "already_invalidated", "unexpected", "fresh", "other"}

DmaTyped ==
    DmaInv /\ moved \in {"nothing", "failed", "match", "mismatch"}

PmpTyped ==
    /\ PmpInv
    /\ \A b \in 0..3 : pmpcfg1[b].A \in P!Modes /\ cfg1[b].A \in P!Modes
    /\ ok \in BOOLEAN \X BOOLEAN
    /\ ppc \in {"addr", "read cfg", "write cfg", "verify", "store", "disable",
                "write off", "returned"}
    /\ panicked \in BOOLEAN /\ g_protected \in {"0x00", "0xAB"}

HeapTyped == HeapInv /\ loop_i \in Small \cup H!S

EchoTyped == EchoInv /\ epc \in {"getchar", "delay"} /\ hpc \in {"beat", "delay"}

\* 10: without the jumper no interrupt is ever pending; a sample is collected
\* when there is room for it.
LatencyTyped ==
    /\ LatencyInv
    /\ jumper \in BOOLEAN /\ pinHigh \in BOOLEAN /\ g_isr_cycle \in 0..(CounterWrap - 1)
    /\ ipc \in {"clear", "stamp", "drive", "poll", "check", "delay", "print", "returned"}
    /\ polls \in 0..PollLimit /\ (ipc = "poll" => polls < PollLimit)
    /\ Len(data) <= SAMPLES
    /\ ipc \in {"clear", "stamp", "drive", "poll", "check"} => Len(data) < SAMPLES
    /\ pending \/ g_sample_ready \/ data # <<>> => jumper

\* 15: whatever is mapped is in the flash.
MmuTyped ==
    /\ MmuInv
    /\ \A k \in DOMAIN table : table[k].valid \in BOOLEAN /\ table[k].page \in M!Pages
    /\ mpc \in {"code", "dump", "map", "mapped", "translated", "returned"}
    /\ ret \in {"none", "ok", "-1", "-2"} /\ paddr \in 0..(FlashSize - 1)
    /\ part # <<>> => part[1].address + part[1].size <= FlashSize
    /\ dumped \in (SUBSET (0..(Entries - 1))) \X (SUBSET (0..(Entries - 1)))

LEMMA CacheTypes ==
    ASSUME CacheTyped, C!Next \/ UNCHANGED cVars
    PROVE  CacheTyped'
  <1> USE DEF CacheTyped, C!board, C!Go
  <1>1. CacheInv'
    BY CacheStep
  <1>2. read_buf' = read_buf \/ (C!Read /\ read_buf' \subseteq C!Erased)
    <2>1. CASE C!Read
      <3>1. flash \subseteq C!Erased /\ (line = <<>> \/ line[1] \subseteq C!Erased)
        BY DEF CacheInv
      <3> QED
        BY <2>1, <3>1 DEF C!Read
    <2>2. CASE ~C!Read
      BY <2>2 DEF C!Next, C!GiveUp, C!Map, C!WriteA, C!Warm, C!WriteB, C!ReadBefore,
         C!invalidate_cache_region, C!ReadAfter, C!Restore, C!Evict, C!Stay, C!vars, cVars
    <2> QED
      BY <2>1, <2>2
  <1>3. UNCHANGED <<sector, partition, writeDrops, msync, initially>>
    BY DEF C!Next, C!GiveUp, C!Map, C!WriteA, C!Warm, C!WriteB, C!ReadBefore,
       C!invalidate_cache_region, C!ReadAfter, C!Restore, C!Evict, C!Stay, C!vars, cVars
  <1>4. /\ cpc' \in {"find", "writeA", "warm", "writeB", "read", "sync", "reread",
                      "restore", "returned"}
        /\ said' \in {"nothing", "stale", "already_invalidated", "unexpected", "fresh", "other"}
        /\ mapped' \in BOOLEAN
    BY DEF C!Next, C!GiveUp, C!Map, C!WriteA, C!Warm, C!WriteB, C!ReadBefore,
       C!invalidate_cache_region, C!ReadAfter, C!Restore, C!Evict, C!Stay, C!vars, cVars
  <1> QED
    BY <1>1, <1>2, <1>3, <1>4

LEMMA DmaTypes ==
    ASSUME DmaTyped, D!Next \/ UNCHANGED dVars
    PROVE  DmaTyped'
  <1>1. moved' = moved \/ D!Transmit
    BY DEF D!Next, D!Allocate, D!Release, D!Synchronise, D!spi_bus_initialize,
       D!spi_bus_add_device, D!RemoveDevice, D!spi_bus_free, D!Stay, D!vars, dVars
  <1> QED
    BY <1>1, DmaStep DEF DmaTyped, D!Transmit

LEMMA PmpTypes ==
    ASSUME PmpTyped, P!Next \/ UNCHANGED pVars
    PROVE  PmpTyped'
  <1> USE DEF PmpTyped, P!Go
  <1>1. PmpInv' /\ DOMAIN pmpcfg1 = 0..3
    BY PmpStep DEF PmpInv
  <1>2. P!Off.A \in P!Modes /\ P!ReadOnly.A \in P!Modes
    BY DEF P!Off, P!ReadOnly, P!Modes
  <1>3. ASSUME NEW w \in {P!Off, P!ReadOnly}, cfg1 = pmpcfg1,
               pmpcfg1' = P!WriteCfg1([cfg1 EXCEPT ![2] = w])
        PROVE  \A b \in 0..3 : pmpcfg1'[b].A \in P!Modes
    <2>1. /\ \A b \in {0, 1, 3} : pmpcfg1'[b] = pmpcfg1[b]
          /\ pmpcfg1'[2] = IF pmpcfg1[2].L THEN pmpcfg1[2] ELSE w
      BY <1>1, <1>3, CfgWritten
    <2>2. w.A \in P!Modes
      BY <1>2
    <2>3. ASSUME NEW b \in 0..3 PROVE pmpcfg1'[b].A \in P!Modes
      <3>1. CASE b = 2
        BY <2>1, <2>2, <3>1
      <3>2. CASE b # 2
        <4>1. b \in {0, 1, 3}
          <5> HIDE DEF PmpTyped
          <5> QED
            BY <3>2
        <4> QED
          BY <2>1, <4>1
      <3> QED
        BY <3>1, <3>2
    <2> QED
      BY <2>3
  <1>4. CASE P!ProtectAddr
    BY <1>1, <1>4 DEF P!ProtectAddr
  <1>5. CASE P!ReadCfg1
    BY <1>1, <1>5 DEF P!ReadCfg1, P!pmpVs
  <1>6. CASE P!WriteCfg
    <2>1. cfg1 = pmpcfg1
      BY <1>6 DEF P!WriteCfg, PmpInv
    <2> QED
      BY <1>1, <1>3, <1>6, <2>1 DEF P!WriteCfg
  <1>7. CASE P!Verify
    BY <1>1, <1>7 DEF P!Verify, P!pmpVs
  <1>8. CASE P!Store
    BY <1>1, <1>8 DEF P!Store, P!pmpVs
  <1>9. CASE P!pmp_disable_entry6
    <2>1. cfg1 = pmpcfg1
      BY <1>9 DEF P!pmp_disable_entry6, PmpInv
    <2> QED
      BY <1>1, <1>3, <1>9, <2>1 DEF P!pmp_disable_entry6
  <1>10. CASE P!Stay \/ UNCHANGED pVars
    BY <1>1, <1>10 DEF P!Stay, P!vars, P!pmpVs, pVars
  <1> QED
    BY <1>4, <1>5, <1>6, <1>7, <1>8, <1>9, <1>10 DEF P!Next

LEMMA HeapTypes ==
    ASSUME HeapTyped, H!Next \/ UNCHANGED hVars
    PROVE  HeapTyped'
  <1> USE ParametersAssumption DEF HeapTyped, HeapInv, StageInv, Pooling, Small, H!S
  <1>1. HeapInv'
    BY HeapStep
  <1>2. loop_i' \in Small \cup H!S
    <2>1. CASE H!AllocSmall \/ H!FreeEven \/ H!Cleanup
      BY <2>1 DEF H!AllocSmall, H!FreeEven, H!Cleanup, H!Loop
    <2>2. CASE H!Take \/ H!Give
      BY <2>2 DEF H!Take, H!Give, H!Loop
    <2>3. CASE loop_i' = loop_i
      BY <2>3
    <2>4. \/ loop_i' = loop_i
          \/ H!AllocSmall \/ H!FreeEven \/ H!Cleanup \/ H!Take \/ H!Give
      BY DEF H!Next, H!TryLarge, H!FreeLarge, H!MakePool, H!DropPool, H!Stay, H!vars, hVars
    <2> QED
      BY <2>1, <2>2, <2>3, <2>4
  <1> QED
    BY <1>1, <1>2

LEMMA EchoTypes ==
    ASSUME EchoTyped, U!Next \/ UNCHANGED uVars
    PROVE  EchoTyped'
  <1>1. epc' \in {"getchar", "delay"} /\ hpc' \in {"beat", "delay"}
    BY DEF EchoTyped, U!Next, U!Type, U!GetChar, U!GetEof, U!EchoWakes, U!Beat, U!BeatDelayEnds,
       U!echoVs, uVars
  <1> QED
    BY <1>1, EchoStep DEF EchoTyped

LEMMA LatencyTypesKept ==
    ASSUME LatencyTyped, I!Next \/ UNCHANGED iVars
    PROVE  LatencyTyped'
  <1> USE ParametersAssumption, LatencyAssumption DEF LatencyTyped, I!shared
  <1>1. /\ LatencyInv'
        /\ cycle \in 0..(CounterWrap - 1) /\ pending \in BOOLEAN /\ g_sample_ready \in BOOLEAN
    BY LatencyStep DEF LatencyInv, LatencyTypes
  <1>2. Len(data) \in Nat
    <2>1. data \in Seq(0..MaxLate)
      BY DEF LatencyInv, LatencyTypes, I!LatencyExact
    <2> QED
      BY <2>1
  <1>3. CASE I!Tick
    BY <1>1, <1>3 DEF I!Tick
  <1>4. CASE I!gpio_isr_handler
    <2>1. pending /\ ipc \in {"poll", "check", "delay"}
      BY <1>4 DEF I!gpio_isr_handler, LatencyInv
    <2> QED
      BY <1>1, <1>4, <2>1 DEF I!gpio_isr_handler
  <1>5. CASE I!Clear
    BY <1>1, <1>5 DEF I!Clear
  <1>6. CASE I!Stamp
    BY <1>1, <1>6 DEF I!Stamp
  <1>7. CASE I!Drive
    <2>1. pending' => jumper
      BY <1>7, Zenon DEF I!Drive
    <2>2. /\ UNCHANGED <<jumper, g_isr_cycle, g_sample_ready, data>>
          /\ pinHigh' = FALSE /\ polls' = 0 /\ ipc = "drive" /\ ipc' = "poll"
      BY <1>7, Zenon DEF I!Drive
    <2>3. pending' \/ g_sample_ready' \/ data' # <<>> => jumper'
      BY <2>1, <2>2, Zenon
    <2>4. /\ polls' \in 0..PollLimit /\ polls' < PollLimit /\ pinHigh' \in BOOLEAN
          /\ Len(data') < SAMPLES /\ Len(data') <= SAMPLES
      <3>1. PollLimit \in Nat \ {0} /\ SAMPLES \in Nat
        BY LatencyAssumption
      <3>2. Len(data) < SAMPLES
        BY <2>2
      <3>3. data' = data /\ polls' = 0 /\ pinHigh' = FALSE
        BY <2>2
      <3>4. polls' \in 0..PollLimit /\ polls' < PollLimit
        BY <3>1, <3>3
      <3>5. Len(data') < SAMPLES /\ Len(data') <= SAMPLES
        BY <1>2, <3>1, <3>2, <3>3
      <3> QED
        BY <3>3, <3>4, <3>5
    <2>5. jumper' \in BOOLEAN /\ g_isr_cycle' \in 0..(CounterWrap - 1)
      BY <2>2
    <2> QED
      BY <1>1, <2>2, <2>3, <2>4, <2>5
  <1>8. CASE I!Poll
    <2>1. /\ UNCHANGED <<jumper, pinHigh, pending, g_isr_cycle, g_sample_ready, data>>
          /\ ipc = "poll" /\ ipc' \in {"poll", "check"}
      BY <1>8 DEF I!Poll
    <2>2. polls' = polls \/ polls' = polls + 1
      BY <1>8 DEF I!Poll
    <2>3. ipc' = "poll" => polls' < PollLimit
      BY <1>8 DEF I!Poll
    <2>4. Len(data') < SAMPLES /\ Len(data') <= SAMPLES
      BY <2>1
    <2>5. polls' \in 0..PollLimit
      <3>1. polls \in Nat /\ polls < PollLimit /\ PollLimit \in Nat
        BY <2>1
      <3> HIDE DEF LatencyTyped
      <3> QED
        BY <2>2, <3>1
    <2>6. pending' \/ g_sample_ready' \/ data' # <<>> => jumper'
      BY <2>1, Zenon
    <2>7. jumper' \in BOOLEAN /\ pinHigh' \in BOOLEAN /\ g_isr_cycle' \in 0..(CounterWrap - 1)
      BY <2>1
    <2> QED
      BY <1>1, <2>1, <2>3, <2>4, <2>5, <2>6, <2>7
  <1>9. CASE I!Check
    <2>1. data' = data \/ (g_sample_ready /\ Len(data') = Len(data) + 1)
      <3>1. data \in Seq(0..MaxLate)
        BY DEF LatencyInv, LatencyTypes, I!LatencyExact
      <3> HIDE DEF LatencyTyped
      <3>2. ASSUME NEW x, data' = Append(data, x) PROVE Len(data') = Len(data) + 1
        BY <3>1, <3>2
      <3> QED
        BY <1>9, <3>2 DEF I!Check
    <2>2. /\ UNCHANGED <<jumper, cycle, pinHigh, pending, g_isr_cycle, g_sample_ready, polls>>
          /\ ipc = "check" /\ ipc' = "delay"
      BY <1>9 DEF I!Check
    <2>3. Len(data') <= SAMPLES
      <3>1. Len(data) < SAMPLES /\ Len(data') \in {Len(data), Len(data) + 1}
        BY <2>1, <2>2
      <3>2. SAMPLES \in Nat
        BY LatencyAssumption
      <3> HIDE DEF LatencyTyped
      <3> QED
        BY <1>2, <3>1, <3>2
    <2>4. pending' \/ g_sample_ready' \/ data' # <<>> => jumper'
      BY <2>1, <2>2
    <2> QED
      BY <1>1, <2>2, <2>3, <2>4
  <1>10. CASE I!DelayEnds
    BY <1>1, <1>2, <1>10 DEF I!DelayEnds
  <1>11. CASE I!PrintStats
    <2>1. /\ UNCHANGED <<jumper, cycle, g_trigger_cycle, pending, g_sample_ready, pinHigh,
                          g_isr_cycle, polls, data>>
          /\ ipc' = "returned"
      BY <1>11 DEF I!PrintStats
    <2> QED
      BY <1>1, <2>1
  <1>12. CASE I!Stay \/ UNCHANGED iVars
    <2>1. UNCHANGED <<jumper, cycle, ipc, pending, g_sample_ready, pinHigh, g_isr_cycle,
                      polls, data>>
      BY <1>12 DEF I!Stay, I!vars, iVars
    <2> QED
      BY <1>1, <2>1
  <1> QED
    BY <1>3, <1>4, <1>5, <1>6, <1>7, <1>8, <1>9, <1>10, <1>11, <1>12 DEF I!Next

\* What is written to the table is of the flash, and so is what is found in it.
LEMMA MmuTypes ==
    ASSUME MmuTyped, M!Next \/ UNCHANGED mVars
    PROVE  MmuTyped'
  <1>1. MmuInv' /\ DOMAIN table = 0..(Entries - 1)
    BY MmuStep DEF MmuTyped, MmuInv
  <1>2. FlashSize \in Nat /\ PageSize \in Nat \ {0} /\ Entries \in Nat /\ codeAt \in 0..(FlashSize - 1)
    BY ParametersAssumption DEF MmuTyped, MmuInv
  <1>3. 0 \in 0..(FlashSize - 1)
    BY <1>2
  <1>4. 0 \in M!Pages
    <2>1. M!Pages = 0..(FlashSize \div PageSize - 1) /\ FlashSize \div PageSize \in Nat
      BY <1>2, Paging DEF M!Pages
    <2>2. M!Pages # {}
      BY <1>2, PagesOfFlash, FS_EmptySet, SameCardinality
    <2> QED
      BY <2>1, <2>2
  <1>5. CASE M!TranslateCode
    <2>1. mpc' = "dump" /\ UNCHANGED <<app_main, codeAt, part, table, mptr, dumped>>
      BY <1>5 DEF M!TranslateCode, M!Go, M!placed
    <2>2. <<ret', paddr'>> = IF app_main' < IBUS THEN <<"-1", 0>> ELSE <<"ok", codeAt'>>
      BY <1>1, <2>1 DEF MmuInv, M!Translates
    <2>3. ret' \in {"ok", "-1"} /\ paddr' \in {0, codeAt}
      BY <2>1, <2>2
    <2> QED
      BY <1>1, <1>2, <1>3, <2>1, <2>3 DEF MmuTyped
  <1>6. CASE M!Dump
    <2>1. mpc' = "map" /\ UNCHANGED <<app_main, codeAt, part, table, mptr, ret, paddr>>
      BY <1>6 DEF M!Dump, M!Go, M!placed
    <2>2. dumped' \in (SUBSET (0..(Entries - 1))) \X (SUBSET (0..(Entries - 1)))
      BY <1>6 DEF M!Dump, M!dump_mmu_range, M!dump_ibus_pages
    <2> QED
      BY <1>1, <2>1, <2>2 DEF MmuTyped
  <1>7. CASE M!MapPartition
    <2>1. mpc' = "mapped" /\ part # <<>> /\ UNCHANGED <<app_main, codeAt, part, ret, paddr, dumped>>
      BY <1>7 DEF M!MapPartition, M!Go, M!placed
    <2>2. part[1].address \in Nat /\ part[1].size \in Nat \ {0}
          /\ part[1].address + part[1].size <= FlashSize
      BY <2>1 DEF MmuTyped, MmuInv
    <2> DEFINE a    == part[1].address
               last == a + part[1].size - 1
               n    == M!Cardinality(M!PagesOf(part[1]))
               p0   == a \div PageSize
    <2>3. PICK first \in 0..(Entries - 1) :
             table' = [k \in DOMAIN table |->
                         IF k \in first..(first + n - 1)
                         THEN [valid |-> TRUE, page |-> p0 + (k - first)] ELSE table[k]]
      BY <1>7 DEF M!MapPartition
    <2>4. M!PagesOf(part[1]) = p0..(last \div PageSize)
      BY DEF M!PagesOf
    <2>5. a \in Nat /\ last \in 0..(FlashSize - 1) /\ a <= last
      BY <1>2, <2>2
    <2>6. n \in Nat \ {0}
      BY <2>2, TouchesAPage
    <2> HIDE DEF a, last
    <2>7. p0 \in Nat /\ last \div PageSize \in Nat
      BY <2>5, Paging
    <2>8. last \div PageSize <= FlashSize \div PageSize - 1 /\ FlashSize \div PageSize \in Nat
      <3>1. last = (last \div PageSize) * PageSize + (last % PageSize)
            /\ last % PageSize \in 0..(PageSize - 1)
        BY <2>5, Paging
      <3>2. FlashSize \div PageSize \in Nat /\ FlashSize = (FlashSize \div PageSize) * PageSize
        <4>1. FlashSize % PageSize = 0
          BY ParametersAssumption DEF M!ParametersFit
        <4>2. FlashSize \div PageSize \in Nat
              /\ FlashSize = (FlashSize \div PageSize) * PageSize + (FlashSize % PageSize)
          BY <1>2, Paging
        <4> QED
          BY <1>2, <4>1, <4>2
      <3> DEFINE f == FlashSize \div PageSize
      <3>3. f \in Nat /\ last < f * PageSize
        BY <1>2, <2>5, <3>2
      <3> HIDE DEF f
      <3>4. last \div PageSize < f
        BY <2>5, <2>7, <3>1, <3>3, PagesBelow
      <3> QED
        BY <2>7, <3>3, <3>4 DEF f
    <2>9. p0 + (n - 1) <= last \div PageSize
      <3>1. CASE p0 <= last \div PageSize
        <4>1. n = last \div PageSize - p0 + 1
          BY <2>4, <2>7, <3>1, FS_Interval, SameCardinality
        <4> HIDE DEF n, p0
        <4> QED
          BY <2>7, <4>1
      <3>2. CASE ~(p0 <= last \div PageSize)
        <4>1. p0..(last \div PageSize) = {}
          BY <2>7, <3>2
        <4>2. n = 0
          BY <2>4, <4>1, FS_EmptySet, SameCardinality
        <4> QED
          BY <2>6, <4>2
      <3> QED
        BY <3>1, <3>2
    <2> HIDE DEF n, p0
    <2>10. ASSUME NEW k \in DOMAIN table'
           PROVE  table'[k].valid \in BOOLEAN /\ table'[k].page \in M!Pages
      <3>1. k \in 0..(Entries - 1) /\ table[k].valid \in BOOLEAN /\ table[k].page \in M!Pages
        BY <1>1, <2>3 DEF MmuTyped
      <3>2. CASE k \in first..(first + n - 1)
        <4>1. table'[k] = [valid |-> TRUE, page |-> p0 + (k - first)]
          BY <1>1, <2>3, <3>1, <3>2
        <4>2. p0 + (k - first) \in 0..(FlashSize \div PageSize - 1)
          BY <1>2, <2>6, <2>7, <2>8, <2>9, <3>1, <3>2
        <4> QED
          BY <4>1, <4>2 DEF M!Pages
      <3>3. CASE k \notin first..(first + n - 1)
        BY <1>1, <2>3, <3>1, <3>3
      <3> QED
        BY <3>2, <3>3
    <2> QED
      BY <1>1, <2>1, <2>10 DEF MmuTyped
  <1>8. CASE M!SkipPartition
    BY <1>1, <1>8 DEF MmuTyped, M!SkipPartition, M!Go, M!placed
  <1>9. CASE M!TranslateMapped
    <2>1. mpc' = "translated" /\ UNCHANGED <<app_main, codeAt, part, table, mptr, dumped>>
      BY <1>9 DEF M!TranslateMapped, M!Go, M!placed
    <2>2. part # <<>> /\ ret' = "ok" /\ paddr' = part[1].address
      <3>1. <<ret', paddr'>> = <<"ok", part'[1].address>> /\ part' # <<>>
        BY <1>1, <2>1 DEF MmuInv, M!Translates
      <3> QED
        BY <2>1, <3>1
    <2>3. paddr' \in 0..(FlashSize - 1)
      BY <1>2, <2>2 DEF MmuTyped, MmuInv
    <2> QED
      BY <1>1, <2>1, <2>2, <2>3 DEF MmuTyped
  <1>10. CASE M!Unmap
    <2>1. mpc' = "returned" /\ UNCHANGED <<app_main, codeAt, part, ret, paddr, dumped>>
      BY <1>10 DEF M!Unmap, M!Go, M!placed
    <2>2. PICK freed : table' = [k \in DOMAIN table |-> IF k \in freed THEN M!Invalid ELSE table[k]]
      BY <1>10 DEF M!Unmap
    <2>3. M!Invalid.valid = FALSE /\ M!Invalid.page = 0
      BY DEF M!Invalid
    <2>4. ASSUME NEW k \in DOMAIN table'
          PROVE  table'[k].valid \in BOOLEAN /\ table'[k].page \in M!Pages
      BY <1>4, <2>2, <2>3 DEF MmuTyped
    <2> QED
      BY <1>1, <2>1, <2>4 DEF MmuTyped
  <1>11. CASE M!Stay \/ UNCHANGED mVars
    <2>1. UNCHANGED <<part, table, mpc, ret, paddr, dumped>>
      BY <1>11 DEF M!Stay, M!vars, M!placed, mVars
    <2> QED
      BY <1>1, <2>1 DEF MmuTyped
  <1> QED
    BY <1>5, <1>6, <1>7, <1>8, <1>9, <1>10, <1>11 DEF M!Next

BoardTyped ==
    /\ CountInv /\ TimerInv /\ CacheTyped /\ DmaTyped /\ PmpTyped /\ HeapTyped
    /\ EchoTyped /\ LatencyTyped
    /\ example = "15" => MmuTyped

LEMMA TypesAtStart == BoardInit => BoardTyped
  <1> SUFFICES ASSUME BoardInit PROVE BoardTyped
    OBVIOUS
  <1>1. /\ Init /\ U!Init /\ T!Init /\ D!Init /\ I!Init /\ C!Init /\ P!Init
        /\ example = "15" => M!MmuInit
    BY DEF BoardInit
  <1>2. CountInv
    BY <1>1, InitCounts
  <1>3. TimerInv
    BY TimerStart
  <1>4. CacheTyped
    BY <1>1, CacheStart DEF C!Init, CacheTyped
  <1>5. DmaTyped
    BY <1>1, DmaStart DEF D!Init, DmaTyped
  <1>6. PmpTyped
    <2>1. PmpInv
      BY PmpStart
    <2>2. \A b \in 0..3 : pmpcfg1[b].A \in P!Modes /\ cfg1[b].A \in P!Modes
      <3> TAKE b \in 0..3
      <3>1. pmpcfg1[b] = atBoot[b + 4].byte /\ cfg1[b] = P!Off
        BY <1>1 DEF P!Init
      <3>2. atBoot[b + 4] \in Boot
        <4>1. b + 4 \in 4..7
          OBVIOUS
        <4> QED
          BY <2>1, <4>1 DEF PmpInv
      <3>3. atBoot[b + 4].byte.A \in P!Modes
        BY <3>2, PmpAssumption
      <3>4. P!Off.A \in P!Modes
        BY DEF P!Off, P!Modes
      <3> QED
        BY <3>1, <3>3, <3>4
    <2> QED
      BY <1>1, <2>1, <2>2 DEF P!Init, PmpTyped
  <1>7. HeapTyped
    <2>1. loop_i = 0
      BY DEF BoardInit, H!Init
    <2> QED
      BY HeapStart, <2>1 DEF HeapTyped, H!S
  <1>8. EchoTyped
    BY <1>1, EchoStart DEF U!Init, EchoTyped
  <1>9. LatencyTyped
    <2>1. LatencyInv
      BY LatencyStart
    <2> QED
      BY <1>1, <2>1, ParametersAssumption, LatencyAssumption DEF I!Init, LatencyTyped
  <1>10. ASSUME M!MmuInit PROVE MmuTyped
    <2>1. MmuInv
      BY <1>10, MmuStart
    <2> DEFINE n == M!Cardinality(M!Pages)
    <2>2. codeAt \in 0..(FlashSize - 1) /\ FlashSize \in Nat
      BY <1>10, ParametersAssumption DEF M!MmuInit
    <2>3. n \in Nat \ {0} /\ codeAt \div PageSize \in Nat
      BY <2>2, PagesOfFlash, Paging
    <2>4. M!Pages = 0..(n - 1)
      <3>1. FlashSize \div PageSize \in Nat
        BY <2>2, Paging
      <3>2. CASE FlashSize \div PageSize = 0
        <4>1. M!Pages = {}
          BY <3>2 DEF M!Pages
        <4>2. n = 0
          BY <4>1, FS_EmptySet, SameCardinality
        <4> QED
          BY <2>3, <4>2
      <3>3. CASE FlashSize \div PageSize # 0
        <4> DEFINE f == FlashSize \div PageSize
        <4>1. Cardinality(0..(f - 1)) = f
          BY <3>1, <3>3, FS_Interval
        <4> QED
          BY <4>1, SameCardinality DEF M!Pages
      <3> QED
        BY <3>2, <3>3
    <2> HIDE DEF n
    <2>5. ASSUME NEW k \in DOMAIN table
          PROVE  table[k].valid \in BOOLEAN /\ table[k].page \in M!Pages
      <3>1. M!Invalid.valid = FALSE /\ M!Invalid.page = 0 /\ 0 \in M!Pages
        BY <2>3, <2>4 DEF M!Invalid
      <3>2. CASE table[k] = M!Invalid
        BY <3>1, <3>2
      <3>3. ASSUME NEW d \in Int,
                   table[k] = [valid |-> TRUE, page |-> ((codeAt \div PageSize) + d) % n]
            PROVE  table[k].valid \in BOOLEAN /\ table[k].page \in M!Pages
        <4>1. ((codeAt \div PageSize) + d) % n \in 0..(n - 1)
          BY <2>3
        <4> QED
          BY <2>4, <3>3, <4>1
      <3>4. table[k] = M!Invalid
            \/ \E d \in Int : table[k] = [valid |-> TRUE, page |-> ((codeAt \div PageSize) + d) % n]
        <4>1. CASE app_main = IBUS - 1 /\ table = [j \in 0..(Entries - 1) |-> M!Invalid]
          BY <4>1
        <4>2. CASE ~(app_main = IBUS - 1 /\ table = [j \in 0..(Entries - 1) |-> M!Invalid])
          <5>1. PICK i \in 0..(Entries - 1), rest \in SUBSET (0..(Entries - 1)) :
                   /\ app_main = IBUS + i * PageSize + (codeAt % PageSize)
                   /\ i \in rest
                   /\ table = [j \in 0..(Entries - 1) |->
                                 IF j \in rest
                                 THEN [valid |-> TRUE,
                                       page |-> ((codeAt \div PageSize) + (j - i)) % M!Cardinality(M!Pages)]
                                 ELSE M!Invalid]
            BY <1>10, <4>2 DEF M!MmuInit
          <5>2. k \in 0..(Entries - 1) /\ k - i \in Int
            BY <5>1
          <5> QED
            BY <5>1, <5>2 DEF n
        <4> QED
          BY <4>1, <4>2
      <3> QED
        BY <3>2, <3>3, <3>4
    <2>6. /\ mpc = "code" /\ ret = "none" /\ paddr = 0 /\ dumped = <<{}, {}>>
          /\ part # <<>> => part[1].address + part[1].size <= FlashSize
      BY <1>10 DEF M!MmuInit
    <2> QED
      BY <2>1, <2>2, <2>5, <2>6 DEF MmuTyped
  <1> QED
    BY <1>1, <1>2, <1>3, <1>4, <1>5, <1>6, <1>7, <1>8, <1>9, <1>10 DEF BoardTyped

LEMMA TypesStep == BoardTyped /\ [BoardNext]_boardVars => BoardTyped'
  <1> SUFFICES ASSUME BoardTyped, [BoardNext]_boardVars PROVE BoardTyped'
    OBVIOUS
  <1>1. CountInv' /\ TimerInv'
    BY OneExample, StepCounts, TimerStep DEF BoardTyped
  <1>2. CacheTyped' /\ DmaTyped' /\ PmpTyped'
    BY OneExample, CacheTypes, DmaTypes, PmpTypes DEF BoardTyped
  <1>3. HeapTyped' /\ EchoTyped' /\ LatencyTyped'
    BY OneExample, HeapTypes, EchoTypes, LatencyTypesKept DEF BoardTyped
  <1>4. example' = "15" => MmuTyped'
    BY OneExample, MmuTypes DEF BoardTyped
  <1> QED
    BY <1>1, <1>2, <1>3, <1>4 DEF BoardTyped

\* Every variable of the nine examples stays in its domain, for any capacities,
\* sizes, sample counts and page tables that fit together; and on the board,
\* too, the 64-bit counts of 01 are exact.
THEOREM BoardTypesKept == BoardSpec => [](TypesOK /\ CountsExact)
  <1>1. BoardTyped => TypesOK /\ CountsExact
    <2> SUFFICES ASSUME BoardTyped PROVE TypesOK /\ CountsExact
      OBVIOUS
    <2>1. TypeOK /\ CountsExact /\ T!TypeOK
      BY DEF BoardTyped, CountInv, TimerInv
    <2>2. U!TypeOK
      BY DEF BoardTyped, EchoTyped, EchoInv, U!TypeOK
    <2>3. I!TypeOK
      BY DEF BoardTyped, LatencyTyped, LatencyInv, LatencyTypes, I!TypeOK
    <2>4. C!TypeOK
      BY ParametersAssumption DEF BoardTyped, CacheTyped, CacheInv, C!TypeOK
    <2>5. P!TypeOK
      BY DEF BoardTyped, PmpTyped, PmpInv, P!TypeOK
    <2>6. H!TypeOK
      <3>1. SlotsCore /\ repeated \subseteq H!S
        BY DEF BoardTyped, HeapTyped, HeapInv, SlotsInv, LoopsInv, H!S
      <3>2. /\ used \subseteq H!Slots /\ DOMAIN s = H!S /\ shared \in BOOLEAN
            /\ holder \in [H!Slots -> H!S \cup {H!NULL, H!Lost}]
        BY <3>1 DEF SlotsCore
      <3>3. /\ DOMAIN cell = 0..(Cells - 1) /\ DOMAIN ptrs = 0..(SMALL_N - 1)
            /\ {large, g_pool} \subseteq {H!NULL} \cup DOMAIN cell
            /\ loop_i \in 0..(SMALL_N - 1) \cup H!S
            /\ got["large"] \in BOOLEAN /\ misuse \in BOOLEAN
        BY DEF BoardTyped, HeapTyped, HeapInv, BlocksInv, Owned, ResultInv, Small, CellsOf,
               H!NULL
      <3> QED
        BY <3>1, <3>2, <3>3 DEF H!TypeOK
    <2>7. D!TypeOK
      BY DEF BoardTyped, DmaTyped, DmaInv, D!TypeOK
    <2>8. example = "15" => M!TypeOK
      BY DEF BoardTyped, MmuTyped, MmuInv, M!TypeOK
    <2> QED
      BY <2>1, <2>2, <2>3, <2>4, <2>5, <2>6, <2>7, <2>8 DEF TypesOK
  <1> QED
    BY TypesAtStart, TypesStep, <1>1, PTL DEF BoardSpec

=============================================================================
