--------------------------- MODULE RaceMutexProof ---------------------------
(***************************************************************************)
(* What RaceMutex promises for every iteration count and every assignment  *)
(* of priorities, proved with TLAPS.                                       *)
(***************************************************************************)
EXTENDS RaceMutex, TLAPS

\* The initial state satisfies the invariant.
LEMMA InitMutexInv == Init => MutexInv
  <1> SUFFICES ASSUME Init PROVE MutexInv
    OBVIOUS
  <1>1. TypeOK
    BY RaceMutexAssumption DEF Init, TypeOK, Workers, Phases, Free, Main, None
  <1>2. MainProgress /\ WorkerProgress /\ DoneBound /\ HolderInv /\ MutexExact
    BY RaceMutexAssumption
       DEF Init, MainProgress, WorkerProgress, DoneBound, HolderInv,
           MutexExact, Phases, Workers, Free, Main, None, Finished
  <1> QED
    BY <1>1, <1>2 DEF Init, MutexInv

\* Every step preserves it: one case per action of the program.
LEMMA NextMutexInv == MutexInv /\ [Next]_vars => MutexInv'
  <1> SUFFICES ASSUME MutexInv, [Next]_vars PROVE MutexInv'
    OBVIOUS
  <1> USE RaceMutexAssumption DEF Workers, Phases, Free, Main, None, Expected,
          shared, mainVs, workVs, Stored, Finished, AfterIteration, LoopHead
  <1> USE DEF MutexInv, TypeOK, MainProgress, WorkerProgress, DoneBound,
          HolderInv, Counting, MutexExact
  <1>1. ASSUME NEW w \in Workers, Take(w) PROVE MutexInv'
    BY <1>1 DEF Take, WorkerRuns, WorkerReady
  <1>2. ASSUME NEW w \in Workers, Load(w) PROVE MutexInv'
    BY <1>2 DEF Load
  <1>3. ASSUME NEW w \in Workers, StoreUnprotected(w) PROVE MutexInv'
    BY <1>3 DEF StoreUnprotected
  <1>4. ASSUME NEW w \in Workers, StoreProtected(w) PROVE MutexInv'
    BY <1>4 DEF StoreProtected
  <1>5. ASSUME NEW w \in Workers, Give(w) PROVE MutexInv'
    BY <1>5 DEF Give
  <1>6. ASSUME NEW w \in Workers, DoneLoad(w) PROVE MutexInv'
    BY <1>6 DEF DoneLoad
  <1>7. ASSUME NEW w \in Workers, DoneStore(w) PROVE MutexInv'
    BY <1>7 DEF DoneStore
  <1>8. CASE ResetCounters
    BY <1>8 DEF ResetCounters
  <1>9. CASE CreateTask
    BY <1>9 DEF CreateTask
  <1>10. CASE PollDone
    BY <1>10 DEF PollDone
  <1>11. CASE ReadResult
    BY <1>11 DEF ReadResult
  <1>12. CASE DelayExpires
    BY <1>12 DEF DelayExpires
  <1>13. CASE BenchTake
    BY <1>13 DEF BenchTake, MainRuns, MainReady
  <1>14. CASE BenchGive
    BY <1>14 DEF BenchGive
  <1>15. CASE UNCHANGED vars
    BY <1>15 DEF vars
  <1> QED
    BY <1>1, <1>2, <1>3, <1>4, <1>5, <1>6, <1>7, <1>8, <1>9, <1>10, <1>11,
       <1>12, <1>13, <1>14, <1>15 DEF Next, MainTask, Worker, Idle

\* The counter of the mutex phase is exact, the two critical sections never
\* overlap, and main reads the counter only when both tasks are done, for
\* every number of iterations and every pair of priorities.
THEOREM MutexCorrect ==
    Spec => [](TypeOK /\ MutualExclusion /\ MutexExact /\ ReadAfterAllFinished)
  <1>1. MutexInv =>
            TypeOK /\ MutualExclusion /\ MutexExact /\ ReadAfterAllFinished
    <2> SUFFICES ASSUME MutexInv
                 PROVE  MutualExclusion /\ ReadAfterAllFinished
      BY DEF MutexInv
    <2>1. MutualExclusion
      BY DEF MutexInv, HolderInv, MutualExclusion
    <2>2. ReadAfterAllFinished
      <3> SUFFICES ASSUME mpc = "read", NEW w \in Workers
                   PROVE  i[w] = Iters /\ wpc[w] = "absent"
        BY DEF ReadAfterAllFinished
      <3>1. created = 2 /\ wpc[w] = "absent"
        BY DEF MutexInv, MainProgress
      <3> QED
        BY <3>1 DEF MutexInv, WorkerProgress, Workers
    <2> QED
      BY <2>1, <2>2
  <1> QED
    BY <1>1, InitMutexInv, NextMutexInv, PTL DEF Spec

-----------------------------------------------------------------------------

\* With main below the workers, as in the code, every task main creates runs
\* to its end before main takes another step.
LEMMA NextSerialInv ==
    ASSUME MutexInv, SerialInv, [Next]_vars
    PROVE  SerialInv'
  <1> SUFFICES ASSUME Preempting PROVE SerialInv'
    <2>1. Preempting' <=> Preempting
      <3>1. mainPrio' = mainPrio
        BY DEF Next, MainTask, Worker, vars, Take, Load, StoreUnprotected,
               StoreProtected, Give, DoneLoad, DoneStore, ResetCounters,
               CreateTask, PollDone, ReadResult, DelayExpires, BenchTake,
               BenchGive, Idle
      <3> QED
        BY <3>1 DEF Preempting
    <2> QED
      BY <2>1 DEF SerialInv, NeverOverlap, UnprotectedExact
  <1> USE RaceMutexAssumption DEF Workers, Phases, Free, Main, None, Expected,
          shared, mainVs, workVs, Stored, AfterIteration, LoopHead
  <1> USE DEF SerialInv, Preempting, NeverOverlap, Alive, Counting,
          UnprotectedExact, MutexInv, TypeOK, MainProgress, WorkerProgress, HolderInv
  <1>0. ASSUME MainRuns PROVE \A w \in Workers : wpc[w] = "absent"
    BY <1>0 DEF MainRuns, WorkerReady
  <1>1. ASSUME NEW w \in Workers, Take(w) PROVE SerialInv'
    BY <1>1 DEF Take
  <1>2. ASSUME NEW w \in Workers, Load(w) PROVE SerialInv'
    BY <1>2 DEF Load
  <1>3. ASSUME NEW w \in Workers, StoreUnprotected(w) PROVE SerialInv'
    BY <1>3 DEF StoreUnprotected
  <1>4. ASSUME NEW w \in Workers, StoreProtected(w) PROVE SerialInv'
    BY <1>4 DEF StoreProtected
  <1>5. ASSUME NEW w \in Workers, Give(w) PROVE SerialInv'
    BY <1>5 DEF Give
  <1>6. ASSUME NEW w \in Workers, DoneLoad(w) PROVE SerialInv'
    BY <1>6 DEF DoneLoad
  <1>7. ASSUME NEW w \in Workers, DoneStore(w) PROVE SerialInv'
    BY <1>7 DEF DoneStore
  <1>8. CASE ResetCounters
    BY <1>8, <1>0 DEF ResetCounters
  <1>9. CASE CreateTask
    BY <1>9, <1>0 DEF CreateTask
  <1>10. CASE PollDone
    BY <1>10 DEF PollDone
  <1>11. CASE ReadResult
    BY <1>11, <1>0 DEF ReadResult
  <1>12. CASE DelayExpires
    BY <1>12 DEF DelayExpires
  <1>13. CASE BenchTake
    BY <1>13 DEF BenchTake
  <1>14. CASE BenchGive
    BY <1>14 DEF BenchGive
  <1>15. CASE UNCHANGED vars
    BY <1>15 DEF vars
  <1> QED
    BY <1>1, <1>2, <1>3, <1>4, <1>5, <1>6, <1>7, <1>8, <1>9, <1>10, <1>11,
       <1>12, <1>13, <1>14, <1>15 DEF Next, MainTask, Worker, Idle

\* Hence at the code's priorities the two tasks never overlap and the phase
\* the example calls a race loses nothing, whatever ITERS_PER_TASK is.
THEOREM PrioritySerialises == Spec => [](NeverOverlap /\ UnprotectedExact)
  <1>1. Init => SerialInv
    BY DEF Init, SerialInv, NeverOverlap, Alive, Counting, UnprotectedExact,
           Workers, Phases
  <1>2. MutexInv /\ SerialInv /\ [Next]_vars => SerialInv'
    BY NextSerialInv
  <1>3. SerialInv => NeverOverlap /\ UnprotectedExact
    BY DEF SerialInv
  <1> QED
    BY <1>1, <1>2, <1>3, InitMutexInv, NextMutexInv, PTL DEF Spec
=============================================================================
