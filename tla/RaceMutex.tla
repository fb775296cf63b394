------------------------------ MODULE RaceMutex ------------------------------
(***************************************************************************)
(* examples/07_race_mutex: two worker tasks increment one shared counter,  *)
(* first without and then with a mutex, while app_main waits for them.     *)
(*                                                                         *)
(* "g_counter++" and "g_done_count++" are a load and a store that other    *)
(* tasks may separate.  The ESP32-C3 has one core: a task takes a step     *)
(* only when no ready task has a higher priority; tasks of one priority    *)
(* are time-sliced, so they interleave in any way.  The tick interrupt     *)
(* ends delays whatever task is running.                                   *)
(***************************************************************************)
EXTENDS RaceMutexParameters

Workers  == {1, 2}
Expected == Iters * 2
None     == -1
Free     == 0     \* the mutex is not held
Main     == 3     \* app_main, as a holder of the mutex

VARIABLES
    mainPrio,      \* the main task's priority
    g_counter,     \* static volatile uint32_t g_counter
    g_done_count,  \* static volatile int g_done_count
    holder,        \* who holds g_mutex: Free, a worker, or Main
    phase,         \* which task function run_phase was given
    mpc,           \* where app_main is
    created,       \* how many tasks the current run_phase has created
    rounds,        \* bench_critical_section's loop counter
    wpc,           \* where each worker is
    i,             \* each worker's loop counter
    reg,           \* the register each worker increments between lw and sw
    result         \* what run_phase read at the end of each phase

shared  == <<g_counter, g_done_count>>
mainVs  == <<phase, mpc, created, rounds, result>>
workVs  == <<wpc, i, reg>>
vars    == <<mainPrio, shared, holder, mainVs, workVs>>

Phases == {"unprotected", "mutex"}

\* Faulty: protected_task does not take the mutex.
FaultyLoopHead == "load"

\* Where a worker starts its loop body, and where it goes after i++.
LoopHead == IF phase = "mutex" THEN "take" ELSE "load"
AfterIteration(w) == IF i[w] + 1 < Iters THEN LoopHead ELSE "done_load"

-----------------------------------------------------------------------------
(* Scheduling *)

Alive(w) == wpc[w] # "absent"
WorkerReady(w) == Alive(w) /\ (wpc[w] = "take" => holder = Free)
MainReady ==
    /\ mpc \notin {"delay", "gap", "returned"}
    /\ mpc = "bench_take" => holder = Free

\* A ready task runs only if no ready task has a higher priority.
WorkerRuns(w) == WorkerReady(w) /\ (MainReady => mainPrio <= TaskPrio)
MainRuns ==
    MainReady /\ \A w \in Workers : WorkerReady(w) => TaskPrio <= mainPrio

-----------------------------------------------------------------------------
(* unprotected_task and protected_task *)

Take(w) ==
    /\ WorkerRuns(w) /\ wpc[w] = "take"
    /\ holder' = w
    /\ wpc' = [wpc EXCEPT ![w] = "load"]
    /\ UNCHANGED <<mainPrio, shared, mainVs, i, reg>>

Load(w) ==
    /\ WorkerRuns(w) /\ wpc[w] = "load"
    /\ reg' = [reg EXCEPT ![w] = g_counter + 1]
    /\ wpc' = [wpc EXCEPT ![w] = "store"]
    /\ UNCHANGED <<mainPrio, shared, holder, mainVs, i>>

StoreUnprotected(w) ==
    /\ WorkerRuns(w) /\ wpc[w] = "store" /\ phase = "unprotected"
    /\ g_counter' = reg[w]
    /\ i' = [i EXCEPT ![w] = @ + 1]
    /\ wpc' = [wpc EXCEPT ![w] = AfterIteration(w)]
    /\ UNCHANGED <<mainPrio, g_done_count, holder, mainVs, reg>>

StoreProtected(w) ==
    /\ WorkerRuns(w) /\ wpc[w] = "store" /\ phase = "mutex"
    /\ g_counter' = reg[w]
    /\ wpc' = [wpc EXCEPT ![w] = "give"]
    /\ UNCHANGED <<mainPrio, g_done_count, holder, mainVs, i, reg>>

Give(w) ==
    /\ WorkerRuns(w) /\ wpc[w] = "give"
    /\ holder' = Free
    /\ i' = [i EXCEPT ![w] = @ + 1]
    /\ wpc' = [wpc EXCEPT ![w] = AfterIteration(w)]
    /\ UNCHANGED <<mainPrio, shared, mainVs, reg>>

\* g_done_count++ is outside the mutex in both task functions.
DoneLoad(w) ==
    /\ WorkerRuns(w) /\ wpc[w] = "done_load"
    /\ reg' = [reg EXCEPT ![w] = g_done_count + 1]
    /\ wpc' = [wpc EXCEPT ![w] = "done_store"]
    /\ UNCHANGED <<mainPrio, shared, holder, mainVs, i>>

\* The store, and the vTaskDelete(NULL) that touches nothing shared.
DoneStore(w) ==
    /\ WorkerRuns(w) /\ wpc[w] = "done_store"
    /\ g_done_count' = reg[w]
    /\ wpc' = [wpc EXCEPT ![w] = "absent"]
    /\ UNCHANGED <<mainPrio, g_counter, holder, mainVs, i, reg>>

Worker(w) ==
    \/ Take(w) \/ Load(w) \/ StoreUnprotected(w) \/ StoreProtected(w)
    \/ Give(w) \/ DoneLoad(w) \/ DoneStore(w)

-----------------------------------------------------------------------------
(* app_main and run_phase *)

ResetCounters ==
    /\ MainRuns /\ mpc = "reset"
    /\ g_counter' = 0
    /\ g_done_count' = 0
    /\ created' = 0
    /\ mpc' = "create"
    /\ UNCHANGED <<mainPrio, holder, phase, rounds, workVs, result>>

\* xTaskCreate: the new task is ready at once, and preempts a lower creator.
CreateTask ==
    /\ MainRuns /\ mpc = "create"
    /\ created' = created + 1
    /\ wpc' = [wpc EXCEPT ![created + 1] = LoopHead]
    /\ i' = [i EXCEPT ![created + 1] = 0]
    /\ mpc' = IF created + 1 = 2 THEN "poll" ELSE "create"
    /\ UNCHANGED <<mainPrio, shared, holder, phase, rounds, reg, result>>

\* Faulty: main waits for one task, or for a third.
FaultyPollOne ==
    /\ MainRuns /\ mpc = "poll"
    /\ mpc' = IF g_done_count < 1 THEN "delay" ELSE "read"
    /\ UNCHANGED <<mainPrio, shared, holder, phase, created, rounds, workVs, result>>
FaultyPollThree ==
    /\ MainRuns /\ mpc = "poll"
    /\ mpc' = IF g_done_count <= 2 THEN "delay" ELSE "read"
    /\ UNCHANGED <<mainPrio, shared, holder, phase, created, rounds, workVs, result>>

\* while (g_done_count < 2) vTaskDelay(50 ms)
PollDone ==
    /\ MainRuns /\ mpc = "poll"
    /\ mpc' = IF g_done_count < 2 THEN "delay" ELSE "read"
    /\ UNCHANGED <<mainPrio, shared, holder, phase, created, rounds, workVs, result>>

ReadResult ==
    /\ MainRuns /\ mpc = "read"
    /\ result' = [result EXCEPT ![phase] = g_counter]
    /\ mpc' = IF phase = "unprotected" THEN "gap" ELSE "bench_take"
    /\ UNCHANGED <<mainPrio, shared, holder, phase, created, rounds, workVs>>

\* The tick interrupt ends the 50 ms poll delay or the 500 ms between phases.
DelayExpires ==
    /\ \/ mpc = "delay" /\ mpc' = "poll"  /\ phase' = phase
       \/ mpc = "gap"   /\ mpc' = "reset" /\ phase' = "mutex"
    /\ UNCHANGED <<mainPrio, shared, holder, created, rounds, workVs, result>>

BenchTake ==
    /\ MainRuns /\ mpc = "bench_take"
    /\ holder' = Main
    /\ mpc' = "bench_give"
    /\ UNCHANGED <<mainPrio, shared, phase, created, rounds, workVs, result>>

BenchGive ==
    /\ MainRuns /\ mpc = "bench_give"
    /\ holder' = Free
    /\ rounds' = rounds + 1
    /\ mpc' = IF rounds + 1 < BenchIters THEN "bench_take" ELSE "returned"
    /\ UNCHANGED <<mainPrio, shared, phase, created, workVs, result>>

\* app_main has returned; only the idle task is left.
Idle == mpc = "returned" /\ UNCHANGED vars

MainTask ==
    \/ ResetCounters \/ CreateTask \/ PollDone \/ ReadResult
    \/ BenchTake \/ BenchGive

-----------------------------------------------------------------------------

Init ==
    /\ mainPrio \in MainPrios
    /\ g_counter = 0
    /\ g_done_count = 0
    /\ holder = Free
    /\ phase = "unprotected"
    /\ mpc = "reset"
    /\ created = 0
    /\ rounds = 0
    /\ wpc = [w \in Workers |-> "absent"]
    /\ i = [w \in Workers |-> 0]
    /\ reg = [w \in Workers |-> 0]
    /\ result = [p \in Phases |-> None]

Next == MainTask \/ DelayExpires \/ Idle \/ \E w \in Workers : Worker(w)

Spec == Init /\ [][Next]_vars

\* The scheduler always runs some ready task of the highest priority and
\* time-slices among equals; the tick interrupt never stops.
Fairness ==
    /\ WF_vars(MainTask)
    /\ WF_vars(DelayExpires)
    /\ \A w \in Workers : WF_vars(Worker(w))

FairSpec == Spec /\ Fairness

-----------------------------------------------------------------------------
(* Properties *)

\* Every variable stays in its domain; in particular no worker runs an
\* iteration too many and main never creates a third task.
TypeOK ==
    /\ mainPrio \in MainPrios
    /\ g_counter \in Nat
    /\ g_done_count \in Nat
    /\ holder \in {Free, Main} \cup Workers
    /\ phase \in Phases
    /\ mpc \in {"reset", "create", "poll", "delay", "read", "gap",
                "bench_take", "bench_give", "returned"}
    /\ created \in 0..2
    /\ rounds \in 0..BenchIters
    /\ wpc \in [Workers -> {"absent", "take", "load", "store", "give",
                            "done_load", "done_store"}]
    /\ i \in [Workers -> 0..Iters]
    /\ reg \in [Workers -> Nat]
    /\ result \in [Phases -> Nat \cup {None}]

\* In the mutex phase the two tasks are never both between the take and the
\* give of g_mutex, whatever the priorities and the time slices.
MutualExclusion ==
    phase = "mutex" =>
        ~ \E v, w \in Workers :
            /\ v # w
            /\ wpc[v] \in {"load", "store", "give"}
            /\ wpc[w] \in {"load", "store", "give"}

\* "Phase 2 - WITH Mutex ... Actual result: exactly 20000": no increment is
\* lost when run_phase reads the counter of the mutex phase.
MutexExact == result["mutex"] \in {None, Expected}

\* When the poll loop of run_phase lets main go on, every increment of both
\* tasks is behind it: the result is never read from a counter still moving.
ReadAfterAllFinished ==
    mpc = "read" => \A w \in Workers :
                        i[w] = Iters /\ wpc[w] = "absent"

\* At the code's priorities the creator is preempted by T1 before it can
\* create T2, so the workers never overlap ...
Preempting == mainPrio < TaskPrio
NeverOverlap == Preempting => ~ \A w \in Workers : Alive(w)

\* ... and even the unprotected phase loses nothing.
UnprotectedExact ==
    Preempting => result["unprotected"] \in {None, Expected}

\* "Phase 1 - NO protection ... Actual result: < 20000 (data lost)"
UnprotectedLoses ==
    result["unprotected"] # None => result["unprotected"] < Expected

\* run_phase returns in both phases and the benchmark obtains the mutex: at
\* these priorities the unguarded g_done_count++ does not leave main polling
\* for ever.
Terminates == Preempting => <>(mpc = "returned")

-----------------------------------------------------------------------------
(* The inductive invariants the proofs use. *)

\* Increments w has stored in this phase (i++ comes after the give), and
\* whether its g_done_count++ is behind it.
Stored(w) ==
    IF w > created THEN 0 ELSE IF wpc[w] = "give" THEN i[w] + 1 ELSE i[w]
Finished(w) == IF w <= created /\ wpc[w] = "absent" THEN 1 ELSE 0

\* app_main's progress through a phase.
MainProgress ==
    /\ mpc = "create" => created < 2
    /\ mpc \notin {"create", "reset"} => created = 2
    /\ mpc \in {"read", "gap", "bench_take", "bench_give", "returned", "reset"}
        => \A w \in Workers : wpc[w] = "absent"
    /\ mpc = "gap" => phase = "unprotected"
    /\ mpc \in {"bench_take", "bench_give", "returned"} => phase = "mutex"
    /\ mpc # "returned" => rounds < BenchIters

\* Each worker's loop counter fits the place it is at.
WorkerProgress ==
    \A w \in Workers :
        /\ w > created => wpc[w] = "absent"
        /\ wpc[w] \in {"take", "load", "store", "give"} => i[w] < Iters
        /\ w <= created /\ wpc[w] \in {"done_load", "done_store", "absent"}
            => i[w] = Iters
        /\ wpc[w] \in {"take", "give"} => phase = "mutex"

\* g_done_count may lose an update but never counts a task that has not
\* finished, nor does a value about to be stored into it.
DoneBound ==
    /\ mpc # "reset" => g_done_count <= Finished(1) + Finished(2)
    /\ \A w \in Workers : wpc[w] = "done_store" =>
            reg[w] <= Finished(1) + Finished(2) + 1

\* The mutex is held exactly by the one task between its take and its give.
HolderInv ==
    /\ holder = Main <=> mpc = "bench_give"
    /\ phase = "unprotected" => holder = Free
    /\ phase = "mutex" => \A w \in Workers :
            holder = w <=> wpc[w] \in {"load", "store", "give"}

\* No increment has been lost so far in this phase.
Counting ==
    /\ mpc # "reset" => g_counter = Stored(1) + Stored(2)
    /\ \A w \in Workers : wpc[w] = "store" => reg[w] = g_counter + 1

MutexInv ==
    /\ TypeOK /\ MainProgress /\ WorkerProgress /\ DoneBound /\ HolderInv
    /\ phase = "mutex" => Counting
    /\ MutexExact

\* What holds in addition when main's priority is below the workers'.
SerialInv == NeverOverlap /\ (Preempting => Counting) /\ UnprotectedExact

=============================================================================
