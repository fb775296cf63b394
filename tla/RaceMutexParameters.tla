------------------------- MODULE RaceMutexParameters -------------------------
(* The parameters of RaceMutex, with their values in examples/07_race_mutex *)
EXTENDS Integers

CONSTANTS
    Iters,       \* ITERS_PER_TASK (10000 in the code)
    BenchIters,  \* rounds of the mutex loop of bench_critical_section (1000)
    MainPrios,   \* priorities the main task may have (1, the ESP-IDF default)
    TaskPrio     \* priority given to T1 and T2 (5)

ASSUME RaceMutexAssumption ==
    /\ Iters \in Nat \ {0}
    /\ BenchIters \in Nat \ {0}
    /\ MainPrios \subseteq Nat
    /\ TaskPrio \in Nat

==============================================================================
