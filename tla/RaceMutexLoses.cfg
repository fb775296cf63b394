SPECIFICATION Spec
CONSTANTS
    Iters = 4
    BenchIters = 2
    MainPrios = {1}
    TaskPrio = 5
INVARIANT UnprotectedLoses
