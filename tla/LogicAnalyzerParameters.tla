----------------------- MODULE LogicAnalyzerParameters -----------------------
(* The parameters of LogicAnalyzer, with their values in                    *)
(* examples/11_logic_analyzer                                               *)
EXTENDS Integers

CONSTANTS
    BUF_SIZE,   \* slots of g_buf: 1024 in the code
    CycleMod,   \* modulus of the uint32_t counters: 2^32
    MaxClock    \* bound: the sampler takes no sample from this cycle on

ASSUME LogicAnalyzerAssumption ==
    /\ BUF_SIZE \in Nat /\ BUF_SIZE > 1
    /\ CycleMod \in Nat /\ CycleMod > 1
    /\ MaxClock \in Nat

==============================================================================
