------------------------ MODULE SensorQueueParameters ------------------------
(* The parameters of SensorQueue, with their values in examples/04_queues *)
EXTENDS Naturals, Sequences

CONSTANTS
    Producers,   \* the producer tasks in creation order, by sensor id
    QUEUE_DEPTH, \* 8 in the code
    MaxIter      \* bound on the iterations of each producer's endless loop

ASSUME SensorQueueAssumption ==
    /\ Producers \in Seq(Nat)
    /\ \A k, m \in 1..Len(Producers) : Producers[k] = Producers[m] => k = m
    /\ QUEUE_DEPTH \in Nat \ {0}
    /\ MaxIter \in Nat

==============================================================================
