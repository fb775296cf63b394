----------------------------- MODULE BoundedFifo -----------------------------
(***************************************************************************)
(* What a bounded FIFO channel promises: at most Depth messages are under  *)
(* way, they are handed out once each in the order they were accepted, and *)
(* the message in the receiver's hands changes only when it takes another. *)
(***************************************************************************)
EXTENDS Naturals, Sequences

CONSTANTS
    Messages,   \* what may be sent
    Depth,      \* capacity of the channel
    Nothing     \* what the receiver holds before its first message

VARIABLES
    contents,   \* accepted and not yet handed out, oldest first
    last        \* the message handed out last

vars == <<contents, last>>

Init == contents = <<>> /\ last = Nothing

Accept ==
    /\ Len(contents) < Depth
    /\ \E m \in Messages : contents' = Append(contents, m)
    /\ UNCHANGED last

Deliver ==
    /\ contents # <<>>
    /\ last' = Head(contents)
    /\ contents' = Tail(contents)

Next == Accept \/ Deliver

Spec == Init /\ [][Next]_vars

\* A receiver that keeps receiving gets everything that was accepted.
FairSpec == Spec /\ WF_vars(Deliver)

=============================================================================
