-------------------------- MODULE EventGroupKernel --------------------------
(***************************************************************************)
(* A FreeRTOS event group as the examples use it: a set of bits, and the   *)
(* tasks blocked in xEventGroupWaitBits with what they asked for.          *)
(***************************************************************************)
LOCAL INSTANCE Naturals

CONSTANTS
    Tasks,   \* the tasks that call xEventGroupWaitBits
    Bits,    \* the event bits the program uses
    NoWait   \* waiting[t] of a task that is not blocked

VARIABLES
    bits,      \* the bits that are set
    waiting,   \* the request a blocked task waits for, or NoWait
    value      \* what xEventGroupWaitBits returned, until its caller looks

egVars == <<bits, waiting, value>>

Requests == [mask : SUBSET Bits, clear : BOOLEAN, all : BOOLEAN]

Satisfied(r, set) == IF r.all THEN r.mask \subseteq set ELSE r.mask \cap set # {}

EventGroupInit ==
    /\ bits = {}
    /\ waiting = [t \in Tasks |-> NoWait]
    /\ value = [t \in Tasks |-> {}]

Blocked(t) == waiting[t] # NoWait

\* All waiters the new bits satisfy are released together, each with the
\* same value; the bits they clear on exit are cleared after that.
SetBits(b) ==
    LET new   == bits \cup b
        woken == {t \in Tasks : Blocked(t) /\ Satisfied(waiting[t], new)}
    IN  /\ bits' = new \ UNION {waiting[t].mask : t \in {u \in woken : waiting[u].clear}}
        /\ value' = [t \in Tasks |-> IF t \in woken THEN new ELSE value[t]]
        /\ waiting' = [t \in Tasks |-> IF t \in woken THEN NoWait ELSE waiting[t]]

\* The caller goes on with the value its wait returned.
WaitReturns(t) ==
    /\ ~Blocked(t)
    /\ value' = [value EXCEPT ![t] = {}]
    /\ UNCHANGED <<bits, waiting>>

ClearBits(b) == bits' = bits \ b /\ UNCHANGED <<waiting, value>>

\* xEventGroupWaitBits returns at once when its condition holds already.
WaitBits(t, r) ==
    IF Satisfied(r, bits)
    THEN /\ value' = [value EXCEPT ![t] = bits]
         /\ bits' = IF r.clear THEN bits \ r.mask ELSE bits
         /\ UNCHANGED waiting
    ELSE /\ waiting' = [waiting EXCEPT ![t] = r]
         /\ UNCHANGED <<bits, value>>

\* xTicksToWait has passed: the caller gets the bits as they are.
WaitTimesOut(t) ==
    /\ Blocked(t)
    /\ value' = [value EXCEPT ![t] = bits]
    /\ waiting' = [waiting EXCEPT ![t] = NoWait]
    /\ UNCHANGED bits

=============================================================================
