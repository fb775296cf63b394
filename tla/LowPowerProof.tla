---------------------------- MODULE LowPowerProof ----------------------------
(***************************************************************************)
(* What LowPower prints of the wakeups is true for any number of deep      *)
(* sleeps and wherever a reset falls: proved with TLAPS.                   *)
(*                                                                         *)
(* The argument.  A boot counts itself first and adds its time last; both  *)
(* are in RTC memory, which a reset from outside clears as a whole and a   *)
(* wakeup keeps as a whole.  So since RTC memory was initialised there was *)
(* one boot more than wakeups, as soon as this boot has counted itself.    *)
(***************************************************************************)
EXTENDS LowPower, TLAPS

SleepInv ==
    /\ pc \in {"boot", "configure", "awake", "sleep", "asleep"}
    /\ wakeups \in Nat
    /\ pc = "boot" => boot_count = wakeups
    /\ pc # "boot" => boot_count = wakeups + 1 /\ said = wakeups
    /\ pc \in {"sleep", "asleep"} => total_wake_ms = AwakeMs * wakeups + AwakeMs
    /\ pc \notin {"sleep", "asleep"} => total_wake_ms = AwakeMs * wakeups

LEMMA NextSleep == SleepInv /\ [Next]_vars => SleepInv'
  <1> SUFFICES ASSUME SleepInv, [Next]_vars PROVE SleepInv'
    OBVIOUS
  <1> USE DEF SleepInv, AwakeMs
  <1>1. CASE CountBoot
    BY <1>1 DEF CountBoot
  <1>2. CASE Configure
    BY <1>2 DEF Configure
  <1>3. CASE StayAwake
    BY <1>3 DEF StayAwake
  <1>4. CASE DeepSleep
    BY <1>4 DEF DeepSleep
  <1>5. CASE Wakeup
    BY <1>5 DEF Wakeup, Reset, RtcKept
  <1>6. CASE ForeignReset
    BY <1>6 DEF ForeignReset, Reset, RtcKept
  <1>7. CASE UNCHANGED vars
    BY <1>7 DEF vars
  <1> QED
    BY <1>1, <1>2, <1>3, <1>4, <1>5, <1>6, <1>7 DEF Next, Program

\* No reset, wherever it falls, makes "Total wakeups so far" or the time awake
\* count a boot twice or lose one, for any number of sleeps.
THEOREM WakeupsTrue == Spec => []WakeupsCounted
  <1>1. Init => SleepInv
    BY DEF Init, SleepInv, AwakeMs
  <1>2. SleepInv => WakeupsCounted
    BY DEF SleepInv, WakeupsCounted, AwakeMs
  <1> QED
    BY <1>1, <1>2, NextSleep, PTL DEF Spec

=============================================================================
