---------------------------- MODULE Mcycle64Proof ----------------------------
(***************************************************************************)
(* The 64-bit count of Mcycle64 is exact for every width of the counter    *)
(* and every MaxGap below a wrap.                                          *)
(*                                                                         *)
(* The invariant says of the last call, and of an open profile_begin, how  *)
(* far the counter has come since: not a full turn, so that it has wrapped *)
(* at most once, and if it has, it shows less than it did then.            *)
(***************************************************************************)
EXTENDS Mcycle64, TLAPS

\* since cycles have passed from hi_bits, prev_lo to wraps, mcycle.
SinceLastCall ==
    \/ wraps = hi_bits /\ mcycle = prev_lo + since
    \/ wraps = hi_bits + 1 /\ mcycle + Wrap = prev_lo + since

\* ran cycles have passed from start to mcycle, all of them since the last call.
SinceBegin ==
    at \in Ends =>
        /\ ran <= since
        /\ mcycle = start + ran \/ mcycle + Wrap = start + ran

CountInv == TypeOK /\ SinceLastCall /\ SinceBegin /\ CountsExact

\* app_main goes from one of its places to another.
LEMMA StepTyped ==
    ASSUME at \in Calls \cup Begins \cup Ends
    PROVE  AfterStep(at) \in Calls \cup Begins \cup Ends
BY DEF AfterStep, Calls, Begins, Ends

LEMMA InitCounts == Init => CountInv
BY ConstantsAssumption
   DEF Init, CountInv, TypeOK, SinceLastCall, SinceBegin, CountsExact, Calls, Begins, Ends

\* Cycles that pass keep the invariant: the counter cannot wrap twice
\* between two calls, as they are less than a wrap apart.
LEMMA PassCounts ==
    ASSUME CountInv, NEW d \in 1..MaxGap, Pass(d)
    PROVE  CountInv'
<1> USE ConstantsAssumption
<1>1. TypeOK'
  BY DEF CountInv, TypeOK, Pass
<1>2. SinceLastCall'
  <2>1. CASE mcycle + d < Wrap
    BY <2>1 DEF CountInv, TypeOK, SinceLastCall, Pass
  <2>2. CASE ~(mcycle + d < Wrap)
    <3>1. wraps = hi_bits /\ mcycle = prev_lo + since
      BY <2>2 DEF CountInv, TypeOK, SinceLastCall, Pass
    <3> QED
      BY <2>2, <3>1 DEF CountInv, TypeOK, SinceLastCall, Pass
  <2> QED
    BY <2>1, <2>2
<1>3. SinceBegin'
  <2> SUFFICES ASSUME at \in Ends
               PROVE  /\ ran' <= since'
                      /\ mcycle' = start' + ran' \/ mcycle' + Wrap = start' + ran'
    BY DEF SinceBegin, Pass
  <2>1. ran <= since /\ (mcycle = start + ran \/ mcycle + Wrap = start + ran)
    BY DEF CountInv, SinceBegin
  <2> QED
    BY <2>1 DEF CountInv, TypeOK, Pass
<1>4. CountsExact'
  BY DEF CountInv, CountsExact, Pass
<1> QED
  BY <1>1, <1>2, <1>3, <1>4 DEF CountInv

\* A call sees the wrap there was, if there was one: the counter then shows
\* less than at the call before, and only then.
LEMMA CallCounts ==
    ASSUME CountInv, Call
    PROVE  CountInv'
<1> USE ConstantsAssumption
<1>1. hi_bits' = wraps
  BY DEF CountInv, TypeOK, SinceLastCall, Call, Wrapped
<1>2. TypeOK'
  <2>1. at' \in Calls \cup Begins \cup Ends
    BY StepTyped DEF CountInv, TypeOK, Call
  <2> QED
    BY <1>1, <2>1 DEF CountInv, TypeOK, Call
<1>3. SinceLastCall'
  BY <1>1 DEF CountInv, TypeOK, SinceLastCall, Call
<1>4. SinceBegin'
  BY DEF SinceBegin, Call, Calls, Ends, AfterStep
<1>5. CountsExact'
  BY <1>1 DEF CountsExact, Call
<1> QED
  BY <1>2, <1>3, <1>4, <1>5 DEF CountInv

\* A benchmark starts and ends between two calls.
LEMMA ProfileCounts ==
    ASSUME CountInv, profile_begin \/ profile_end
    PROVE  CountInv'
<1> USE ConstantsAssumption
<1>1. CASE profile_begin
  <2>1. TypeOK' /\ SinceLastCall' /\ CountsExact'
    <3>1. at' \in Calls \cup Begins \cup Ends
      BY <1>1, StepTyped DEF CountInv, TypeOK, profile_begin
    <3> QED
      BY <1>1, <3>1 DEF CountInv, TypeOK, SinceLastCall, CountsExact, profile_begin
  <2>2. SinceBegin'
    BY <1>1 DEF CountInv, TypeOK, SinceBegin, profile_begin
  <2> QED
    BY <2>1, <2>2 DEF CountInv
<1>2. CASE profile_end
  <2>1. (IF mcycle >= start THEN mcycle - start ELSE mcycle + Wrap - start) = ran
    <3>1. at \in Ends
      BY <1>2 DEF profile_end
    <3> QED
      BY <3>1 DEF CountInv, TypeOK, SinceBegin
  <2>2. TypeOK' /\ SinceLastCall'
    <3>1. at' \in Calls \cup Begins \cup Ends
      BY <1>2, StepTyped DEF CountInv, TypeOK, profile_end
    <3> QED
      BY <1>2, <2>1, <3>1 DEF CountInv, TypeOK, SinceLastCall, profile_end, counter
  <2>3. SinceBegin'
    BY <1>2 DEF SinceBegin, profile_end, Ends, AfterStep
  <2>4. CountsExact'
    BY <1>2, <2>1 DEF CountsExact, profile_end
  <2> QED
    BY <2>2, <2>3, <2>4 DEF CountInv
<1> QED
  BY <1>1, <1>2

LEMMA StepCounts ==
    ASSUME CountInv, [Next]_vars
    PROVE  CountInv'
<1>1. CASE Call
  BY <1>1, CallCounts
<1>2. CASE profile_begin \/ profile_end
  BY <1>2, ProfileCounts
<1>3. CASE \E d \in 1..MaxGap : Pass(d)
  BY <1>3, PassCounts
<1>4. CASE UNCHANGED vars
  BY <1>4 DEF vars, counter, CountInv, TypeOK, SinceLastCall, SinceBegin, CountsExact
<1> QED
  BY <1>1, <1>2, <1>3, <1>4 DEF Next

\* Every count mcycle64 returns is the number of cycles since reset, and every
\* difference a benchmark prints the number of cycles it took, for every width
\* of the counter, as long as calls are less than a wrap apart; all variables
\* keep their types.
THEOREM CountsAreExact == Spec => [](TypeOK /\ CountsExact)
<1>1. CountInv /\ [Next]_vars => CountInv'
  BY StepCounts
<1>2. CountInv => TypeOK /\ CountsExact
  BY DEF CountInv
<1> QED
  BY InitCounts, <1>1, <1>2, PTL DEF Spec

=============================================================================
