--------------------------- MODULE EventGroupsProof ---------------------------
(***************************************************************************)
(* In EventGroups no sample counts for two rounds, for any sensors, number  *)
(* of rounds and of samples: proved with TLAPS.                             *)
(*                                                                          *)
(* The argument.  A complete set of bits reaches the controller with        *)
(* xClearOnExit: it holds a complete set that it has not reported yet only  *)
(* if all its bits are gone.  That needs a fact of the kernel: a wait that  *)
(* times out returns an incomplete set, because xEventGroupSetBits wakes    *)
(* whoever the new bits satisfy and all other calls only take bits away.    *)
(***************************************************************************)
EXTENDS EventGroups, TLAPS

\* A task is blocked in the one wait of its program point.
WaitsInPlace ==
    /\ \A s \in Sensors : Blocked(s) => spc[s] = "waiting" /\ waiting[s] = DoneSet
    /\ Blocked(Controller) => \/ cpc = "and" /\ waiting[Controller] = AllReady
                              \/ cpc = "or" /\ waiting[Controller] = AOrAlarm

\* The kernel leaves no task blocked whose condition holds.
WaitersUnsatisfied ==
    \A t \in Tasks : Blocked(t) => ~Satisfied(waiting[t], bits)

\* The controller is back from its AND wait with all sensors' bits.
AllReadyInHand ==
    cpc = "and" /\ ~Blocked(Controller) /\ Sensors \subseteq value[Controller]

\* A round is reported once, and after it began.
ReportedRounds == ready + (IF cpc = "and" THEN 1 ELSE 0) <= round

\* SampleSpentOnce, with the round the controller is about to report.
SampleReserved ==
    \A s \in Sensors :
        ready + (IF s \in bits THEN 1 ELSE 0) + (IF AllReadyInHand THEN 1 ELSE 0)
            <= samples[s]

\* The bound on the samples holds room for the sample being announced.
RoomForSample == \A s \in Sensors : spc[s] = "set" => samples[s] < MaxSamples

EventInv ==
    /\ TypeOK /\ WaitsInPlace /\ ReportedRounds /\ WaitersUnsatisfied
    /\ SampleReserved /\ RoomForSample

-----------------------------------------------------------------------------
(* The kernel's operations *)

\* More bits satisfy more requests.
LEMMA SatisfiedMonotone ==
    ASSUME NEW r, NEW small, NEW large, small \subseteq large, Satisfied(r, small)
    PROVE  Satisfied(r, large)
  BY DEF Satisfied

\* Types of the constants and of the three requests.
LEMMA RequestTypes ==
    /\ Sensors \subseteq Tasks /\ Controller \in Tasks /\ Controller \notin Sensors
    /\ Sensors \subseteq Bits /\ ALARM \in Bits /\ DONE \in Bits
    /\ ALARM \notin Sensors /\ DONE \notin Sensors
    /\ {AllReady, DoneSet, AOrAlarm} \subseteq Requests
  BY ConstantsAssumption DEF Requests, AllReady, DoneSet, AOrAlarm, ALARM, DONE

\* xEventGroupSetBits releases the tasks it satisfies and no other.
LEMMA SetBitsFacts ==
    ASSUME TypeOK, WaitersUnsatisfied, NEW b \in SUBSET Bits, SetBits(b)
    PROVE  /\ bits' \subseteq bits \cup b
           /\ bits' \in SUBSET Bits
           /\ waiting' \in [Tasks -> Requests \cup {NoWait}]
           /\ value' \in [Tasks -> SUBSET Bits]
           /\ \A t \in Tasks : Blocked(t)' => waiting'[t] = waiting[t]
           /\ \A t \in Tasks : ~Blocked(t) => ~Blocked(t)' /\ value'[t] = value[t]
           /\ \A t \in Tasks : Blocked(t) /\ ~Blocked(t)' =>
                  /\ Satisfied(waiting[t], bits \cup b)
                  /\ waiting[t].clear => bits' \cap waiting[t].mask = {}
           /\ WaitersUnsatisfied'
  <1> DEFINE new   == bits \cup b
             woken == {t \in Tasks : Blocked(t) /\ Satisfied(waiting[t], new)}
  <1>1. /\ bits' = new \ UNION {waiting[t].mask : t \in {u \in woken : waiting[u].clear}}
        /\ value' = [t \in Tasks |-> IF t \in woken THEN new ELSE value[t]]
        /\ waiting' = [t \in Tasks |-> IF t \in woken THEN NoWait ELSE waiting[t]]
    BY DEF SetBits
  <1>2. \A t \in Tasks : t \in woken => ~Blocked(t)'
    BY <1>1 DEF Blocked
  <1>3. \A t \in Tasks : t \notin woken => waiting'[t] = waiting[t] /\ value'[t] = value[t]
    BY <1>1
  <1>4. bits' \subseteq new
    BY <1>1
  <1>5. WaitersUnsatisfied'
    <2> SUFFICES ASSUME NEW t \in Tasks, Blocked(t)', Satisfied(waiting'[t], bits')
                 PROVE  FALSE
      BY DEF WaitersUnsatisfied
    <2>1. t \notin woken /\ waiting'[t] = waiting[t] /\ Blocked(t)
      BY <1>2, <1>3 DEF Blocked
    <2>2. Satisfied(waiting[t], new)
      BY <1>4, <2>1, SatisfiedMonotone
    <2> QED
      BY <2>1, <2>2
  <1>6. \A t \in woken : waiting[t].clear => bits' \cap waiting[t].mask = {}
    BY <1>1
  <1>7. new \in SUBSET Bits
    BY DEF TypeOK
  <1>8. /\ waiting' \in [Tasks -> Requests \cup {NoWait}]
        /\ value' \in [Tasks -> SUBSET Bits]
    BY <1>1, <1>7 DEF TypeOK
  <1>9. \A t \in Tasks : Blocked(t)' => waiting'[t] = waiting[t]
    BY <1>2, <1>3
  <1>10. \A t \in Tasks : ~Blocked(t) => ~Blocked(t)' /\ value'[t] = value[t]
    BY <1>3 DEF Blocked
  <1>11. \A t \in Tasks : Blocked(t) /\ ~Blocked(t)' => t \in woken
    BY <1>3 DEF Blocked
  <1> QED
    BY <1>4, <1>5, <1>6, <1>7, <1>8, <1>9, <1>10, <1>11

\* xEventGroupWaitBits disturbs nobody but its caller.
LEMMA WaitBitsFacts ==
    ASSUME TypeOK, WaitersUnsatisfied, NEW t \in Tasks, NEW r \in Requests,
           ~Blocked(t), WaitBits(t, r)
    PROVE  /\ bits' \subseteq bits
           /\ waiting' \in [Tasks -> Requests \cup {NoWait}]
           /\ value' \in [Tasks -> SUBSET Bits]
           /\ \A u \in Tasks : u # t => waiting'[u] = waiting[u] /\ value'[u] = value[u]
           /\ Blocked(t)' => waiting'[t] = r
           /\ ~Blocked(t)' => /\ value'[t] = bits
                              /\ Satisfied(r, bits)
                              /\ r.clear => bits' \cap r.mask = {}
           /\ WaitersUnsatisfied'
  <1>1. CASE Satisfied(r, bits)
    <2>1. /\ value' = [value EXCEPT ![t] = bits] /\ waiting' = waiting
          /\ bits' = IF r.clear THEN bits \ r.mask ELSE bits
      BY <1>1 DEF WaitBits
    <2>2. bits' \subseteq bits
      BY <2>1
    <2>3. WaitersUnsatisfied'
      BY <2>1, <2>2, SatisfiedMonotone DEF WaitersUnsatisfied, Blocked
    <2> QED
      BY <1>1, <2>1, <2>2, <2>3 DEF TypeOK, Blocked
  <1>2. CASE ~Satisfied(r, bits)
    <2>1. waiting' = [waiting EXCEPT ![t] = r] /\ bits' = bits /\ value' = value
      BY <1>2 DEF WaitBits
    <2>2. r # NoWait
      BY ConstantsAssumption
    <2>3. waiting' \in [Tasks -> Requests \cup {NoWait}] /\ waiting'[t] = r
      BY <2>1 DEF TypeOK
    <2>4. \A u \in Tasks : u # t => waiting'[u] = waiting[u]
      BY <2>1 DEF TypeOK
    <2>5. WaitersUnsatisfied'
      BY <1>2, <2>1, <2>3, <2>4 DEF WaitersUnsatisfied, Blocked
    <2> QED
      BY <2>1, <2>2, <2>3, <2>4, <2>5 DEF TypeOK, Blocked
  <1> QED
    BY <1>1, <1>2

-----------------------------------------------------------------------------
(* The invariant *)

LEMMA InitEvents == Init => EventInv
  BY RequestTypes, ConstantsAssumption
     DEF Init, EventGroupInit, EventInv, TypeOK, WaitsInPlace, ReportedRounds,
         WaitersUnsatisfied, SampleReserved, AllReadyInHand, RoomForSample, Blocked

\* A task announces, raises or pulses bits that are no sensor's, or its own
\* with a new sample: what the controller gets was announced.
LEMMA SetBitsReserves ==
    ASSUME EventInv, NEW b \in SUBSET Bits, SetBits(b),
           UNCHANGED <<ready, round>>, cpc = "and" <=> cpc' = "and",
           samples' \in [Sensors -> 0..MaxSamples],
           \A s \in Sensors :
               samples'[s] >= samples[s] + (IF s \in b THEN 1 ELSE 0)
    PROVE  SampleReserved'
  <1> USE DEF EventInv, TypeOK
  <1> SUFFICES ASSUME NEW s \in Sensors
               PROVE  ready + (IF s \in bits' THEN 1 ELSE 0)
                            + (IF AllReadyInHand' THEN 1 ELSE 0) <= samples'[s]
    BY DEF SampleReserved
  <1>2. /\ samples[s] \in Nat /\ samples'[s] \in Nat /\ ready \in Nat
        /\ samples'[s] >= samples[s] + (IF s \in b THEN 1 ELSE 0)
        /\ ready + (IF s \in bits THEN 1 ELSE 0)
                 + (IF AllReadyInHand THEN 1 ELSE 0) <= samples[s]
    BY ConstantsAssumption DEF SampleReserved
  <1>3. s \in bits' => s \in bits \/ s \in b
    BY SetBitsFacts
  <1>4. CASE ~Blocked(Controller)
    <2>1. AllReadyInHand' = AllReadyInHand
      BY <1>4, SetBitsFacts, RequestTypes DEF AllReadyInHand
    <2> QED
      BY <1>2, <1>3, <2>1
  <1>5. CASE Blocked(Controller) /\ AllReadyInHand'
    <2>1. waiting[Controller] = AllReady /\ ~Blocked(Controller)'
      BY <1>5 DEF WaitsInPlace, AllReadyInHand
    <2>2. s \in bits \cup b /\ s \notin bits'
      BY <1>5, <2>1, SetBitsFacts, RequestTypes DEF AllReady, Satisfied
    <2> QED
      BY <1>2, <1>5, <2>2 DEF AllReadyInHand
  <1>6. CASE Blocked(Controller) /\ ~AllReadyInHand'
    BY <1>2, <1>3, <1>6 DEF AllReadyInHand
  <1> QED
    BY <1>4, <1>5, <1>6

LEMMA NextEvents == EventInv /\ [Next]_vars => EventInv'
  <1> SUFFICES ASSUME EventInv, [Next]_vars PROVE EventInv'
    OBVIOUS
  <1>0. TypeOK /\ WaitsInPlace /\ ReportedRounds /\ WaitersUnsatisfied /\ SampleReserved
        /\ RoomForSample
    BY DEF EventInv
  <1> USE <1>0, RequestTypes
  <1>1. ASSUME NEW s \in Sensors, SamplingEnds(s) PROVE EventInv'
    BY <1>1 DEF SamplingEnds, EventInv, TypeOK, WaitsInPlace, ReportedRounds,
                WaitersUnsatisfied, SampleReserved, AllReadyInHand, RoomForSample, Blocked, egVars
  <1>2. ASSUME NEW s \in Sensors, Announce(s) PROVE EventInv'
    <2>1. {s} \in SUBSET Bits /\ SetBits({s}) /\ UNCHANGED <<apc, cpc, round, ready>>
      BY <1>2 DEF Announce
    <2>2. samples' \in [Sensors -> 0..MaxSamples]
      BY <1>2, ConstantsAssumption DEF Announce, TypeOK, RoomForSample
    <2>3. TypeOK'
      BY <1>2, <2>1, <2>2, SetBitsFacts, ZenonT(60) DEF Announce, TypeOK
    <2>4. WaitsInPlace'
      BY <1>2, <2>1, SetBitsFacts, ZenonT(60) DEF Announce, WaitsInPlace, TypeOK
    <2>5. SampleReserved'
      <3>1. \A r \in Sensors : samples'[r] >= samples[r] + (IF r \in {s} THEN 1 ELSE 0)
        BY <1>2, ConstantsAssumption DEF Announce, TypeOK
      <3> QED
        BY <2>1, <2>2, <3>1, SetBitsReserves
    <2>6. RoomForSample'
      BY <1>2 DEF Announce, TypeOK, RoomForSample
    <2> QED
      BY <2>1, <2>3, <2>4, <2>5, <2>6, SetBitsFacts DEF EventInv, ReportedRounds
  <1>3. ASSUME NEW s \in Sensors, WaitDone(s) PROVE EventInv'
    <2>1. ~Blocked(s) /\ s \in Tasks /\ WaitBits(s, DoneSet) /\ DoneSet \in Requests
          /\ UNCHANGED <<samples, apc, cpc, round, ready>>
      BY <1>3 DEF WaitDone, WaitsInPlace
    <2>2. TypeOK'
      BY <1>3, <2>1, WaitBitsFacts DEF WaitDone, TypeOK
    <2>3. WaitsInPlace'
      BY <1>3, <2>1, WaitBitsFacts DEF WaitDone, WaitsInPlace, Blocked, TypeOK
    <2>4. SampleReserved'
      BY <2>1, WaitBitsFacts DEF SampleReserved, AllReadyInHand, Blocked, TypeOK
    <2>5. RoomForSample'
      BY <1>3 DEF WaitDone, TypeOK, RoomForSample
    <2> QED
      BY <2>1, <2>2, <2>3, <2>4, <2>5, WaitBitsFacts DEF EventInv, ReportedRounds
  <1>4. ASSUME NEW s \in Sensors, DoneTimesOut(s) PROVE EventInv'
    BY <1>4 DEF DoneTimesOut, WaitTimesOut, EventInv, TypeOK, WaitsInPlace, appVars,
                ReportedRounds, WaitersUnsatisfied, SampleReserved, AllReadyInHand, RoomForSample, Blocked
  <1>5. ASSUME NEW s \in Sensors, NextSample(s) PROVE EventInv'
    BY <1>5 DEF NextSample, WaitReturns, EventInv, TypeOK, WaitsInPlace,
                ReportedRounds, WaitersUnsatisfied, SampleReserved, AllReadyInHand, RoomForSample, Blocked
  <1>6. CASE RaiseAlarm
    <2>1. {ALARM} \in SUBSET Bits /\ SetBits({ALARM})
          /\ UNCHANGED <<spc, samples, cpc, round, ready>>
      BY <1>6 DEF RaiseAlarm
    <2>2. TypeOK'
      BY <1>6, <2>1, SetBitsFacts, ZenonT(60) DEF RaiseAlarm, TypeOK
    <2>3. WaitsInPlace'
      BY <2>1, SetBitsFacts DEF WaitsInPlace
    <2>4. SampleReserved'
      BY <2>1, SetBitsReserves, ConstantsAssumption DEF TypeOK
    <2> QED
      BY <2>1, <2>2, <2>3, <2>4, SetBitsFacts DEF EventInv, ReportedRounds, RoomForSample
  <1>7. CASE StartRound
    <2>1. ~Blocked(Controller) /\ UNCHANGED <<spc, samples, apc, ready>>
      BY <1>7 DEF StartRound, WaitsInPlace
    <2>2. CASE cpc' = "and"
      <3>1. WaitBits(Controller, AllReady) /\ round' = round + 1 /\ round < Rounds /\ cpc = "head"
        BY <1>7, <2>2 DEF StartRound
      <3>2. TypeOK'
        BY <2>1, <2>2, <3>1, WaitBitsFacts, ConstantsAssumption DEF TypeOK
      <3>3. WaitsInPlace'
        BY <2>1, <2>2, <3>1, WaitBitsFacts DEF WaitsInPlace, Blocked
      <3>4. SampleReserved'
        <4> SUFFICES ASSUME NEW s \in Sensors
                     PROVE  ready + (IF s \in bits' THEN 1 ELSE 0)
                                  + (IF AllReadyInHand' THEN 1 ELSE 0) <= samples[s]
          BY <2>1 DEF SampleReserved
        <4>1. /\ samples[s] \in Nat /\ ready \in Nat
              /\ ready + (IF s \in bits THEN 1 ELSE 0) <= samples[s]
          BY <3>1, ConstantsAssumption DEF SampleReserved, AllReadyInHand, TypeOK
        <4>2. bits' \subseteq bits
          BY <2>1, <3>1, WaitBitsFacts
        <4>3. AllReadyInHand' => s \in bits /\ s \notin bits'
          BY <2>1, <3>1, WaitBitsFacts DEF AllReadyInHand, AllReady, Satisfied
        <4> QED
          BY <4>1, <4>2, <4>3
      <3>5. ReportedRounds'
        BY <2>1, <2>2, <3>1, ConstantsAssumption DEF ReportedRounds, TypeOK
      <3> QED
        BY <2>1, <3>1, <3>2, <3>3, <3>4, <3>5, WaitBitsFacts DEF EventInv, RoomForSample
    <2>3. CASE cpc' = "or"
      <3>1. WaitBits(Controller, AOrAlarm) /\ round' = round /\ cpc = "head"
        BY <1>7, <2>3 DEF StartRound
      <3>2. TypeOK'
        BY <2>1, <2>3, <3>1, WaitBitsFacts DEF TypeOK
      <3>3. WaitsInPlace'
        BY <2>1, <2>3, <3>1, WaitBitsFacts DEF WaitsInPlace, Blocked
      <3>4. SampleReserved'
        <4>1. bits' \subseteq bits /\ ~AllReadyInHand'
          BY <2>1, <2>3, <3>1, WaitBitsFacts DEF AllReadyInHand
        <4>2. \A s \in Sensors : samples[s] \in Nat
          BY ConstantsAssumption DEF TypeOK
        <4> QED
          BY <2>1, <3>1, <4>1, <4>2 DEF SampleReserved, AllReadyInHand, TypeOK
      <3>5. ReportedRounds'
        BY <2>1, <2>3, <3>1 DEF ReportedRounds, TypeOK
      <3> QED
        BY <2>1, <3>1, <3>2, <3>3, <3>4, <3>5, WaitBitsFacts DEF EventInv, RoomForSample
    <2> QED
      BY <1>7, <2>2, <2>3 DEF StartRound
  <1>8. CASE ControllerTimesOut
    <2>1. ~AllReadyInHand'
      BY <1>8 DEF ControllerTimesOut, WaitTimesOut, WaitsInPlace, WaitersUnsatisfied, appVars,
                  AllReadyInHand, Satisfied, AllReady, TypeOK
    <2>2. TypeOK' /\ WaitsInPlace' /\ ReportedRounds' /\ WaitersUnsatisfied' /\ RoomForSample'
      BY <1>8 DEF ControllerTimesOut, WaitTimesOut, TypeOK, WaitsInPlace, appVars,
                  ReportedRounds, WaitersUnsatisfied, RoomForSample, Blocked
    <2>3. SampleReserved'
      BY <1>8, <2>1 DEF ControllerTimesOut, WaitTimesOut, TypeOK, appVars,
                  SampleReserved, AllReadyInHand
    <2> QED
      BY <2>2, <2>3 DEF EventInv
  <1>9. CASE Report
    <2>1. TypeOK' /\ WaitsInPlace' /\ ReportedRounds' /\ WaitersUnsatisfied' /\ RoomForSample'
      BY <1>9, ConstantsAssumption DEF Report, WaitReturns, TypeOK, WaitsInPlace,
                  ReportedRounds, WaitersUnsatisfied, RoomForSample, Blocked
    <2>2. SampleReserved'
      BY <1>9 DEF Report, WaitReturns, TypeOK, SampleReserved, AllReadyInHand
    <2> QED
      BY <2>1, <2>2 DEF EventInv
  <1>10. CASE SetDone
    <2>1. {DONE} \in SUBSET Bits /\ SetBits({DONE}) /\ cpc = "set_done" /\ cpc' = "pulse"
          /\ UNCHANGED <<spc, samples, apc, round, ready>>
      BY <1>10 DEF SetDone
    <2>2. TypeOK'
      BY <2>1, SetBitsFacts DEF TypeOK
    <2>3. WaitsInPlace'
      BY <2>1, SetBitsFacts DEF WaitsInPlace
    <2>4. SampleReserved'
      BY <2>1, SetBitsReserves, ConstantsAssumption DEF TypeOK
    <2> QED
      BY <2>1, <2>2, <2>3, <2>4, SetBitsFacts DEF EventInv, ReportedRounds, RoomForSample
  <1>11. CASE ClearDone
    <2>1. bits' \subseteq bits
      BY <1>11 DEF ClearDone, ClearBits
    <2>2. WaitersUnsatisfied'
      BY <1>11, <2>1, SatisfiedMonotone DEF ClearDone, ClearBits, WaitersUnsatisfied, Blocked
    <2>3. TypeOK' /\ WaitsInPlace' /\ ReportedRounds' /\ RoomForSample'
      BY <1>11 DEF ClearDone, ClearBits, TypeOK, WaitsInPlace, ReportedRounds, RoomForSample,
                Blocked
    <2>4. SampleReserved'
      BY <1>11, <2>1 DEF ClearDone, ClearBits, TypeOK, SampleReserved, AllReadyInHand
    <2> QED
      BY <2>2, <2>3, <2>4 DEF EventInv
  <1>12. CASE ControllerEnds
    BY <1>12 DEF ControllerEnds, WaitReturns, EventInv, TypeOK, WaitsInPlace,
                ReportedRounds, WaitersUnsatisfied, SampleReserved, AllReadyInHand, RoomForSample, Blocked
  <1>13. CASE UNCHANGED vars
    BY <1>13 DEF vars, appVars, EventInv, TypeOK, WaitsInPlace, ReportedRounds,
                WaitersUnsatisfied, SampleReserved, AllReadyInHand, RoomForSample, Blocked, egVars
  <1> QED
    BY <1>1, <1>2, <1>3, <1>4, <1>5, <1>6, <1>7, <1>8, <1>9, <1>10, <1>11, <1>12, <1>13
       DEF Next, Sensor, ControllerTask

LEMMA EventInvariant == Spec => []EventInv
  BY InitEvents, NextEvents, PTL DEF Spec

\* However waits time out and bits are set twice before anybody looks, no
\* sample is reported in two rounds.
THEOREM EventsHandedOver == Spec => [](TypeOK /\ SampleSpentOnce)
  <1>1. EventInv => TypeOK /\ SampleSpentOnce
    BY ConstantsAssumption DEF EventInv, SampleReserved, SampleSpentOnce, TypeOK
  <1> QED
    BY <1>1, EventInvariant, PTL

=============================================================================
