--------------------------- MODULE ScheduledProof ---------------------------
(***************************************************************************)
(* What the examples of MCScheduled promise, for any times that the        *)
(* promise needs: proved with TLAPS.                                       *)
(***************************************************************************)
EXTENDS MCScheduled, SequenceTheorems, FiniteSetTheorems, TLAPS

-----------------------------------------------------------------------------
(* 05: the task watchdog *)

LEMMA WatchdogOrStay ==
    ASSUME [BoardNext]_boardVars PROVE W!Next \/ UNCHANGED wVars
  BY DEF BoardNext, boardVars, PriorityInversionStep, SensorQueueStep, EventGroupsStep,
         WatchdogStep, TasksStep

TwdtTypes ==
    /\ w_mpc \in {"init", "create", "returned"}
    /\ apc \in {"absent", "add", "loop", "arm", "delay"}
    /\ bpc \in {"absent", "add", "loop", "delay", "hung"}
    /\ atick \in Nat /\ atimer \in 0..1 /\ btimer \in 0..1
    /\ preInit \in BOOLEAN /\ g_simulate_hang \in BOOLEAN /\ panics \in BOOLEAN
    /\ elapsed \in Nat /\ elapsed < Timeout /\ hungFor \in Nat

\* The tasks that have begun are watched, and not all of them have checked in:
\* the last to do so would have restarted the timer.
Watched ==
    /\ subscribed \subseteq {"A", "B", "idle"}
    /\ "A" \in subscribed <=> apc \notin {"absent", "add"}
    /\ "B" \in subscribed <=> bpc \notin {"absent", "add"}
    /\ "idle" \in subscribed <=> preInit
    /\ checkedIn \subseteq subscribed
    /\ subscribed \subseteq checkedIn => subscribed = {}

\* No time passes before app_main has returned.
Starting ==
    /\ w_mpc = "init" => apc = "absent"
    /\ w_mpc # "returned" => bpc = "absent"
    /\ bpc \in {"absent", "add"} => elapsed = 0 /\ btimer = 0 /\ "idle" \notin checkedIn
    /\ bpc = "add" => w_mpc = "returned"
    /\ apc \in {"absent", "add"} => bpc = "absent" /\ atimer = 0
    /\ w_mpc # "init" /\ ~preInit => panics = TRUE

\* A arms the hang once, and B hangs when it is armed.
Arming ==
    /\ apc = "arm" => atick >= HangTick /\ g_simulate_hang = FALSE
    /\ g_simulate_hang = TRUE => atick >= HangTick /\ apc \in {"loop", "delay"}
    /\ bpc = "hung" => g_simulate_hang = TRUE

\* A checks in again two seconds after the timer was restarted at the latest.
AOnTime ==
    "A" \notin checkedIn =>
        /\ elapsed <= 2
        /\ apc = "arm" => elapsed + atimer <= 1
        /\ apc = "delay" => elapsed + atimer <= 2

\* Unless it hangs B checks in within a second, and so does the idle task.  A
\* checks in no second time before the others have; who is still to check in
\* when A does will do so in the same second.
Healthy ==
    /\ "B" \notin checkedIn => elapsed + btimer <= 1
    /\ preInit /\ "idle" \notin checkedIn => elapsed = 0
    /\ apc = "loop" \/ (apc = "delay" /\ atimer = 0) =>
          /\ "A" \notin checkedIn
          /\ "B" \notin checkedIn /\ bpc = "delay" => btimer = 0
    /\ "A" \in checkedIn /\ "B" \notin checkedIn /\ bpc = "delay" => btimer = 0
    /\ preInit /\ "B" \in checkedIn /\ (bpc = "loop" \/ btimer = 0) => "idle" \in checkedIn
    /\ preInit /\ bpc = "delay" /\ btimer = 1 => "B" \in checkedIn
    /\ "idle" \in checkedIn =>
          /\ g_simulate_hang = TRUE /\ "B" \in checkedIn
          /\ bpc = "loop" \/ (bpc = "delay" /\ btimer = 0)
    /\ preInit /\ atimer = 1 /\ (apc = "arm" \/ (apc = "delay" /\ g_simulate_hang = FALSE)) =>
          "A" \in checkedIn

\* What was checked in before the hang is forgotten when A checks in next.
Hung ==
    /\ preInit => ("B" \in checkedIn <=> "idle" \in checkedIn)
    /\ "A" \in checkedIn => "B" \notin checkedIn
    /\ ~preInit => /\ hungFor <= elapsed + 1
                   /\ "B" \in checkedIn => hungFor = 0 \/ (hungFor = 1 /\ atimer = 0)
                                           \/ (hungFor = 1 /\ apc = "loop")

TwdtInv ==
    /\ TwdtTypes /\ Watched /\ Starting /\ Arming /\ AOnTime
    /\ bpc # "hung" => Healthy /\ hungFor = 0
    /\ bpc = "hung" => Hung

\* The timer does not run out on healthy tasks, and by the time it does on a
\* hang A has checked in.
LEMMA RunsOutOnHang ==
    ASSUME Timeout > 2, TwdtInv, W!Blocked, elapsed + 1 = Timeout
    PROVE  /\ bpc = "hung" /\ "A" \in checkedIn
           /\ "B" \notin checkedIn /\ "idle" \notin checkedIn
           /\ "B" \in subscribed
  <1> Timeout \in Nat
    BY BoardAssumption DEF W!ConstantsAssumption
  <1> USE DEF TwdtInv, TwdtTypes, Watched, AOnTime, W!Blocked
  <1>1. "A" \in checkedIn
    OBVIOUS
  <1>2. bpc = "hung"
    <2> SUFFICES ASSUME bpc # "hung" PROVE FALSE
      OBVIOUS
    <2>1. bpc = "delay" /\ btimer = 1 /\ elapsed >= 2
      OBVIOUS
    <2>2. "B" \in checkedIn /\ (preInit => "idle" \in checkedIn)
      BY <2>1 DEF Healthy
    <2>3. subscribed \subseteq checkedIn
      BY <1>1, <2>2
    <2> QED
      BY <1>1, <2>3
  <1> QED
    BY <1>1, <1>2 DEF Hung

LEMMA TwdtStep ==
    ASSUME Timeout > 2, TwdtInv, W!Next \/ UNCHANGED wVars PROVE TwdtInv'
  <1> Timeout \in Nat \ {0} /\ HangTick \in Nat \ {0, 1}
    BY BoardAssumption DEF W!ConstantsAssumption
  <1> USE DEF TwdtInv, TwdtTypes, Watched, Starting, Arming, AOnTime, Healthy, Hung,
              W!CheckIn, W!Subscribe, W!Countdown, W!Blocked, W!tasks, W!twdt
  <1>1. CASE W!InitTwdt
    BY <1>1 DEF W!InitTwdt
  <1>2. CASE W!CreateTask
    BY <1>2 DEF W!CreateTask
  <1>3. CASE W!AddA
    BY <1>3 DEF W!AddA
  <1>4. CASE W!AddB
    BY <1>4 DEF W!AddB
  <1>5. CASE W!LoopA
    <2>1. CASE subscribed \subseteq checkedIn \cup {"A"}
      <3>1. checkedIn' = {} /\ elapsed' = 0
        BY <1>5, <2>1 DEF W!LoopA
      <3>2. (apc = "loop" /\ "A" \notin checkedIn) \/ bpc = "hung"
        BY <1>5 DEF W!LoopA
      <3> QED
        BY <1>5, <2>1, <3>1, <3>2 DEF W!LoopA
    <2>2. CASE ~(subscribed \subseteq checkedIn \cup {"A"})
      <3>1. checkedIn' = checkedIn \cup {"A"} /\ elapsed' = elapsed
        BY <1>5, <2>2 DEF W!LoopA
      <3> QED
        BY <1>5, <2>2, <3>1 DEF W!LoopA
    <2> QED
      BY <2>1, <2>2
  <1>6. CASE W!ArmHang
    BY <1>6 DEF W!ArmHang
  <1>7. CASE W!DelayEndsA
    BY <1>7 DEF W!DelayEndsA
  <1>8. CASE W!LoopB
    <2>1. CASE subscribed \subseteq checkedIn \cup {"B"}
      <3>1. checkedIn' = {} /\ elapsed' = 0
        BY <1>8, <2>1 DEF W!LoopB
      <3> QED
        BY <1>8, <2>1, <3>1 DEF W!LoopB
    <2>2. CASE ~(subscribed \subseteq checkedIn \cup {"B"})
      <3>1. checkedIn' = checkedIn \cup {"B"} /\ elapsed' = elapsed
        BY <1>8, <2>2 DEF W!LoopB
      <3> QED
        BY <1>8, <2>2, <3>1 DEF W!LoopB
    <2> QED
      BY <2>1, <2>2
  <1>9. CASE W!HangB
    BY <1>9 DEF W!HangB
  <1>10. CASE W!DelayEndsB
    BY <1>10 DEF W!DelayEndsB
  <1>11. CASE W!Second
    <2>1. /\ w_mpc = "returned" /\ apc \in {"arm", "delay"} /\ atimer = 1 /\ atimer' = 0
          /\ bpc = "hung" \/ (bpc = "delay" /\ btimer = 1)
          /\ btimer' = 0 /\ elapsed + 1 < Timeout
      BY <1>11 DEF W!Second
    <2>2. UNCHANGED <<preInit, w_mpc, apc, atick, bpc, g_simulate_hang, subscribed, panics>>
      BY <1>11 DEF W!Second
    <2>3. hungFor' = IF bpc = "hung" /\ hungFor <= Timeout THEN hungFor + 1 ELSE hungFor
      BY <1>11 DEF W!Second
    <2>4. CASE ~preInit \/ bpc = "hung"
      <3>1. checkedIn' = checkedIn /\ elapsed' = elapsed + 1
        BY <1>11, <2>4 DEF W!Second
      <3> QED
        BY <2>1, <2>2, <2>3, <2>4, <3>1
    <2>5. CASE preInit /\ bpc # "hung" /\ subscribed \subseteq checkedIn \cup {"idle"}
      <3>1. checkedIn' = {} /\ elapsed' = 0
        BY <1>11, <2>5 DEF W!Second
      <3> QED
        BY <2>1, <2>2, <2>3, <2>5, <3>1
    <2>6. CASE preInit /\ bpc # "hung" /\ ~(subscribed \subseteq checkedIn \cup {"idle"})
      <3>1. checkedIn' = checkedIn \cup {"idle"} /\ elapsed' = elapsed + 1
        BY <1>11, <2>6 DEF W!Second
      <3> QED
        BY <2>1, <2>2, <2>3, <2>6, <3>1
    <2> QED
      BY <2>4, <2>5, <2>6
  <1>12. CASE W!PanicReset
    <2>1. /\ w_mpc' = "init" /\ apc' = "absent" /\ bpc' = "absent"
          /\ atick' = 0 /\ atimer' = 0 /\ btimer' = 0 /\ elapsed' = 0 /\ hungFor' = 0
          /\ checkedIn' = {} /\ preInit' = preInit /\ preInit \in BOOLEAN
      BY <1>12 DEF W!PanicReset
    <2>2. g_simulate_hang' = FALSE /\ panics' = FALSE
      BY <1>12 DEF W!PanicReset
    <2>3. subscribed' = IF preInit THEN {"idle"} ELSE {}
      BY <1>12 DEF W!PanicReset
    <2>4. Watched'
      BY <2>1, <2>3
    <2>5. TwdtTypes'
      <3>1. panics' \in BOOLEAN /\ g_simulate_hang' \in BOOLEAN
        BY <2>2
      <3> QED
        BY <2>1, <3>1
    <2>6. Starting' /\ Arming' /\ AOnTime' /\ Healthy'
      BY <2>1, <2>2
    <2> QED
      BY <2>1, <2>4, <2>5, <2>6
  <1>13. CASE W!Warn
    <2>1. bpc = "hung" /\ "A" \in checkedIn /\ w_mpc = "returned"
      BY <1>13, RunsOutOnHang DEF W!Warn
    <2>2. preInit
      BY <1>13, <2>1 DEF W!Warn
    <2> QED
      BY <1>13, <2>1, <2>2 DEF W!Warn
  <1>14. CASE UNCHANGED wVars
    BY <1>14 DEF wVars
  <1> QED
    BY <1>1, <1>2, <1>3, <1>4, <1>5, <1>6, <1>7, <1>8, <1>9, <1>10, <1>11, <1>12, <1>13, <1>14
       DEF W!Next, W!Task, W!Time

LEMMA TwdtStart == BoardInit => TwdtInv
  <1> SUFFICES ASSUME W!Init PROVE TwdtInv
    BY DEF BoardInit
  <1>1. Timeout \in Nat \ {0}
    BY BoardAssumption DEF W!ConstantsAssumption
  <1>2. /\ w_mpc = "init" /\ apc = "absent" /\ atick = 0 /\ atimer = 0
        /\ bpc = "absent" /\ btimer = 0 /\ g_simulate_hang = FALSE /\ hungFor = 0
        /\ preInit \in BOOLEAN
    BY DEF W!Init
  <1>3. /\ subscribed = IF preInit THEN {"idle"} ELSE {}
        /\ checkedIn = {} /\ elapsed = 0 /\ panics = FALSE
    BY DEF W!Init, W!TwdtAtBoot
  <1>4. TwdtTypes /\ Starting /\ Arming /\ AOnTime
    <2>1. TwdtTypes
      <3>1. panics \in BOOLEAN /\ g_simulate_hang \in BOOLEAN
        BY <1>2, <1>3
      <3> QED
        BY <1>1, <1>2, <1>3, <3>1 DEF TwdtTypes
    <2>2. Starting
      BY <1>2, <1>3 DEF Starting
    <2>3. Arming
      BY <1>2 DEF Arming
    <2>4. AOnTime
      BY <1>2, <1>3 DEF AOnTime
    <2> QED
      BY <2>1, <2>2, <2>3, <2>4
  <1>5. Watched /\ Healthy
    <2>1. CASE preInit
      BY <1>2, <1>3, <2>1 DEF Watched, Healthy
    <2>2. CASE ~preInit
      BY <1>2, <1>3, <2>2 DEF Watched, Healthy
    <2> QED
      BY <2>1, <2>2
  <1> QED
    BY <1>2, <1>4, <1>5 DEF TwdtInv

\* Configured by this program, the TWDT ends B's endless loop within its
\* timeout, if that is longer than A ever takes from check-in to check-in.
THEOREM HangIsShort ==
    ASSUME Timeout > 2 PROVE BoardSpec => []FiresInTime
  <1>1. TwdtInv => FiresInTime
    BY BoardAssumption
       DEF TwdtInv, TwdtTypes, Hung, FiresInTime, W!FiresInTime, W!ConstantsAssumption
  <1>2. TwdtInv /\ [BoardNext]_boardVars => TwdtInv'
    BY WatchdogOrStay, TwdtStep
  <1> QED
    BY <1>1, <1>2, TwdtStart, PTL DEF BoardSpec

\* The TWDT never fires on healthy tasks, though A is away for two seconds when
\* it arms the hang, and names the tasks that are stuck.
THEOREM BlamesTheHung ==
    ASSUME Timeout > 2 PROVE BoardSpec => FiresOnlyOnHang
  <1> DEFINE Right == /\ bpc = "hung"
                      /\ "A" \in checkedIn /\ "B" \in subscribed
                      /\ subscribed \ checkedIn = subscribed \cap {"B", "idle"}
  <1>1. TwdtInv /\ (W!PanicReset \/ W!Warn) => Right
    BY RunsOutOnHang DEF W!PanicReset, W!Warn, TwdtInv, Watched
  <1>2. TwdtInv /\ [BoardNext]_boardVars => TwdtInv'
    BY WatchdogOrStay, TwdtStep
  <1>3. TwdtInv => [W!PanicReset \/ W!Warn => Right]_W!vars
    BY <1>1
  <1> QED
    BY <1>2, <1>3, TwdtStart, PTL DEF BoardSpec, FiresOnlyOnHang, W!FiresOnlyOnHang

-----------------------------------------------------------------------------
(* 08: priority inversion *)

\* The times for which run_scenario's wait is long enough: LOW has the resource
\* when HIGH asks for it, and all three tasks are through before it ends.
TimesFit ==
    /\ LowDelay < HighDelay /\ HighDelay < LowDelay + LowWork
    /\ LowDelay + LowWork < ScenarioTime
    /\ MidDelay + MidTurns * MidWork < ScenarioTime

\* Time since the scenario began, and the times at which LOW gives and MID ends
Age    == ScenarioTime - mtimer
GiveAt == LowDelay + LowWork
MidAt  == MidDelay + MidTurns * MidWork

ScenarioTypes ==
    /\ now \in Nat /\ mtimer \in Nat /\ since \in [Scenarios -> Nat] /\ turns \in [Scenarios -> Nat]
    /\ mpc \in {"start", "wait", "delete", "gap", "returned"}
    /\ scenario \in Scenarios
    /\ sem \in [Scenarios -> {"none", "live", "deleted"}]
    /\ count \in [Scenarios -> 0..1]
    /\ pc \in [Threads -> {"absent", "delay", "take", "work", "give", "finish", "done"}]
    /\ timer \in [Threads -> Nat]
    /\ handle \in [Threads -> 0..3]
    /\ waited \in [Scenarios -> Int]

\* A task of another scenario: not created yet, or through, or waiting for ever
\* for the first scenario's empty semaphore.
Elsewhere(t) ==
    /\ t[2] > scenario \/ (t[2] = scenario /\ mpc \in {"start", "gap"}) => pc[t] = "absent"
    /\ t[2] < scenario \/ (t[2] = scenario /\ mpc \in {"delete", "returned"}) =>
          IF t[2] = 1 /\ t[1] # "MID" THEN pc[t] = "take" /\ handle[t] = 1 ELSE pc[t] = "done"

LowPlace(t) ==
    /\ pc[t] # "absent"
    /\ pc[t] = "delay" => timer[t] = LowDelay - Age
    /\ pc[t] = "take" => handle[t] = scenario /\ Age >= LowDelay
                         /\ (scenario # 1 => Age = LowDelay)
    /\ pc[t] \in {"work", "give"} => handle[t] = scenario
    /\ pc[t] = "work" => timer[t] = GiveAt - Age
    /\ pc[t] \in {"give", "finish"} => Age = GiveAt
    /\ pc[t] = "done" => Age >= GiveAt
    /\ pc[t] \in {"work", "give", "finish", "done"} => scenario # 1

HighPlace(t) ==
    /\ pc[t] \notin {"absent", "work"}
    /\ pc[t] = "delay" => timer[t] = HighDelay - Age
    /\ pc[t] \in {"take", "give"} => handle[t] = scenario
    /\ pc[t] = "take" => Age >= HighDelay /\ now - since[t[2]] = Age - HighDelay
    /\ pc[t] \in {"give", "finish"} => Age = GiveAt
    /\ pc[t] = "done" => Age >= GiveAt
    /\ pc[t] \in {"give", "finish", "done"} => scenario # 1

MidPlace(t) ==
    /\ pc[t] \in {"delay", "work", "finish", "done"}
    /\ pc[t] = "delay" => timer[t] = MidDelay - Age /\ turns[t[2]] = 0
    /\ pc[t] = "work" => /\ turns[t[2]] < MidTurns
                         /\ timer[t] = MidDelay + (turns[t[2]] + 1) * MidWork - Age
    /\ pc[t] = "finish" => Age = MidAt
    /\ pc[t] = "done" => Age >= MidAt

\* The semaphore is LOW's from its take to its give, and then HIGH's.
Handover(low, high) ==
    scenario # 1 =>
        /\ pc[low] \in {"delay", "take"} => count[scenario] = 1
        /\ pc[low] \in {"work", "give"} => count[scenario] = 0
        /\ pc[low] \in {"finish", "done"} /\ pc[high] = "take" =>
              count[scenario] = 1 /\ Age = GiveAt
        /\ pc[high] \in {"give", "finish", "done"} => pc[low] \in {"finish", "done"}

ScenarioInv ==
    /\ ScenarioTypes
    /\ count[1] = 0
    /\ mpc \in {"wait", "delete"} => resource = scenario /\ sem[scenario] = "live"
    /\ mpc = "wait" => mtimer <= ScenarioTime
    /\ \A t \in Threads : Elsewhere(t)
    /\ mpc = "wait" =>
          \A t \in Threads : t[2] = scenario =>
              /\ t[1] = "LOW" => LowPlace(t)
              /\ t[1] = "HIGH" => HighPlace(t)
              /\ t[1] = "MID" => MidPlace(t)
    /\ mpc = "wait" => Handover(<<"LOW", scenario>>, <<"HIGH", scenario>>)
    /\ WaitIndependentOfKind

LEMMA Times ==
    /\ {LowDelay, MidDelay, HighDelay, LowWork, MidWork, MidTurns, ScenarioTime, GapTime}
          \subseteq Nat \ {0}
    /\ GiveAt \in Nat /\ MidAt \in Nat
    /\ \A n \in Nat : n * MidWork \in Nat /\ (n + 1) * MidWork = n * MidWork + MidWork
  BY ConstantsAssumption DEF GiveAt, MidAt

LEMMA Thread ==
    ASSUME NEW t \in Threads
    PROVE  t[1] \in Names /\ t[2] \in Scenarios /\ t = <<t[1], t[2]>>
  BY DEF Threads

LEMMA ThreadOf ==
    ASSUME NEW n \in Names, NEW k \in Scenarios
    PROVE  <<n, k>> \in Threads /\ <<n, k>>[1] = n /\ <<n, k>>[2] = k
  BY DEF Threads

\* Only a task of the scenario that app_main waits for has anything to do.
LEMMA OnlyCurrentReady ==
    ASSUME ScenarioInv, NEW t \in Threads, Ready(t)
    PROVE  mpc = "wait" /\ t[2] = scenario
  <1>1. Elsewhere(t) /\ count[1] = 0 /\ mpc \in {"start", "wait", "delete", "gap", "returned"}
    BY DEF ScenarioInv, ScenarioTypes
  <1>2. pc[t] \notin {"absent", "done"} /\ ~(pc[t] = "take" /\ count[handle[t]] = 0)
    BY DEF Ready, Waits
  <1>3. t[2] \in 1..3 /\ scenario \in 1..3
    BY Thread DEF ScenarioInv, ScenarioTypes, Scenarios
  <1> QED
    BY <1>1, <1>2, <1>3 DEF Elsewhere

\* What a step of one task leaves to the others
Alone(t) ==
    /\ UNCHANGED <<now, mpc, mtimer, scenario, resource, sem>>
    /\ \A u \in Threads : u # t => pc'[u] = pc[u] /\ timer'[u] = timer[u] /\ handle'[u] = handle[u]

LEMMA Setting ==
    ASSUME NEW f \in [Scenarios -> 0..1], NEW k, NEW b \in 0..1
    PROVE  [f EXCEPT ![k] = b] \in [Scenarios -> 0..1]
  OBVIOUS

LEMMA TaskAlone ==
    ASSUME ScenarioInv, NEW t \in Threads, Task(t)
    PROVE  Alone(t) /\ Ready(t) /\ ScenarioTypes'
  <1> USE DEF ScenarioInv, ScenarioTypes, Alone, Runs, semVs, mainVs
  <1>0. resource \in 0..3
    BY OnlyCurrentReady DEF Task, DelayEnds, Take, LowWorkEnds, Give, MidTurn, Finish, Scenarios
  <1>1. CASE DelayEnds(t)
    BY <1>0, <1>1, Times, ZenonT(60) DEF DelayEnds
  <1>2. CASE Take(t)
    <2>1. Ready(t) /\ pc' = [pc EXCEPT ![t] = pc'[t]] /\ pc'[t] \in {"work", "give"}
      BY <1>2 DEF Take
    <2>2. timer' = timer \/ timer' = [timer EXCEPT ![t] = LowWork]
      BY <1>2 DEF Take
    <2>3. waited' = waited \/ waited' = [waited EXCEPT ![t[2]] = now - since[t[2]]]
      BY <1>2 DEF Take
    <2>4. /\ UNCHANGED <<now, mpc, mtimer, scenario, resource, sem, turns, handle, since>>
          /\ count' = [count EXCEPT ![handle[t]] = 0]
      BY <1>2 DEF Take
    <2>5. timer' \in [Threads -> Nat]
      BY <2>2, Times
    <2>6. waited' \in [Scenarios -> Int]
      BY <2>3
    <2>7. count' \in [Scenarios -> 0..1]
      BY <2>4, Setting, 0 \in 0..1
    <2>8. pc' \in [Threads -> {"absent", "delay", "take", "work", "give", "finish", "done"}]
      BY <2>1
    <2>9. Alone(t)
      BY <2>1, <2>2, <2>4
    <2> QED
      BY <2>1, <2>4, <2>5, <2>6, <2>7, <2>8, <2>9
  <1>3. CASE LowWorkEnds(t)
    BY <1>3 DEF LowWorkEnds
  <1>4. CASE Give(t)
    <2>1. /\ Ready(t) /\ pc' = [pc EXCEPT ![t] = "finish"]
          /\ UNCHANGED <<now, mpc, mtimer, scenario, resource, sem, timer, turns, handle, since, waited>>
      BY <1>4 DEF Give
    <2>2. count' = [count EXCEPT ![resource] = 1]
      BY <1>4 DEF Give
    <2>3. count' \in [Scenarios -> 0..1]
      BY <2>2, Setting, 1 \in 0..1
    <2> QED
      BY <2>1, <2>3
  <1>5. CASE MidTurn(t)
    <2>1. /\ Ready(t) /\ turns' = [turns EXCEPT ![t[2]] = @ + 1]
          /\ UNCHANGED <<now, mpc, mtimer, scenario, resource, sem, count, handle, since, waited>>
      BY <1>5 DEF MidTurn
    <2>2. \/ pc' = pc /\ timer' = [timer EXCEPT ![t] = MidWork]
          \/ pc' = [pc EXCEPT ![t] = "finish"] /\ timer' = timer
      BY <1>5 DEF MidTurn
    <2>3. timer' \in [Threads -> Nat]
      BY <2>2, Times
    <2>4. turns' \in [Scenarios -> Nat]
      BY <2>1, Thread
    <2> QED
      BY <2>1, <2>2, <2>3, <2>4
  <1>6. CASE Finish(t)
    BY <1>6 DEF Finish
  <1> QED
    BY <1>1, <1>2, <1>3, <1>4, <1>5, <1>6 DEF Task

Place(t) ==
    /\ t[1] = "LOW" => LowPlace(t)
    /\ t[1] = "HIGH" => HighPlace(t)
    /\ t[1] = "MID" => MidPlace(t)

LEMMA OthersStay ==
    ASSUME ScenarioInv, NEW t \in Threads, mpc = "wait", t[2] = scenario, Alone(t),
           t[1] # "HIGH" => since' = since, t[1] # "MID" => turns' = turns
    PROVE  /\ \A u \in Threads : Elsewhere(u)'
           /\ \A u \in Threads : u[2] = scenario /\ u # t => Place(u)'
  <1>1. ASSUME NEW u \in Threads PROVE Elsewhere(u)'
    <2>1. Elsewhere(u) /\ scenario \in Scenarios /\ u[2] \in Scenarios
      BY Thread DEF ScenarioInv, ScenarioTypes
    <2>2. CASE u = t
      BY <2>1, <2>2 DEF Alone, Elsewhere, Scenarios
    <2>3. CASE u # t
      BY <2>1, <2>3 DEF Alone, Elsewhere
    <2> QED
      BY <2>2, <2>3
  <1>2. ASSUME NEW u \in Threads, u[2] = scenario, u # t PROVE Place(u)'
    <2>1. Place(u)
      BY <1>2 DEF ScenarioInv, Place
    <2>2. Age' = Age
      BY DEF Alone, Age
    <2>3. pc'[u] = pc[u] /\ timer'[u] = timer[u] /\ handle'[u] = handle[u]
      BY <1>2 DEF Alone
    <2>4. u[1] = t[1] => u = t
      BY <1>2, Thread
    <2>5. u[1] = "LOW" => LowPlace(u)'
      BY <2>1, <2>2, <2>3 DEF Place, LowPlace, Alone, GiveAt
    <2>6. u[1] = "HIGH" => HighPlace(u)'
      <3>1. u[1] = "HIGH" => t[1] # "HIGH"
        BY <1>2, <2>4
      <3> QED
        BY <2>1, <2>2, <2>3, <3>1 DEF Place, HighPlace, Alone, GiveAt
    <2>7. u[1] = "MID" => MidPlace(u)'
      <3>1. u[1] = "MID" => t[1] # "MID"
        BY <1>2, <2>4
      <3> QED
        BY <2>1, <2>2, <2>3, <3>1 DEF Place, MidPlace, Alone, MidAt
    <2> QED
      BY <2>5, <2>6, <2>7 DEF Place
  <1> QED
    BY <1>1, <1>2

\* What is left to show of a step of one task
LEMMA TaskKeeps ==
    ASSUME ScenarioInv, NEW t \in Threads, Task(t),
           t[1] # "HIGH" => since' = since, t[1] # "MID" => turns' = turns,
           Place(t)', Handover(<<"LOW", scenario>>, <<"HIGH", scenario>>)',
           count'[1] = 0, WaitIndependentOfKind'
    PROVE  ScenarioInv'
  <1>1. Alone(t) /\ mpc = "wait" /\ t[2] = scenario /\ ScenarioTypes'
    BY TaskAlone, OnlyCurrentReady
  <1>2. /\ \A u \in Threads : Elsewhere(u)'
        /\ \A u \in Threads : u[2] = scenario => Place(u)'
    BY <1>1, OthersStay
  <1>3. UNCHANGED <<mpc, mtimer, scenario, resource, sem>>
    BY <1>1 DEF Alone
  <1>4. resource = scenario /\ sem[scenario] = "live" /\ mtimer <= ScenarioTime
    BY <1>1 DEF ScenarioInv
  <1> QED
    BY <1>1, <1>2, <1>3, <1>4 DEF ScenarioInv, Place

LEMMA LowStep ==
    ASSUME TimesFit, ScenarioInv, NEW t \in Threads, Task(t), t[1] = "LOW"
    PROVE  ScenarioInv'
  <1>1. /\ Alone(t) /\ mpc = "wait" /\ t[2] = scenario /\ Ready(t)
        /\ ScenarioTypes /\ scenario \in Scenarios /\ pc[t] # "absent"
        /\ LowPlace(t) /\ resource = scenario /\ sem[scenario] = "live" /\ count[1] = 0
    BY TaskAlone, OnlyCurrentReady DEF ScenarioInv, ScenarioTypes, LowPlace
  <1>2. PICK high \in Threads : high = <<"HIGH", scenario>>
    BY <1>1, ThreadOf DEF Names
  <1>0. t = <<"LOW", scenario>> /\ high # t
    BY <1>1, <1>2, Thread, ThreadOf DEF Names
  <1>3. Handover(t, high)
    BY <1>0, <1>1, <1>2 DEF ScenarioInv
  <1>4. Age' = Age /\ scenario' = scenario /\ pc'[high] = pc[high] /\ Age \in Int
    <2>1. mtimer' = mtimer /\ scenario' = scenario /\ pc'[high] = pc[high]
      BY <1>0, <1>1, <1>2 DEF Alone
    <2>2. mtimer \in Nat /\ ScenarioTime \in Nat
      BY <1>1, Times DEF ScenarioTypes
    <2> QED
      BY <2>1, <2>2 DEF Age
  <1>5. UNCHANGED <<since, turns, waited>>
    BY <1>1 DEF Task, DelayEnds, Take, LowWorkEnds, Give, MidTurn, Finish
  <1>6. Place(t)' /\ Handover(t, high)' /\ count'[1] = 0
    <2>1. /\ GiveAt = LowDelay + LowWork /\ {LowDelay, LowWork, GiveAt} \subseteq Nat
          /\ scenario \in {1, 2, 3} /\ LowDelay <= GiveAt
      BY <1>1, Times DEF GiveAt, Scenarios
    <2>2. /\ pc[t] \in {"delay", "work"} => timer[t] = 0
          /\ pc[t] = "take" => count[handle[t]] = 1
      <3>1. timer[t] \in Nat /\ count[scenario] \in 0..1
            /\ (pc[t] = "take" => handle[t] = scenario)
        BY <1>1 DEF ScenarioTypes, LowPlace
      <3> QED
        BY <1>1, <3>1 DEF Ready, Sleeping, Waits
    <2>3. t \in DOMAIN pc /\ t \in DOMAIN timer /\ t \in DOMAIN handle /\ scenario \in DOMAIN count
      BY <1>1 DEF ScenarioTypes
    <2> USE <1>1, <1>3, <1>4, <2>1, <2>2, <2>3
    <2>4. CASE DelayEnds(t)
      <3>1. /\ pc[t] = "delay" /\ pc'[t] = "take" /\ handle'[t] = scenario
            /\ count' = count
        BY <2>4 DEF DelayEnds, semVs
      <3> QED
        BY <3>1 DEF Place, LowPlace, Handover
    <2>5. CASE Take(t)
      <3>1. /\ pc[t] = "take" /\ pc'[t] = "work" /\ timer'[t] = LowWork /\ handle' = handle
            /\ handle[t] = scenario
        BY <2>5 DEF Take, LowPlace
      <3>2. count' = [count EXCEPT ![scenario] = 0]
        BY <2>5, <3>1 DEF Take
      <3>3. scenario # 1 /\ count'[1] = 0 /\ count'[scenario] = 0
        BY <3>1, <3>2
      <3> QED
        BY <3>1, <3>3 DEF Place, LowPlace, Handover
    <2>6. CASE LowWorkEnds(t)
      <3>1. /\ pc[t] = "work" /\ pc'[t] = "give" /\ handle' = handle /\ count' = count
        BY <2>6 DEF LowWorkEnds, semVs
      <3> QED
        BY <3>1, SMTT(60) DEF Place, LowPlace, Handover
    <2>7. CASE Give(t)
      <3>1. pc[t] = "give" /\ pc'[t] = "finish" /\ count' = [count EXCEPT ![scenario] = 1]
        BY <2>7 DEF Give
      <3>2. scenario # 1 /\ count'[1] = 0 /\ count'[scenario] = 1
        BY <3>1 DEF LowPlace
      <3> QED
        BY <3>1, <3>2 DEF Place, LowPlace, Handover
    <2>8. CASE Finish(t)
      <3>1. pc[t] = "finish" /\ pc'[t] = "done" /\ count' = count
        BY <2>8 DEF Finish, semVs
      <3> QED
        BY <3>1 DEF Place, LowPlace, Handover
    <2> QED
      BY <2>4, <2>5, <2>6, <2>7, <2>8 DEF Task, MidTurn
  <1>7. WaitIndependentOfKind'
    BY <1>5 DEF ScenarioInv, WaitIndependentOfKind
  <1> QED
    BY <1>0, <1>2, <1>4, <1>5, <1>6, <1>7, TaskKeeps

LEMMA HighStep ==
    ASSUME TimesFit, ScenarioInv, NEW t \in Threads, Task(t), t[1] = "HIGH"
    PROVE  ScenarioInv'
  <1>1. /\ Alone(t) /\ mpc = "wait" /\ t[2] = scenario /\ Ready(t)
        /\ ScenarioTypes /\ scenario \in Scenarios /\ pc[t] \notin {"absent", "work"}
        /\ HighPlace(t) /\ resource = scenario /\ sem[scenario] = "live" /\ count[1] = 0
    BY TaskAlone, OnlyCurrentReady DEF ScenarioInv, ScenarioTypes, HighPlace
  <1>2. PICK low \in Threads : low = <<"LOW", scenario>>
    BY <1>1, ThreadOf DEF Names
  <1>0. t = <<"HIGH", scenario>> /\ low # t /\ low[1] = "LOW" /\ low[2] = scenario
    BY <1>1, <1>2, Thread, ThreadOf DEF Names
  <1>3. Handover(low, t) /\ LowPlace(low)
    BY <1>0, <1>1, <1>2 DEF ScenarioInv
  <1>4. /\ Age' = Age /\ scenario' = scenario /\ now' = now
        /\ pc'[low] = pc[low] /\ timer'[low] = timer[low] /\ Age \in Int
    <2>1. mtimer' = mtimer /\ scenario' = scenario /\ now' = now
          /\ pc'[low] = pc[low] /\ timer'[low] = timer[low]
      BY <1>0, <1>1, <1>2 DEF Alone
    <2>2. mtimer \in Nat /\ ScenarioTime \in Nat
      BY <1>1, Times DEF ScenarioTypes
    <2> QED
      BY <2>1, <2>2 DEF Age
  <1>5. turns' = turns
    BY <1>1 DEF Task, DelayEnds, Take, LowWorkEnds, Give, MidTurn, Finish
  <1>6. /\ {LowDelay, HighDelay, GiveAt} \subseteq Nat /\ GiveAt = LowDelay + LowWork
        /\ scenario \in {1, 2, 3} /\ LowDelay < HighDelay /\ HighDelay < GiveAt
    BY <1>1, Times DEF GiveAt, Scenarios, TimesFit
  <1>7. /\ timer[t] \in Nat /\ timer[low] \in Nat /\ count[scenario] \in 0..1
        /\ now \in Nat /\ since \in [Scenarios -> Nat] /\ waited \in [Scenarios -> Int]
    BY <1>1 DEF ScenarioTypes
  <1>8. /\ pc[t] = "delay" => timer[t] = 0
        /\ pc[t] = "take" => count[scenario] = 1 /\ handle[t] = scenario
    BY <1>1, <1>7 DEF Ready, Sleeping, Waits, HighPlace
  <1>9. t \in DOMAIN pc /\ t \in DOMAIN timer /\ t \in DOMAIN handle /\ scenario \in DOMAIN count
    BY <1>1 DEF ScenarioTypes
  <1>10. /\ HighPlace(t)' /\ Handover(low, t)' /\ count'[1] = 0
         /\ waited' = waited \/ waited' = [waited EXCEPT ![scenario] = GiveAt - HighDelay]
    <2> USE <1>0, <1>1, <1>3, <1>4, <1>6, <1>7, <1>8, <1>9
    <2>1. CASE DelayEnds(t)
      <3>1. /\ pc[t] = "delay" /\ pc'[t] = "take" /\ handle'[t] = scenario /\ since' = [since EXCEPT ![scenario] = now]
            /\ count' = count /\ waited' = waited
        BY <2>1 DEF DelayEnds, semVs
      <3>2. Age = HighDelay
        BY <3>1 DEF HighPlace
      <3>3. pc[low] \notin {"finish", "done"}
        BY <3>2 DEF LowPlace
      <3> QED
        BY <3>1, <3>2, <3>3 DEF HighPlace, Handover
    <2>2. CASE Take(t)
      <3>1. /\ pc[t] = "take" /\ pc'[t] = "give" /\ handle' = handle
            /\ count' = [count EXCEPT ![scenario] = 0]
            /\ waited' = [waited EXCEPT ![scenario] = now - since[scenario]]
        BY <2>2 DEF Take
      <3>2. scenario # 1 /\ count'[1] = 0 /\ count'[scenario] = 0
        BY <3>1
      <3>3. pc[low] \in {"finish", "done"}
        <4>1. Age >= HighDelay
          BY <3>1 DEF HighPlace
        <4>2. pc[low] \notin {"absent", "delay", "take", "work", "give"}
          BY <3>1, <3>2, <4>1 DEF LowPlace, Handover
        <4> QED
          BY <1>2, <4>2 DEF ScenarioTypes
      <3>4. Age = GiveAt /\ now - since[scenario] = GiveAt - HighDelay
        BY <3>1, <3>2, <3>3 DEF Handover, HighPlace
      <3> QED
        BY <3>1, <3>2, <3>3, <3>4 DEF HighPlace, Handover
    <2>3. CASE Give(t)
      <3>1. /\ pc[t] = "give" /\ pc'[t] = "finish" /\ count' = [count EXCEPT ![scenario] = 1]
            /\ waited' = waited
        BY <2>3 DEF Give
      <3>2. scenario # 1 /\ count'[1] = 0 /\ count'[scenario] = 1
        BY <3>1 DEF HighPlace
      <3> QED
        BY <3>1, <3>2 DEF HighPlace, Handover
    <2>4. CASE Finish(t)
      <3>1. pc[t] = "finish" /\ pc'[t] = "done" /\ count' = count /\ waited' = waited
        BY <2>4 DEF Finish, semVs
      <3> QED
        BY <3>1 DEF HighPlace, Handover
    <2> QED
      BY <2>1, <2>2, <2>3, <2>4 DEF Task, MidTurn, LowWorkEnds
  <1>11. WaitIndependentOfKind'
    <2>0. LowDelay + LowWork - HighDelay = GiveAt - HighDelay
      <3>1. {LowDelay, LowWork, HighDelay} \subseteq Nat
        BY Times
      <3> QED
        BY <3>1 DEF GiveAt
    <2>1. \A k \in Scenarios : waited[k] \in {Unset, GiveAt - HighDelay}
      BY <2>0 DEF ScenarioInv, WaitIndependentOfKind
    <2>2. \A k \in Scenarios : waited'[k] \in {Unset, GiveAt - HighDelay}
      BY <1>7, <1>10, <2>1
    <2> QED
      BY <2>0, <2>2 DEF WaitIndependentOfKind
  <1>12. Place(t)'
    BY <1>0, <1>10 DEF Place
  <1> QED
    BY <1>0, <1>2, <1>4, <1>5, <1>10, <1>11, <1>12, TaskKeeps

LEMMA MidStep ==
    ASSUME TimesFit, ScenarioInv, NEW t \in Threads, Task(t), t[1] = "MID"
    PROVE  ScenarioInv'
  <1>1. /\ Alone(t) /\ mpc = "wait" /\ t[2] = scenario /\ Ready(t)
        /\ ScenarioTypes /\ scenario \in Scenarios /\ MidPlace(t)
    BY TaskAlone, OnlyCurrentReady DEF ScenarioInv, ScenarioTypes
  <1>2. PICK low \in Threads, high \in Threads : low = <<"LOW", scenario>> /\ high = <<"HIGH", scenario>>
    BY <1>1, ThreadOf DEF Names
  <1>3. low # t /\ high # t
    BY <1>1, <1>2, Thread, ThreadOf DEF Names
  <1>4. DelayEnds(t) \/ MidTurn(t) \/ Finish(t)
    BY <1>1 DEF Task, Take, Give, LowWorkEnds, MidPlace
  <1>5. UNCHANGED <<scenario, since, count, waited>>
    BY <1>4 DEF DelayEnds, MidTurn, Finish, semVs, mainVs
  <1>6. Age' = Age /\ pc'[low] = pc[low] /\ pc'[high] = pc[high]
    BY <1>1, <1>2, <1>3 DEF Alone, Age
  <1>7. Handover(low, high)'
    <2>1. Handover(low, high)
      BY <1>1, <1>2 DEF ScenarioInv
    <2> QED
      BY <1>5, <1>6, <2>1 DEF Handover, GiveAt
  <1>8. Place(t)'
    <2>1. /\ timer[t] \in Nat /\ turns \in [Scenarios -> Nat] /\ turns[t[2]] \in Nat /\ Age \in Int
          /\ t \in DOMAIN pc /\ t \in DOMAIN timer
      <3>1. mtimer \in Nat /\ ScenarioTime \in Nat
        BY <1>1, Times DEF ScenarioTypes
      <3> QED
        BY <1>1, <3>1 DEF ScenarioTypes, Age
    <2>2. pc[t] \in {"delay", "work"} => timer[t] = 0
      BY <1>1, <2>1 DEF Ready, Sleeping
    <2>3. {MidDelay, MidWork, MidTurns} \subseteq Nat \ {0}
      BY Times
    <2>4. CASE DelayEnds(t)
      <3>1. /\ pc[t] = "delay" /\ pc'[t] = "work" /\ timer'[t] = MidWork /\ turns' = turns
        BY <1>1, <2>1, <2>4 DEF DelayEnds
      <3>2. turns[t[2]] = 0 /\ Age = MidDelay /\ (turns[t[2]] + 1) * MidWork = MidWork
        BY <1>1, <2>1, <2>2, <2>3, <3>1 DEF MidPlace
      <3> QED
        BY <1>1, <1>6, <2>3, <3>1, <3>2 DEF Place, MidPlace
    <2>5. CASE MidTurn(t)
      <3> DEFINE next == (turns[t[2]] + 1) * MidWork
      <3>1. pc[t] = "work" /\ turns'[t[2]] = turns[t[2]] + 1 /\ turns[t[2]] < MidTurns
        BY <1>1, <2>1, <2>5 DEF MidTurn, MidPlace
      <3>2. next \in Nat /\ Age = MidDelay + next
        BY <1>1, <2>1, <2>2, <2>3, <3>1, Times, SMTT(60) DEF MidPlace
      <3>3. CASE turns[t[2]] + 1 < MidTurns
        <4>1. pc'[t] = "work" /\ timer'[t] = MidWork
          BY <2>1, <2>5, <3>1, <3>3 DEF MidTurn
        <4>2. (turns'[t[2]] + 1) * MidWork = next + MidWork
          BY <2>1, <3>1, Times
        <4> HIDE DEF next
        <4> QED
          BY <1>1, <1>6, <2>3, <3>1, <3>2, <3>3, <4>1, <4>2 DEF Place, MidPlace
      <3>4. CASE ~(turns[t[2]] + 1 < MidTurns)
        <4>1. pc'[t] = "finish" /\ turns[t[2]] + 1 = MidTurns
          BY <2>1, <2>3, <2>5, <3>1, <3>4 DEF MidTurn
        <4>2. Age = MidAt
          BY <3>2, <4>1 DEF MidAt
        <4> QED
          BY <1>1, <1>6, <4>1, <4>2 DEF Place, MidPlace, MidAt
      <3> QED
        BY <3>3, <3>4
    <2>6. CASE Finish(t)
      <3>1. pc[t] = "finish" /\ pc'[t] = "done"
        BY <2>1, <2>6 DEF Finish
      <3> QED
        BY <1>1, <1>6, <2>1, <3>1, Times DEF Place, MidPlace, MidAt
    <2> QED
      BY <1>4, <2>4, <2>5, <2>6
  <1>9. count'[1] = 0 /\ WaitIndependentOfKind'
    BY <1>5 DEF ScenarioInv, WaitIndependentOfKind
  <1> QED
    BY <1>1, <1>2, <1>5, <1>7, <1>8, <1>9, TaskKeeps

LEMMA StartKeeps == ASSUME ScenarioInv, StartScenario PROVE ScenarioInv'
  <1>1. /\ mpc = "start" /\ mpc' = "wait" /\ scenario' = scenario /\ mtimer' = ScenarioTime
        /\ resource' = scenario /\ turns' = [turns EXCEPT ![scenario] = 0]
        /\ UNCHANGED <<now, handle, since, waited>>
    BY DEF StartScenario
  <1>2. /\ sem' = [sem EXCEPT ![scenario] = "live"]
        /\ count' = [count EXCEPT ![scenario] = IF scenario = 1 THEN 0 ELSE 1]
        /\ pc' = [t \in Threads |-> IF t[2] = scenario THEN "delay" ELSE pc[t]]
        /\ timer' = [t \in Threads |-> IF t[2] = scenario THEN Start(t) ELSE timer[t]]
    BY DEF StartScenario
  <1>3. ScenarioTypes /\ scenario \in Scenarios /\ scenario \in 1..3 /\ count[1] = 0
    BY DEF ScenarioInv, ScenarioTypes, Scenarios
  <1>4. Age' = 0
    BY <1>1, Times DEF Age
  <1>5. /\ count'[1] = 0 /\ (scenario # 1 => count'[scenario] = 1) /\ sem'[scenario] = "live"
        /\ count' \in [Scenarios -> 0..1]
        /\ sem' \in [Scenarios -> {"none", "live", "deleted"}]
    <2>1. (IF scenario = 1 THEN 0 ELSE 1) \in 0..1
      OBVIOUS
    <2>2. count' \in [Scenarios -> 0..1]
      BY <1>2, <1>3, <2>1, Setting DEF ScenarioTypes
    <2> QED
      BY <1>2, <1>3, <2>2 DEF ScenarioTypes
  <1>6. ScenarioTypes'
    <2>1. \A t \in Threads : Start(t) \in Nat
      BY Thread, Times DEF Start, Names
    <2>2. timer' \in [Threads -> Nat]
      BY <1>2, <1>3, <2>1 DEF ScenarioTypes
    <2>3. pc' \in [Threads -> {"absent", "delay", "take", "work", "give", "finish", "done"}]
      BY <1>2, <1>3 DEF ScenarioTypes
    <2> QED
      BY <1>1, <1>3, <1>5, <2>2, <2>3, Times DEF ScenarioTypes
  <1>7. ASSUME NEW t \in Threads PROVE Elsewhere(t)' /\ (t[2] = scenario => Place(t)')
    <2>1. Elsewhere(t) /\ t[2] \in 1..3 /\ t[1] \in Names
      BY Thread DEF ScenarioInv, Scenarios
    <2>2. CASE t[2] = scenario
      <3>1. pc'[t] = "delay" /\ timer'[t] = Start(t)
        BY <1>2, <2>2
      <3>2. Elsewhere(t)'
        BY <1>1, <1>3, <2>2 DEF Elsewhere
      <3>3. Place(t)'
        <4>1. turns'[t[2]] = 0
          BY <1>1, <1>3, <2>2 DEF ScenarioTypes
        <4> QED
          BY <1>1, <1>4, <3>1, <4>1, Times DEF Place, LowPlace, HighPlace, MidPlace, Start
      <3> QED
        BY <3>2, <3>3
    <2>3. CASE t[2] # scenario
      <3>1. pc'[t] = pc[t]
        BY <1>2, <2>3
      <3> QED
        BY <1>1, <1>3, <2>1, <2>3, <3>1 DEF Elsewhere
    <2> QED
      BY <2>2, <2>3
  <1>8. Handover(<<"LOW", scenario>>, <<"HIGH", scenario>>)'
    <2>1. /\ <<"LOW", scenario>> \in Threads /\ <<"LOW", scenario>>[2] = scenario
          /\ <<"HIGH", scenario>> \in Threads /\ <<"HIGH", scenario>>[2] = scenario
      BY <1>3, ThreadOf DEF Names
    <2>2. pc'[<<"LOW", scenario>>] = "delay" /\ pc'[<<"HIGH", scenario>>] = "delay"
      BY <1>2, <2>1
    <2> QED
      BY <1>1, <1>5, <2>2 DEF Handover
  <1>9. WaitIndependentOfKind'
    BY <1>1 DEF ScenarioInv, WaitIndependentOfKind
  <1> QED
    <2>1. mtimer' <= ScenarioTime
      BY <1>1, Times
    <2> QED
      BY <1>1, <1>5, <1>6, <1>7, <1>8, <1>9, <2>1 DEF ScenarioInv, Place

\* When app_main's wait is over the tasks of its scenario are through, or wait
\* for the semaphore that nobody gives.
LEMMA WaitEndsKeeps == ASSUME TimesFit, ScenarioInv, WaitEnds PROVE ScenarioInv'
  <1>1. /\ mpc = "wait" /\ mpc' = "delete" /\ mtimer = 0
        /\ UNCHANGED <<now, resource, sem, count, mtimer, scenario, pc, timer, turns, handle, since, waited>>
    BY DEF WaitEnds, MainRuns, MainReady, semVs, taskVs
  <1>2. /\ ScenarioTypes /\ scenario \in Scenarios /\ scenario \in 1..3
        /\ resource = scenario /\ sem[scenario] = "live" /\ count[1] = 0
    BY <1>1 DEF ScenarioInv, ScenarioTypes, Scenarios
  <1>3. /\ Age = ScenarioTime /\ {LowDelay, HighDelay, MidDelay, GiveAt, MidAt, ScenarioTime} \subseteq Nat
        /\ LowDelay < HighDelay /\ HighDelay < GiveAt /\ GiveAt < ScenarioTime /\ MidAt < ScenarioTime
    BY <1>1, Times DEF Age, TimesFit, GiveAt, MidAt
  <1>4. PICK low \in Threads, high \in Threads : low = <<"LOW", scenario>> /\ high = <<"HIGH", scenario>>
    BY <1>2, ThreadOf DEF Names
  <1>5. Handover(low, high) /\ LowPlace(low) /\ HighPlace(high)
    BY <1>1, <1>2, <1>4, ThreadOf DEF ScenarioInv, Names
  <1>6. pc[low] = IF scenario = 1 THEN "take" ELSE "done"
    <2>1. timer[low] \in Nat
      BY <1>2 DEF ScenarioTypes
    <2>2. pc[low] \notin {"absent", "delay", "work", "give", "finish"}
      BY <1>3, <1>5, <2>1 DEF LowPlace
    <2>3. pc[low] \in {"take", "done"}
      BY <1>2, <2>2 DEF ScenarioTypes
    <2> QED
      BY <1>3, <1>5, <2>3 DEF LowPlace
  <1>7. pc[high] = IF scenario = 1 THEN "take" ELSE "done"
    <2>1. timer[high] \in Nat
      BY <1>2 DEF ScenarioTypes
    <2>2. pc[high] \notin {"absent", "delay", "work", "give", "finish"}
      BY <1>3, <1>5, <2>1 DEF HighPlace
    <2>3. pc[high] \in {"take", "done"}
      BY <1>2, <2>2 DEF ScenarioTypes
    <2>4. scenario # 1 => pc[high] # "take"
      BY <1>3, <1>5, <1>6 DEF Handover
    <2> QED
      BY <1>5, <2>3, <2>4 DEF HighPlace
  <1>8. ASSUME NEW t \in Threads, t[2] = scenario, t[1] = "MID" PROVE pc[t] = "done"
    <2>1. MidPlace(t) /\ timer[t] \in Nat
      BY <1>1, <1>2, <1>8 DEF ScenarioInv, ScenarioTypes
    <2>2. pc[t] # "delay" /\ pc[t] # "finish"
      <3>1. MidDelay < ScenarioTime
        <4>1. MidTurns * MidWork \in Nat
          BY Times
        <4> QED
          BY <1>3, <4>1 DEF MidAt
      <3> QED
        BY <1>3, <2>1, <3>1 DEF MidPlace
    <2>3. pc[t] # "work"
      <3> SUFFICES ASSUME pc[t] = "work" PROVE FALSE
        OBVIOUS
      <3>0. turns[t[2]] \in Nat /\ turns[t[2]] < MidTurns /\ {MidTurns, MidWork} \subseteq Nat
        <4>1. turns[t[2]] \in Nat
          BY <1>2, Thread DEF ScenarioTypes
        <4> QED
          BY <2>1, <4>1, Times DEF MidPlace
      <3>1. turns[t[2]] + 1 \in Nat /\ turns[t[2]] + 1 <= MidTurns /\ {MidTurns, MidWork} \subseteq Nat
        BY <3>0
      <3>2. (turns[t[2]] + 1) * MidWork <= MidTurns * MidWork
        BY <3>1
      <3>3. (turns[t[2]] + 1) * MidWork \in Nat /\ MidTurns * MidWork \in Nat
        BY <3>1, Times
      <3>4. timer[t] = MidDelay + (turns[t[2]] + 1) * MidWork - ScenarioTime
        BY <1>3, <2>1 DEF MidPlace
      <3> QED
        BY <1>3, <2>1, <3>2, <3>3, <3>4 DEF MidAt
    <2> QED
      BY <2>1, <2>2, <2>3 DEF MidPlace
  <1>9. ASSUME NEW t \in Threads PROVE Elsewhere(t)'
    <2>1. Elsewhere(t) /\ t[2] \in 1..3 /\ t[1] \in {"LOW", "MID", "HIGH"} /\ t = <<t[1], t[2]>>
      BY Thread DEF ScenarioInv, Names, Scenarios
    <2>2. CASE t[2] # scenario
      BY <1>1, <1>2, <2>1, <2>2 DEF Elsewhere
    <2>3. CASE t[2] = scenario
      <3>1. t[1] = "LOW" => t = low
        BY <1>4, <2>1, <2>3
      <3>2. t[1] = "HIGH" => t = high
        BY <1>4, <2>1, <2>3
      <3>3. t[1] \in {"LOW", "HIGH"} /\ scenario = 1 => pc[t] = "take" /\ handle[t] = 1
        BY <1>5, <1>6, <1>7, <3>1, <3>2 DEF LowPlace, HighPlace
      <3>4. t[1] \in {"LOW", "HIGH"} /\ scenario # 1 => pc[t] = "done"
        BY <1>6, <1>7, <3>1, <3>2
      <3>5. t[1] = "MID" => pc[t] = "done"
        BY <1>8, <2>3
      <3> QED
        BY <1>1, <1>2, <2>1, <2>3, <3>3, <3>4, <3>5 DEF Elsewhere
    <2> QED
      BY <2>2, <2>3
  <1>10. ScenarioTypes' /\ WaitIndependentOfKind'
    BY <1>1 DEF ScenarioInv, ScenarioTypes, WaitIndependentOfKind
  <1> QED
    BY <1>1, <1>2, <1>9, <1>10 DEF ScenarioInv

LEMMA DeleteKeeps == ASSUME ScenarioInv, DeleteSemaphore PROVE ScenarioInv'
  <1>1. /\ mpc = "delete" /\ mtimer' = GapTime
        /\ mpc' = (CASE scenario = 1 -> "start" [] scenario = 2 -> "gap" [] scenario = 3 -> "returned")
        /\ scenario' = (IF scenario < 3 THEN scenario + 1 ELSE scenario)
        /\ UNCHANGED <<now, resource, count, pc, timer, turns, handle, since, waited>>
    BY DEF DeleteSemaphore, taskVs
  <1>2. sem' = [sem EXCEPT ![scenario] = "deleted"]
    BY DEF DeleteSemaphore
  <1>3. ScenarioTypes /\ count[1] = 0 /\ scenario \in {1, 2, 3}
    BY DEF ScenarioInv, ScenarioTypes, Scenarios
  <1>4. /\ scenario = 3 => mpc' = "returned" /\ scenario' = 3
        /\ scenario # 3 => mpc' \in {"start", "gap"} /\ scenario' = scenario + 1
    BY <1>1, <1>3
  <1>5. ASSUME NEW t \in Threads PROVE Elsewhere(t)'
    <2>1. Elsewhere(t) /\ t[2] \in 1..3
      BY Thread DEF ScenarioInv, Scenarios
    <2> QED
      BY <1>1, <1>3, <1>4, <2>1 DEF Elsewhere
  <1>6. ScenarioTypes'
    <2>1. sem' \in [Scenarios -> {"none", "live", "deleted"}]
      BY <1>2, <1>3 DEF ScenarioTypes
    <2>2. scenario' \in Scenarios /\ mpc' \in {"start", "wait", "delete", "gap", "returned"}
      BY <1>3, <1>4 DEF Scenarios
    <2>3. mtimer' \in Nat
      BY <1>1, Times
    <2> QED
      BY <1>1, <1>3, <2>1, <2>2, <2>3 DEF ScenarioTypes
  <1>7. WaitIndependentOfKind'
    BY <1>1 DEF ScenarioInv, WaitIndependentOfKind
  <1> QED
    BY <1>1, <1>3, <1>4, <1>5, <1>6, <1>7 DEF ScenarioInv

LEMMA GapEndsKeeps == ASSUME ScenarioInv, GapEnds PROVE ScenarioInv'
  <1>1. /\ mpc = "gap" /\ mpc' = "start"
        /\ UNCHANGED <<now, sem, count, mtimer, scenario, pc, timer, turns, handle, since, waited>>
    BY DEF GapEnds, semVs, taskVs
  <1>2. \A t \in Threads : Elsewhere(t)'
    BY <1>1 DEF ScenarioInv, Elsewhere
  <1> QED
    BY <1>1, <1>2 DEF ScenarioInv, ScenarioTypes, WaitIndependentOfKind

\* A unit passes when every task of the scenario sleeps, waits or is through.
LEMMA TickKeeps == ASSUME TimesFit, ScenarioInv, Tick PROVE ScenarioInv'
  <1>1. /\ \A t \in Threads : ~Ready(t)
        /\ mpc \notin {"start", "delete"} /\ ~(mpc \in {"wait", "gap"} /\ mtimer = 0)
        /\ now' = now + 1
        /\ timer' = [t \in Threads |-> Countdown(timer[t])]
        /\ UNCHANGED <<resource, sem, count, mpc, scenario, pc, turns, handle, since, waited>>
    BY DEF Tick, MainReady, semVs
  <1>2. mtimer' = Countdown(mtimer)
    BY DEF Tick
  <1>3. ScenarioTypes /\ scenario \in {1, 2, 3} /\ count[1] = 0
    BY DEF ScenarioInv, ScenarioTypes, Scenarios
  <1>4. \A n \in Nat : Countdown(n) \in Nat /\ (n > 0 => Countdown(n) = n - 1)
    BY DEF Countdown
  <1>5. ScenarioTypes'
    <2>1. timer' \in [Threads -> Nat] /\ mtimer' \in Nat /\ now' \in Nat
      BY <1>1, <1>2, <1>3, <1>4 DEF ScenarioTypes
    <2> QED
      BY <1>1, <1>3, <2>1 DEF ScenarioTypes
  <1>6. \A t \in Threads : Elsewhere(t)'
    BY <1>1 DEF ScenarioInv, Elsewhere
  <1>7. WaitIndependentOfKind'
    BY <1>1 DEF ScenarioInv, WaitIndependentOfKind
  <1>8. CASE mpc = "wait"
    <2>1. /\ mtimer \in Nat /\ mtimer > 0 /\ mtimer' = mtimer - 1 /\ mtimer <= ScenarioTime
          /\ resource = scenario /\ sem[scenario] = "live" /\ ScenarioTime \in Nat
      BY <1>1, <1>2, <1>3, <1>4, <1>8, Times DEF ScenarioInv, ScenarioTypes
    <2>2. Age \in Int /\ Age' = Age + 1
      BY <2>1, Times DEF Age
    <2>3. PICK low \in Threads, high \in Threads : low = <<"LOW", scenario>> /\ high = <<"HIGH", scenario>>
      BY <1>3, ThreadOf DEF Names, Scenarios
    <2>4. Handover(low, high) /\ LowPlace(low) /\ HighPlace(high)
      BY <1>3, <1>8, <2>3, ThreadOf DEF ScenarioInv, Names, Scenarios
    <2>5. ASSUME NEW t \in Threads, t[2] = scenario
          PROVE  /\ timer[t] \in Nat
                 /\ pc[t] \in {"absent", "delay", "take", "work", "done"}
                 /\ pc[t] \in {"delay", "work"} => timer[t] > 0 /\ timer'[t] = timer[t] - 1
                 /\ pc[t] = "take" => count[scenario] = 0
      <3>1. ~Ready(t) /\ timer[t] \in Nat
            /\ pc[t] \in {"absent", "delay", "take", "work", "give", "finish", "done"}
        BY <1>1, <1>3 DEF ScenarioTypes
      <3>2. pc[t] = "take" => handle[t] = scenario
        <4>1. Place(t) /\ t[1] \in {"LOW", "MID", "HIGH"}
          BY <1>8, <2>5, Thread DEF ScenarioInv, Place, Names
        <4> QED
          BY <4>1 DEF Place, LowPlace, HighPlace, MidPlace
      <3>3. timer'[t] = Countdown(timer[t])
        BY <1>1
      <3>4. pc[t] \in {"delay", "work"} => timer[t] > 0
        BY <3>1 DEF Ready, Sleeping, Waits
      <3> QED
        BY <1>4, <2>1, <3>1, <3>2, <3>3, <3>4 DEF Ready, Sleeping, Waits
    <2>6. ~(scenario # 1 /\ pc[low] = "take")
      BY <2>3, <2>4, <2>5, <1>3, ThreadOf DEF Handover, Names, Scenarios
    <2>7. ~(scenario # 1 /\ pc[low] \in {"finish", "done"} /\ pc[high] = "take")
      BY <2>3, <2>4, <2>5, <1>3, ThreadOf DEF Handover, Names, Scenarios
    <2>8. Handover(low, high)'
      BY <1>1, <2>4, <2>6, <2>7 DEF Handover
    <2>9. ASSUME NEW t \in Threads, t[2] = scenario PROVE Place(t)'
      <3>1. Place(t) /\ t = <<t[1], t[2]>>
        BY <1>8, <2>9, Thread DEF ScenarioInv, Place
      <3>2. {LowDelay, HighDelay, MidDelay, GiveAt, MidAt} \subseteq Nat
        BY Times
      <3>3. t[1] = "LOW" => LowPlace(t)'
        <4>1. t[1] = "LOW" => t = low
          BY <2>3, <2>9, <3>1
        <4> QED
          BY <1>1, <2>2, <2>5, <2>6, <2>9, <3>1, <3>2, <4>1 DEF Place, LowPlace, GiveAt
      <3>4. t[1] = "HIGH" => HighPlace(t)'
        <4>1. now \in Nat /\ since[t[2]] \in Nat
          BY <1>3, Thread DEF ScenarioTypes
        <4> QED
          BY <1>1, <2>2, <2>5, <2>9, <3>1, <3>2, <4>1 DEF Place, HighPlace, GiveAt
      <3>5. t[1] = "MID" => MidPlace(t)'
        <4> DEFINE next == (turns[t[2]] + 1) * MidWork
        <4>1. next \in Nat
          <5>1. turns[t[2]] + 1 \in Nat
            BY <1>3, Thread DEF ScenarioTypes
          <5> QED
            BY <5>1, Times
        <4>2. pc[t] = "work" /\ t[1] = "MID" => timer[t] = MidDelay + next - Age
          BY <3>1 DEF Place, MidPlace
        <4> HIDE DEF next
        <4>3. pc[t] = "work" /\ t[1] = "MID" => timer'[t] = MidDelay + next - Age'
          BY <2>2, <2>5, <2>9, <3>2, <4>1, <4>2
        <4>4. pc[t] = "work" /\ t[1] = "MID" => timer'[t] = MidDelay + (turns'[t[2]] + 1) * MidWork - Age'
          BY <1>1, <4>3 DEF next
        <4>5. pc[t] = "delay" /\ t[1] = "MID" => timer'[t] = MidDelay - Age' /\ turns'[t[2]] = 0
          BY <1>1, <2>2, <2>5, <2>9, <3>1, <3>2 DEF Place, MidPlace
        <4>6. pc[t] = "done" /\ t[1] = "MID" => Age' >= MidAt
          BY <2>2, <3>1, <3>2 DEF Place, MidPlace
        <4>7. MidAt' = MidAt
          BY DEF MidAt
        <4> QED
          BY <1>1, <2>5, <2>9, <3>1, <4>4, <4>5, <4>6, <4>7 DEF Place, MidPlace
      <3> QED
        BY <3>3, <3>4, <3>5 DEF Place
    <2>10. mtimer' <= ScenarioTime
      BY <2>1
    <2>11. Handover(<<"LOW", scenario>>, <<"HIGH", scenario>>)'
      BY <1>1, <2>3, <2>8
    <2> QED
      BY <1>1, <1>3, <1>5, <1>6, <1>7, <1>8, <2>1, <2>9, <2>10, <2>11 DEF ScenarioInv, Place
  <1>9. CASE mpc # "wait"
    <2>1. mpc' # "wait" /\ mpc' # "delete"
      BY <1>1, <1>9
    <2> QED
      BY <1>1, <1>3, <1>5, <1>6, <1>7, <2>1 DEF ScenarioInv
  <1> QED
    BY <1>8, <1>9

LEMMA ScenarioStep ==
    ASSUME TimesFit, ScenarioInv, Next \/ UNCHANGED vars PROVE ScenarioInv'
  <1>1. ASSUME NEW t \in Threads, Task(t) PROVE ScenarioInv'
    <2>1. t[1] \in {"LOW", "MID", "HIGH"}
      BY Thread DEF Names
    <2> QED
      BY <1>1, <2>1, LowStep, MidStep, HighStep
  <1>2. CASE UNCHANGED vars
    <2>1. Age' = Age
      BY <1>2 DEF Age, vars, mainVs
    <2>2. ASSUME NEW t \in Threads PROVE Elsewhere(t)' /\ (mpc = "wait" /\ t[2] = scenario => Place(t)')
      BY <1>2, <2>1 DEF vars, mainVs, taskVs, semVs, ScenarioInv, Elsewhere, Place, LowPlace, HighPlace,
           MidPlace, GiveAt, MidAt
    <2>3. mpc = "wait" => Handover(<<"LOW", scenario>>, <<"HIGH", scenario>>)'
      BY <1>2, <2>1 DEF vars, mainVs, taskVs, semVs, ScenarioInv, Handover, GiveAt
    <2>4. ScenarioTypes' /\ WaitIndependentOfKind'
      BY <1>2 DEF vars, mainVs, taskVs, semVs, ScenarioInv, ScenarioTypes, WaitIndependentOfKind
    <2> QED
      BY <1>2, <2>2, <2>3, <2>4 DEF vars, mainVs, taskVs, semVs, ScenarioInv, Place
  <1> QED
    BY <1>1, <1>2, StartKeeps, WaitEndsKeeps, DeleteKeeps, GapEndsKeeps, TickKeeps
       DEF Next, MainTask, Idle

LEMMA ScenarioInit == BoardInit => ScenarioInv
  <1> SUFFICES ASSUME Init PROVE ScenarioInv
    BY DEF BoardInit
  <1>1. ScenarioTypes
    BY DEF Init, ScenarioTypes, Scenarios, Unset
  <1>2. \A t \in Threads : Elsewhere(t)
    BY Thread DEF Init, Elsewhere, Scenarios
  <1> QED
    BY <1>1, <1>2 DEF Init, ScenarioInv, WaitIndependentOfKind, Scenarios

LEMMA ScenarioAlways == ASSUME TimesFit PROVE BoardSpec => []ScenarioInv
  <1>1. ScenarioInv /\ [BoardNext]_boardVars => ScenarioInv'
    <2>1. [BoardNext]_boardVars => Next \/ UNCHANGED vars
      BY DEF BoardNext, boardVars, PriorityInversionStep, SensorQueueStep, EventGroupsStep,
             WatchdogStep, TasksStep
    <2> QED
      BY <2>1, ScenarioStep
  <1> QED
    BY <1>1, ScenarioInit, PTL DEF BoardSpec

\* HIGH waits for the rest of LOW's sleep and not a tick longer, with a binary
\* semaphore as with a mutex, for all times with which run_scenario waits long
\* enough.  No step of the proof looks at a priority.
THEOREM InheritanceUnused ==
    ASSUME TimesFit PROVE BoardSpec => []WaitIndependentOfKind
  <1>1. ScenarioInv => WaitIndependentOfKind
    BY DEF ScenarioInv
  <1> QED
    BY <1>1, ScenarioAlways, PTL

\* No task of a scenario meets the g_resource of another one.
THEOREM OwnSemaphores ==
    ASSUME TimesFit PROVE BoardSpec => []OwnSemaphoreOnly
  <1>1. ScenarioInv => OwnSemaphoreOnly
    <2> SUFFICES ASSUME ScenarioInv, NEW t \in Threads,
                        pc[t] \in {"take", "give"} \/ (pc[t] = "work" /\ t[1] = "LOW")
                 PROVE  handle[t] = t[2] /\ (pc[t] = "give" => resource = t[2])
      BY DEF OwnSemaphoreOnly
    <2>1. Elsewhere(t) /\ t[1] \in {"LOW", "MID", "HIGH"} /\ t[2] \in 1..3 /\ scenario \in 1..3
          /\ mpc \in {"start", "wait", "delete", "gap", "returned"}
      BY Thread DEF ScenarioInv, ScenarioTypes, Names, Scenarios
    <2>2. CASE t[2] = scenario /\ mpc = "wait"
      <3>1. Place(t) /\ resource = scenario
        BY <2>2 DEF ScenarioInv, Place
      <3> QED
        BY <2>1, <2>2, <3>1 DEF Place, LowPlace, HighPlace, MidPlace
    <2>3. CASE ~(t[2] = scenario /\ mpc = "wait")
      BY <2>1, <2>3 DEF Elsewhere
    <2> QED
      BY <2>2, <2>3
  <1> QED
    BY <1>1, ScenarioAlways, PTL

\* In the scenarios whose semaphore can be taken all tasks have finished when it
\* is deleted.
THEOREM WaitLongEnough ==
    ASSUME TimesFit PROVE BoardSpec => []GivenScenariosFinish
  <1>1. ScenarioInv => GivenScenariosFinish
    <2> SUFFICES ASSUME ScenarioInv, mpc = "delete", scenario # 1, NEW n \in Names
                 PROVE  pc[<<n, scenario>>] = "done"
      BY DEF GivenScenariosFinish
    <2>1. scenario \in Scenarios
      BY DEF ScenarioInv, ScenarioTypes
    <2>2. <<n, scenario>> \in Threads /\ <<n, scenario>>[2] = scenario
      BY <2>1, ThreadOf
    <2>3. Elsewhere(<<n, scenario>>)
      BY <2>2 DEF ScenarioInv
    <2> QED
      BY <2>2, <2>3 DEF Elsewhere
  <1> QED
    BY <1>1, ScenarioAlways, PTL

-----------------------------------------------------------------------------
(* 04: the backlog of the queue *)

\* The producers that have sent since they were created, by their place
Sent == {k \in 1..Len(Producers) : ppc[Producers[k]] = "delay"}

\* A task is absent until app_main creates it, and what is sent has a number.
Uncreated ==
    /\ \A k \in 1..Len(Producers) : k > created => ppc[Producers[k]] = "absent"
    /\ created <= Len(Producers) => q_cpc = "absent"
    /\ \A s \in Q!SensorIds : ppc[s] = "send" => iter[s] >= 1

\* While app_main is ready no time passes, so that each producer sends once.
SendsOnce ==
    q_cpc = "absent" =>
        /\ Len(queue) = Cardinality(Sent) /\ total = 0
        /\ \A s \in Q!SensorIds : ppc[s] \in {"send", "delay"} => ptimer[s] > 0
        /\ created <= Len(Producers) \/ \A s \in Q!SensorIds : ppc[s] = "absent"

\* The consumer takes each packet before the next is sent, once it has caught up
\* with what it found.
CatchesUp ==
    q_cpc # "absent" =>
        \/ Len(queue) <= 1
        \/ total + (IF q_cpc = "count" THEN 1 ELSE 0) + Len(queue) <= Len(Producers)

BacklogInv ==
    /\ Q!TypeOK /\ ptimer \in [Q!SensorIds -> Nat]
    /\ Uncreated /\ SendsOnce /\ CatchesUp

LEMMA QueueConstants ==
    /\ Len(Producers) \in Nat
    /\ \A k \in 1..Len(Producers) : Producers[k] \in Q!SensorIds
    /\ \A s \in Q!SensorIds : \E k \in 1..Len(Producers) : Producers[k] = s
    /\ \A k, m \in 1..Len(Producers) : Producers[k] = Producers[m] => k = m
    /\ QUEUE_DEPTH \in Nat /\ MaxIter \in Nat /\ SendWait \in Nat \ {0}
    /\ \A s \in Q!SensorIds : Period[s] \in Nat \ {0}
  BY BoardAssumption DEF Q!SensorQueueAssumption, Q!TimedAssumption, Q!SensorIds

LEMMA SentFinite == IsFiniteSet(Sent) /\ Cardinality(Sent) \in 0..Len(Producers)
  <1>0. Len(Producers) \in Nat
    BY QueueConstants
  <1>1. IsFiniteSet(1..Len(Producers)) /\ Cardinality(1..Len(Producers)) = Len(Producers)
    <2>1. \A n \in Nat : IsFiniteSet(1..n) /\ Cardinality(1..n) = n
      BY FS_Interval
    <2> QED
      BY <1>0, <2>1
  <1>2. Sent \in SUBSET (1..Len(Producers))
    BY DEF Sent
  <1>3. IsFiniteSet(Sent) /\ Cardinality(Sent) <= Cardinality(1..Len(Producers))
    BY <1>1, <1>2, FS_Subset
  <1> QED
    BY <1>0, <1>1, <1>3, FS_CardinalityType

\* A send makes one more of them.
LEMMA SendCounts ==
    ASSUME Q!TypeOK, NEW s \in Q!SensorIds, Q!SendSucceeds(s)
    PROVE  Cardinality(Sent') = Cardinality(Sent) + 1
  <1>1. PICK k \in 1..Len(Producers) : Producers[k] = s
    BY QueueConstants
  <1>2. k \notin Sent
    BY <1>1 DEF Sent, Q!SendSucceeds
  <1>3. /\ ppc' = [ppc EXCEPT ![s] = "delay"]
        /\ ppc \in [Q!SensorIds -> {"absent", "ready", "send", "delay"}]
        /\ \A m \in 1..Len(Producers) :
              Producers[m] \in Q!SensorIds /\ (Producers[m] = s => m = k)
    BY <1>1, QueueConstants DEF Q!SendSucceeds, Q!TypeOK
  <1>4. Sent' = Sent \cup {k}
    BY <1>1, <1>3 DEF Sent
  <1> QED
    BY <1>2, <1>4, SentFinite, FS_AddElement

LEMMA QueueTypes ==
    ASSUME Q!TypeOK, Uncreated, Q!Next PROVE Q!TypeOK' /\ Uncreated'
  <1>0. /\ Len(Producers) \in Nat /\ MaxIter \in Nat /\ QUEUE_DEPTH \in Nat
        /\ \A k \in 1..Len(Producers) : Producers[k] \in Q!SensorIds
        /\ \A k, m \in 1..Len(Producers) : Producers[k] = Producers[m] => k = m
    BY QueueConstants
  <1> USE <1>0 DEF Q!TypeOK, Q!prodVs, Q!consVs, Uncreated
  <1>1. CASE Q!CreateProducer
    BY <1>1 DEF Q!CreateProducer
  <1>2. CASE Q!QueueCreateFails \/ Q!CreateConsumer
    BY <1>2 DEF Q!QueueCreateFails, Q!CreateConsumer
  <1>3. CASE Q!Receive
    <2>1. Head(queue) \in Q!Packets /\ Tail(queue) \in Seq(Q!Packets)
          /\ Len(Tail(queue)) = Len(queue) - 1 /\ Len(queue) \in Nat
      BY <1>3, HeadTailProperties, LenProperties DEF Q!Receive
    <2> QED
      BY <1>3, <2>1 DEF Q!Receive
  <1>4. CASE Q!Count
    BY <1>4, SMTT(60) DEF Q!Count, Q!Packets
  <1>5. CASE Q!ReceiveTimesOut \/ Q!PrintSummary
    BY <1>5 DEF Q!ReceiveTimesOut, Q!PrintSummary
  <1>6. ASSUME NEW s \in Q!SensorIds, Q!Produce(s) PROVE Q!TypeOK' /\ Uncreated'
    <2>1. iter' \in [Q!SensorIds -> 0..MaxIter] /\ iter'[s] >= 1
      BY <1>6 DEF Q!Produce
    <2>2. \A r \in Q!SensorIds : r # s => iter'[r] = iter[r] /\ ppc'[r] = ppc[r]
      BY <1>6 DEF Q!Produce
    <2>3. Q!TypeOK'
      BY <1>6, <2>1 DEF Q!Produce
    <2>4. Uncreated'
      BY <1>6, <2>1, <2>2 DEF Q!Produce
    <2> QED
      BY <2>3, <2>4
  <1>7. ASSUME NEW s \in Q!SensorIds, Q!SendSucceeds(s) PROVE Q!TypeOK' /\ Uncreated'
    <2> DEFINE p == [sensor_id |-> s, iter |-> iter[s]]
    <2>1. p \in Q!Packets
      BY <1>7 DEF Q!SendSucceeds, Q!Packets
    <2>2. Append(queue, p) \in Seq(Q!Packets) /\ Len(Append(queue, p)) = Len(queue) + 1
      BY <2>1, AppendProperties
    <2>3. Q!TypeOK'
      BY <1>7, <2>2 DEF Q!SendSucceeds
    <2>4. Uncreated'
      BY <1>7 DEF Q!SendSucceeds
    <2> QED
      BY <2>3, <2>4
  <1>8. ASSUME NEW s \in Q!SensorIds, Q!SendTimesOut(s) PROVE Q!TypeOK' /\ Uncreated'
    BY <1>8, SMTT(60) DEF Q!SendTimesOut
  <1>9. ASSUME NEW s \in Q!SensorIds, Q!DelayEnds(s) PROVE Q!TypeOK' /\ Uncreated'
    BY <1>9, SMTT(60) DEF Q!DelayEnds
  <1> QED
    BY <1>1, <1>2, <1>3, <1>4, <1>5, <1>6, <1>7, <1>8, <1>9
       DEF Q!Next, Q!AppMain, Q!Consumer, Q!Producer

LEMMA QueueTypesKept ==
    ASSUME Q!TypeOK, Uncreated, Q!TimedNext \/ UNCHANGED qVars PROVE Q!TypeOK' /\ Uncreated'
  <1>1. CASE UNCHANGED Q!vars
    BY <1>1 DEF Q!vars, Q!TypeOK, Uncreated, Q!prodVs, Q!consVs
  <1>2. Q!Next \/ UNCHANGED Q!vars
    BY DEF Q!TimedNext, Q!TimedMain, Q!TimedConsumer, Q!Tick, Q!TimedProducer,
           Q!TimedProduce, Q!TimedSend, Q!TimedDelayEnds, Q!Next, Q!Consumer, Q!Producer,
           qVars, Q!vars, Q!prodVs, Q!consVs
  <1> QED
    BY <1>1, <1>2, QueueTypes

LEMMA BacklogStep ==
    ASSUME ConsumerPrio > ProducerPrio, BacklogInv, Q!TimedNext \/ UNCHANGED qVars
    PROVE  BacklogInv'
  <1>types. Q!TypeOK' /\ Uncreated'
    BY QueueTypesKept DEF BacklogInv
  <1>timers. ptimer' \in [Q!SensorIds -> Nat]
    <2>1. ptimer \in [Q!SensorIds -> Nat]
      BY DEF BacklogInv
    <2>2. CASE Q!Tick
      <3>1. \A s \in Q!SensorIds : Q!Countdown(ptimer[s]) \in Nat
        BY <2>1 DEF Q!Countdown
      <3> QED
        BY <2>2, <3>1 DEF Q!Tick
    <2>3. CASE ~Q!Tick
      BY <2>1, <2>3, QueueConstants
         DEF Q!TimedNext, Q!TimedMain, Q!TimedConsumer, Q!TimedProducer, Q!TimedProduce,
             Q!TimedSend, Q!TimedDelayEnds, qVars
    <2> QED
      BY <2>2, <2>3
  <1> SUFFICES SendsOnce' /\ CatchesUp'
    BY <1>types, <1>timers DEF BacklogInv
  <1>0. /\ Len(queue) \in Nat /\ queue \in Seq(Q!Packets) /\ Len(Producers) \in Nat
        /\ Cardinality(Sent) \in 0..Len(Producers)
        /\ created \in 0..(Len(Producers) + 2) /\ total \in Nat
        /\ ppc \in [Q!SensorIds -> {"absent", "ready", "send", "delay"}]
        /\ \A s \in Q!SensorIds : \E k \in 1..Len(Producers) : Producers[k] = s
        /\ \A k \in 1..Len(Producers) : Producers[k] \in Q!SensorIds
        /\ ptimer \in [Q!SensorIds -> Nat]
        /\ Uncreated /\ SendsOnce /\ CatchesUp
    BY SentFinite, LenProperties, QueueConstants DEF BacklogInv, Q!TypeOK
  <1> USE <1>0 DEF Q!prodVs, Q!consVs, Q!consVs, Q!vars
  <1>1. CASE Q!QueueCreateFails /\ Q!TimedMain
    <2>1. UNCHANGED <<queue, ppc, q_cpc, total, ptimer>> /\ created = 0
      BY <1>1 DEF Q!QueueCreateFails, Q!TimedMain
    <2>2. Sent' = Sent /\ \A s \in Q!SensorIds : ppc[s] = "absent"
      BY <2>1 DEF Sent, Uncreated
    <2> QED
      BY <2>1, <2>2 DEF SendsOnce, CatchesUp
  <1>2. CASE Q!CreateProducer /\ Q!TimedMain
    <2>1. /\ UNCHANGED <<queue, q_cpc, total, ptimer>> /\ created + 1 \in 1..Len(Producers)
          /\ ppc' = [ppc EXCEPT ![Producers[created + 1]] = "ready"]
          /\ created' = created + 1
      BY <1>2 DEF Q!CreateProducer, Q!TimedMain
    <2>2. ppc[Producers[created + 1]] = "absent"
      BY <2>1 DEF Uncreated
    <2>3. Sent' = Sent
      BY <2>1, <2>2 DEF Sent
    <2> QED
      BY <2>1, <2>3 DEF SendsOnce, CatchesUp
  <1>3. CASE Q!CreateConsumer /\ Q!TimedMain
    BY <1>3 DEF Q!CreateConsumer, Q!TimedMain, Uncreated, SendsOnce, CatchesUp
  <1>4. CASE Q!TimedConsumer
    <2>1. UNCHANGED <<created, ppc, ptimer>> /\ q_cpc # "absent" /\ q_cpc' # "absent"
      BY <1>4 DEF Q!TimedConsumer, Q!Receive, Q!ReceiveTimesOut, Q!Count, Q!PrintSummary
    <2>2. CASE Q!Receive
      <3>1. Len(queue') = Len(queue) - 1
        BY <2>2, HeadTailProperties DEF Q!Receive
      <3> QED
        BY <2>1, <2>2, <3>1 DEF Q!Receive, SendsOnce, CatchesUp
    <2>3. CASE ~Q!Receive
      BY <1>4, <2>1, <2>3
         DEF Q!TimedConsumer, Q!ReceiveTimesOut, Q!Count, Q!PrintSummary, SendsOnce, CatchesUp
    <2> QED
      BY <2>2, <2>3
  <1>5. ASSUME NEW s \in Q!SensorIds, Q!Produce(s), Q!TimedProducer(s)
        PROVE  SendsOnce' /\ CatchesUp'
    <2>1. /\ UNCHANGED <<queue, q_cpc, total, created>> /\ ppc[s] = "ready"
          /\ ppc' = [ppc EXCEPT ![s] = "send"]
      BY <1>5 DEF Q!Produce
    <2>2. ptimer' = [ptimer EXCEPT ![s] = SendWait]
      BY <1>5, <2>1
         DEF Q!TimedProducer, Q!TimedProduce, Q!TimedSend, Q!TimedDelayEnds,
             Q!SendSucceeds, Q!SendTimesOut, Q!DelayEnds
    <2>3. Sent' = Sent
      BY <2>1 DEF Sent
    <2>4. \A r \in Q!SensorIds : r # s => ppc'[r] = ppc[r] /\ ptimer'[r] = ptimer[r]
      BY <2>1, <2>2
    <2> QED
      BY <2>1, <2>2, <2>3, <2>4, QueueConstants DEF SendsOnce, CatchesUp
  <1>6. ASSUME NEW s \in Q!SensorIds, Q!SendSucceeds(s), Q!TimedProducer(s)
        PROVE  SendsOnce' /\ CatchesUp'
    <2>1. /\ UNCHANGED <<q_cpc, total, created>> /\ ppc[s] = "send"
          /\ ppc' = [ppc EXCEPT ![s] = "delay"]
          /\ Len(queue') = Len(queue) + 1
      BY <1>6 DEF Q!SendSucceeds
    <2>2. ptimer' = [ptimer EXCEPT ![s] = Period[s]]
      BY <1>6, <2>1
         DEF Q!TimedProducer, Q!TimedProduce, Q!TimedSend, Q!TimedDelayEnds,
             Q!Produce, Q!DelayEnds
    <2>3. Cardinality(Sent') = Cardinality(Sent) + 1
      BY <1>6, SendCounts DEF BacklogInv
    <2>4. \A r \in Q!SensorIds : r # s => ppc'[r] = ppc[r] /\ ptimer'[r] = ptimer[r]
      BY <2>1, <2>2
    <2>5. q_cpc # "absent" => queue = <<>>
      <3>1. \A q \in Q!ReadyPrios : q <= ProducerPrio
        BY <1>6 DEF Q!TimedProducer, Q!Highest
      <3>2. ConsumerPrio \in Nat /\ ProducerPrio \in Nat
        BY BoardAssumption DEF Q!TimedAssumption
      <3>3. ConsumerPrio \notin Q!ReadyPrios
        BY <3>1, <3>2
      <3>4. ~Q!ConsumerReady
        BY <3>3 DEF Q!ReadyPrios
      <3> QED
        BY <3>4 DEF Q!ConsumerReady, BacklogInv, Q!TypeOK
    <2> QED
      BY <2>1, <2>2, <2>3, <2>4, <2>5, QueueConstants DEF SendsOnce, CatchesUp
  <1>7. ASSUME NEW s \in Q!SensorIds, Q!SendTimesOut(s) \/ Q!DelayEnds(s), Q!TimedProducer(s)
        PROVE  SendsOnce' /\ CatchesUp'
    <2>1. UNCHANGED <<queue, q_cpc, total, created>> /\ ppc[s] \in {"send", "delay"}
      BY <1>7 DEF Q!SendTimesOut, Q!DelayEnds
    <2>2. ptimer[s] = 0
      BY <1>7
         DEF Q!TimedProducer, Q!TimedProduce, Q!TimedSend, Q!TimedDelayEnds,
             Q!SendSucceeds, Q!SendTimesOut, Q!DelayEnds, Q!Produce
    <2>3. q_cpc # "absent"
      BY <2>1, <2>2 DEF SendsOnce
    <2> QED
      BY <2>1, <2>3 DEF SendsOnce, CatchesUp
  <1>8. CASE Q!Tick
    <2>1. UNCHANGED <<queue, ppc, q_cpc, total, created>> /\ ~Q!MainReady
      BY <1>8 DEF Q!Tick, Q!ReadyPrios
    <2>2. q_cpc = "absent" => \A s \in Q!SensorIds : ppc[s] = "absent"
      BY <2>1 DEF Q!MainReady, SendsOnce
    <2>3. Sent' = Sent
      BY <2>1 DEF Sent
    <2> QED
      BY <2>1, <2>2, <2>3 DEF SendsOnce, CatchesUp
  <1>9. CASE UNCHANGED qVars
    <2>1. Sent' = Sent
      BY <1>9 DEF qVars, Sent
    <2> QED
      BY <1>9, <2>1 DEF qVars, SendsOnce, CatchesUp
  <1> QED
    BY <1>1, <1>2, <1>3, <1>4, <1>5, <1>6, <1>7, <1>8, <1>9
       DEF Q!TimedNext, Q!TimedMain, Q!AppMain, Q!TimedProducer, Q!TimedProduce,
           Q!TimedSend, Q!TimedDelayEnds

LEMMA BacklogInit == Q!TimedInit => BacklogInv
  <1> SUFFICES ASSUME Q!TimedInit PROVE BacklogInv
    OBVIOUS
  <1>1. Q!TypeOK /\ Uncreated
    BY QueueConstants DEF Q!TimedInit, Q!Init, Q!TypeOK, Uncreated
  <1>2. Sent = {}
    BY QueueConstants DEF Q!TimedInit, Q!Init, Sent
  <1>3. Cardinality(Sent) = 0
    BY <1>2, FS_EmptySet
  <1> QED
    BY <1>1, <1>3 DEF BacklogInv, SendsOnce, CatchesUp, Q!TimedInit, Q!Init

\* With the consumer above the producers, the queue never holds more than one
\* packet of each producer, and once the consumer has caught up with the first
\* of each it never holds more than one in all: for any producers and periods,
\* any depth and any timeouts.
THEOREM QueueStaysShort ==
    ASSUME ConsumerPrio > ProducerPrio PROVE BoardSpec => []BacklogOnlyAtStart
  <1>1. BoardInit => BacklogInv
    BY BacklogInit DEF BoardInit
  <1>2. BacklogInv /\ [BoardNext]_boardVars => BacklogInv'
    <2>1. [BoardNext]_boardVars => Q!TimedNext \/ UNCHANGED qVars
      BY DEF BoardNext, boardVars, PriorityInversionStep, SensorQueueStep, EventGroupsStep,
             WatchdogStep, TasksStep
    <2> QED
      BY <2>1, BacklogStep
  <1>3. BacklogInv => BacklogOnlyAtStart
    <2> SUFFICES ASSUME BacklogInv PROVE Q!BacklogOnlyAtStart
      BY DEF BacklogOnlyAtStart
    <2>1. Len(queue) \in Nat /\ Len(Producers) \in Nat /\ total \in Nat
          /\ Cardinality(Sent) \in 0..Len(Producers)
      BY LenProperties, SentFinite, QueueConstants DEF BacklogInv, Q!TypeOK
    <2> QED
      BY <2>1 DEF BacklogInv, SendsOnce, CatchesUp, Q!BacklogOnlyAtStart
  <1> QED
    BY <1>1, <1>2, <1>3, PTL DEF BoardSpec

-----------------------------------------------------------------------------
(* 03: the lowest task *)

\* Before the Logger exists one unit passes at most, while Process computes.
FirstUnit == IF state["Process"] \in {"computed", "delay"} THEN 1 ELSE 0

\* Units since the Logger's last report; a first report is always due.
SinceReport ==
    CASE state["Logger"] = "delay" -> LoggerDelay - wakes["Logger"]
      [] state["Logger"] = "ready" -> LoggerDelay + lag
      [] OTHER                     -> FirstUnit

TaskTypes ==
    /\ t_created \in 0..4
    /\ state \in [T!Names -> {"absent", "ready", "computing", "computed", "delay"}]
    /\ \A t \in T!Names \ {"Process"} : state[t] \in {"absent", "ready", "delay"}
    /\ wakes \in [T!Names -> Nat]
    /\ sensor_runs \in Nat /\ process_runs \in Nat /\ lag \in 0..1
    /\ started \in BOOLEAN

\* Who sleeps has some of its delay left, and not more than all of it.
Sleepers ==
    /\ \A t \in T!Names : state[t] = "delay" <=> wakes[t] >= 1
    /\ wakes["Sensor"] <= SensorDelay /\ wakes["Process"] <= ProcessDelay
    /\ wakes["Logger"] <= LoggerDelay

\* The Logger is late by what is left of one computation, as Process sleeps
\* after it.
LoggerLate ==
    /\ \A k \in 1..4 : state[T!Created[k]] = "absent" <=> k > t_created
    /\ state["Logger"] # "ready" => lag = 0
    /\ lag = 1 => state["Process"] \in {"computed", "delay"}

\* Each run of Sensor but the last has taken its delay, and none came with the
\* report, before which Sensor went to sleep.
SensorPace ==
    \/ /\ state["Logger"] # "absent"
       /\ sensor_runs * SensorDelay + 1 <= SinceReport + wakes["Sensor"]
    \/ /\ state["Logger"] # "delay"
       /\ state["Logger"] = "ready" => state["Process"] = "delay" /\ state["Sensor"] = "delay"
       /\ sensor_runs * SensorDelay <= FirstUnit + wakes["Sensor"]

\* Each run of Process has taken its delay, but for the one that is computing.
ProcessPace ==
    (process_runs - (IF state["Process"] \in {"computing", "computed"} THEN 1 ELSE 0))
        * ProcessDelay <= SinceReport + wakes["Process"]

PaceInv == TaskTypes /\ Sleepers /\ LoggerLate /\ SensorPace /\ ProcessPace

LEMMA TaskNames ==
    /\ T!Names = {"Sensor", "Process", "Logger", "Monitor"}
    /\ Len(T!Created) = 4
    /\ T!Created[1] = "Sensor" /\ T!Created[2] = "Process"
    /\ T!Created[3] = "Logger" /\ T!Created[4] = "Monitor"
  BY DEF T!Names, T!Created

LEMMA Delays ==
    /\ SensorDelay \in Nat \ {0} /\ ProcessDelay \in Nat \ {0} /\ LoggerDelay \in Nat \ {0}
    /\ MonitorStart \in Nat \ {0} /\ MonitorDelay \in Nat \ {0}
  BY BoardAssumption DEF T!DelaysAssumption, T!Delays

\* A task runs when no task above it is ready, and time passes when Process
\* computes or all tasks sleep.
LEMMA Above ==
    ASSUME TaskTypes, LoggerLate
    PROVE  /\ T!MainRuns \/ T!Runs("Logger") =>
                 \A t \in {"Sensor", "Process", "Monitor"} : ~T!Ready(t)
           /\ T!Runs("Process") => ~T!Ready("Sensor")
           /\ T!Tick => \/ \A t \in T!Names : state[t] = "delay"
                        \/ /\ state["Process"] = "computing"
                           /\ state["Sensor"] = "delay"
  <1> USE TaskNames DEF T!MainRuns, T!Runs, T!Ready, T!Prio, T!MainReady, TaskTypes, LoggerLate
  <1>1. T!MainRuns => \A t \in {"Sensor", "Process", "Monitor"} : ~T!Ready(t)
    OBVIOUS
  <1>2. T!Runs("Logger") => \A t \in {"Sensor", "Process", "Monitor"} : ~T!Ready(t)
    OBVIOUS
  <1>3. T!Runs("Process") => ~T!Ready("Sensor")
    OBVIOUS
  <1>4. ASSUME T!Tick
        PROVE  \/ \A t \in T!Names : state[t] = "delay"
               \/ state["Process"] = "computing" /\ state["Sensor"] = "delay"
    <2>1. CASE T!Runs("Process") /\ state["Process"] = "computing"
      BY <2>1, <1>3
    <2>2. CASE ~T!MainReady /\ \A t \in T!Names : ~T!Ready(t)
      BY <2>2
    <2> QED
      BY <1>4, <2>1, <2>2 DEF T!Tick
  <1> QED
    BY <1>1, <1>2, <1>3, <1>4

LEMMA PaceStep == ASSUME PaceInv, T!Next \/ UNCHANGED tVars PROVE PaceInv'
  <1>0. TaskTypes /\ Sleepers /\ LoggerLate /\ SensorPace /\ ProcessPace
    BY DEF PaceInv
  <1> USE <1>0, TaskNames, Delays DEF PaceInv
  <1>1. CASE T!CreateTask
    <2>1. /\ \A t \in {"Sensor", "Process", "Monitor"} : state[t] \in {"absent", "delay"}
          /\ t_created \in 0..3 /\ t_created' = t_created + 1
          /\ state' = [state EXCEPT ![T!Created[t_created + 1]] = "ready"]
          /\ UNCHANGED <<wakes, sensor_runs, process_runs, started, lag>>
      BY <1>1, Above DEF T!CreateTask, T!MainRuns, T!MainReady, T!Ready, TaskTypes
    <2> HIDE DEF PaceInv
    <2>2. TaskTypes' /\ Sleepers' /\ LoggerLate'
      BY <2>1 DEF TaskTypes, Sleepers, LoggerLate
    <2>3. SensorPace' /\ ProcessPace'
      BY <2>1 DEF TaskTypes, Sleepers, LoggerLate, SensorPace, ProcessPace, SinceReport, FirstUnit
    <2> QED
      BY <2>2, <2>3 DEF PaceInv
  <1>2. CASE T!SensorTurn
    <2>1. /\ state["Sensor"] = "ready" /\ sensor_runs' = sensor_runs + 1
          /\ state' = [state EXCEPT !["Sensor"] = "delay"]
          /\ wakes' = [wakes EXCEPT !["Sensor"] = SensorDelay]
          /\ UNCHANGED <<t_created, process_runs, started, lag>>
      BY <1>2 DEF T!SensorTurn, T!SleepFor, T!Runs, T!Ready, TaskTypes
    <2>2. TaskTypes' /\ Sleepers' /\ LoggerLate'
      BY <2>1 DEF TaskTypes, Sleepers, LoggerLate
    <2>3. wakes["Sensor"] = 0 /\ sensor_runs' * SensorDelay = sensor_runs * SensorDelay + SensorDelay
      BY <2>1 DEF TaskTypes, Sleepers
    <2>4. SensorPace' /\ ProcessPace'
      BY <2>1, <2>3 DEF TaskTypes, SensorPace, ProcessPace, SinceReport, FirstUnit
    <2> QED
      BY <2>2, <2>4
  <1>3. CASE T!ProcessStarts
    <2>1. /\ state["Process"] = "ready" /\ process_runs' = process_runs + 1
          /\ state' = [state EXCEPT !["Process"] = "computing"]
          /\ UNCHANGED <<t_created, wakes, sensor_runs, started, lag>>
      BY <1>3 DEF T!ProcessStarts
    <2>2. TaskTypes' /\ Sleepers' /\ LoggerLate'
      BY <2>1 DEF TaskTypes, Sleepers, LoggerLate
    <2>3. SensorPace' /\ ProcessPace'
      BY <2>1 DEF TaskTypes, SensorPace, ProcessPace, SinceReport, FirstUnit
    <2> QED
      BY <2>2, <2>3
  <1>4. CASE T!ProcessEnds
    <2>1. /\ state["Process"] \in {"computing", "computed"}
          /\ state' = [state EXCEPT !["Process"] = "delay"]
          /\ wakes' = [wakes EXCEPT !["Process"] = ProcessDelay]
          /\ UNCHANGED <<t_created, sensor_runs, process_runs, started, lag>>
      BY <1>4 DEF T!ProcessEnds, T!SleepFor
    <2>2. TaskTypes' /\ Sleepers' /\ LoggerLate'
      BY <2>1 DEF TaskTypes, Sleepers, LoggerLate
    <2>3. wakes["Process"] = 0
          /\ process_runs * ProcessDelay = (process_runs - 1) * ProcessDelay + ProcessDelay
      BY <2>1 DEF TaskTypes, Sleepers
    <2>4. SensorPace' /\ ProcessPace'
      BY <2>1, <2>3 DEF TaskTypes, SensorPace, ProcessPace, SinceReport, FirstUnit
    <2> QED
      BY <2>2, <2>4
  <1>5. CASE T!LoggerTurn
    <2>1. /\ state["Logger"] = "ready" /\ state["Sensor"] = "delay" /\ state["Process"] = "delay"
          /\ sensor_runs' = 0 /\ process_runs' = 0 /\ lag' = 0
          /\ state' = [state EXCEPT !["Logger"] = "delay"]
          /\ wakes' = [wakes EXCEPT !["Logger"] = LoggerDelay]
          /\ UNCHANGED <<t_created, started>>
      BY <1>5, Above DEF T!LoggerTurn, T!SleepFor, T!Runs, T!Ready, TaskTypes, LoggerLate
    <2>2. TaskTypes' /\ Sleepers' /\ LoggerLate'
      BY <2>1 DEF TaskTypes, Sleepers, LoggerLate
    <2>3. SensorPace' /\ ProcessPace'
      BY <2>1 DEF TaskTypes, Sleepers, SensorPace, ProcessPace, SinceReport, FirstUnit
    <2> QED
      BY <2>2, <2>3
  <1>6. CASE T!MonitorTurn
    <2>1. /\ state["Monitor"] = "ready" /\ started' = TRUE
          /\ state' = [state EXCEPT !["Monitor"] = "delay"]
          /\ \E n \in Nat \ {0} : wakes' = [wakes EXCEPT !["Monitor"] = n]
          /\ UNCHANGED <<t_created, sensor_runs, process_runs, lag>>
      BY <1>6 DEF T!MonitorTurn, T!SleepFor, T!Runs, T!Ready, TaskTypes
    <2>2. TaskTypes' /\ Sleepers' /\ LoggerLate'
      BY <2>1 DEF TaskTypes, Sleepers, LoggerLate
    <2>3. SensorPace' /\ ProcessPace'
      BY <2>1 DEF TaskTypes, SensorPace, ProcessPace, SinceReport, FirstUnit
    <2> QED
      BY <2>2, <2>3
  <1>7. CASE T!Tick
    <2>1. /\ wakes' = [t \in T!Names |-> IF state[t] = "delay" THEN wakes[t] - 1 ELSE 0]
          /\ state' = [t \in T!Names |->
                CASE state[t] = "delay" /\ wakes[t] = 1 -> "ready"
                  [] t = "Process" /\ state[t] = "computing" -> "computed"
                  [] OTHER -> state[t]]
          /\ lag' = IF state["Logger"] = "ready" THEN lag + 1 ELSE lag
          /\ UNCHANGED <<t_created, sensor_runs, process_runs, started>>
      BY <1>7 DEF T!Tick
    <2>2. \/ \A t \in T!Names : state[t] = "delay"
          \/ state["Process"] = "computing" /\ state["Sensor"] = "delay"
      BY <1>7, Above
    <2>3. TaskTypes' /\ Sleepers' /\ LoggerLate'
      BY <2>1, <2>2 DEF TaskTypes, Sleepers, LoggerLate
    <2>4. /\ SinceReport \in Int /\ SinceReport' = SinceReport + 1
          /\ FirstUnit \in Int
          /\ state["Logger"] = "absent" => FirstUnit' = FirstUnit + 1
          /\ state'["Logger"] = "absent" <=> state["Logger"] = "absent"
          /\ wakes'["Sensor"] = wakes["Sensor"] - 1
          /\ wakes'["Process"] = wakes["Process"] - 1 \/ wakes'["Process"] = wakes["Process"]
      BY <2>1, <2>2 DEF TaskTypes, Sleepers, LoggerLate, SinceReport, FirstUnit
    <2>5. SensorPace'
      <3>1. \/ /\ state["Logger"] # "absent"
               /\ sensor_runs * SensorDelay + 1 <= SinceReport + wakes["Sensor"]
            \/ /\ state["Logger"] = "absent"
               /\ sensor_runs * SensorDelay <= FirstUnit + wakes["Sensor"]
        BY <2>2, TaskNames DEF TaskTypes, SensorPace
      <3>2. sensor_runs * SensorDelay \in Int /\ wakes["Sensor"] \in Int
        BY TaskNames DEF TaskTypes
      <3> QED
        BY <2>1, <2>4, <3>1, <3>2 DEF SensorPace
    <2>6. ProcessPace'
      BY <2>1, <2>2, <2>4 DEF TaskTypes, ProcessPace
    <2> QED
      BY <2>3, <2>5, <2>6
  <1>8. CASE UNCHANGED tVars
    BY <1>8 DEF tVars, TaskTypes, Sleepers, LoggerLate, SensorPace, ProcessPace, SinceReport,
                FirstUnit
  <1> QED
    BY <1>1, <1>2, <1>3, <1>4, <1>5, <1>6, <1>7, <1>8 DEF T!Next

\* As many delays as fit into a time
LEMMA Fit ==
    ASSUME NEW n \in Nat, NEW d \in Nat \ {0}, NEW m \in Int, m * d <= n
    PROVE  m <= n \div d
  OBVIOUS

LEMMA PaceKept == PaceInv => LoggerKeepsPace
  <1> SUFFICES ASSUME PaceInv PROVE T!LoggerKeepsPace
    BY DEF LoggerKeepsPace
  <1> USE Delays DEF PaceInv
  <1>1. SinceReport \in Int /\ SinceReport <= LoggerDelay + 1
    BY TaskNames DEF TaskTypes, SinceReport, FirstUnit
  <1>2. (sensor_runs - 1) * SensorDelay <= LoggerDelay
    BY <1>1, TaskNames DEF TaskTypes, Sleepers, SensorPace, FirstUnit
  <1>3. (process_runs - 1) * ProcessDelay <= LoggerDelay + 1
    BY <1>1, TaskNames DEF TaskTypes, Sleepers, ProcessPace
  <1>4. (LoggerDelay + 1) \div ProcessDelay <= LoggerDelay \div ProcessDelay + 1
    <2> DEFINE m == (LoggerDelay + 1) \div ProcessDelay
    <2>1. m \in Nat /\ m * ProcessDelay <= LoggerDelay + 1
      OBVIOUS
    <2>2. (m - 1) * ProcessDelay <= LoggerDelay /\ m - 1 \in Int
      BY <2>1
    <2> HIDE DEF m
    <2>3. m - 1 <= LoggerDelay \div ProcessDelay
      BY <2>2, Fit
    <2>4. LoggerDelay \div ProcessDelay \in Nat
      OBVIOUS
    <2> QED
      BY <2>1, <2>3, <2>4 DEF m
  <1> QED
    <2>1. sensor_runs \in Nat /\ process_runs \in Nat /\ lag <= 1
      BY DEF TaskTypes
    <2>2. sensor_runs - 1 <= LoggerDelay \div SensorDelay
      BY <1>2, <2>1, Fit
    <2>3. process_runs - 1 <= (LoggerDelay + 1) \div ProcessDelay
      BY <1>3, <2>1, Fit
    <2>4. /\ LoggerDelay \div SensorDelay \in Int /\ LoggerDelay \div ProcessDelay \in Int
          /\ (LoggerDelay + 1) \div ProcessDelay \in Int
      OBVIOUS
    <2> HIDE DEF PaceInv
    <2> QED
      BY <1>4, <2>1, <2>2, <2>3, <2>4 DEF T!LoggerKeepsPace

LEMMA PaceInit == T!Init => PaceInv
  <1> SUFFICES ASSUME T!Init PROVE PaceInv
    OBVIOUS
  <1>1. \A t \in T!Names : state[t] = "absent" /\ wakes[t] = 0
    BY DEF T!Init
  <1>5. TaskTypes
    <2>1. /\ state \in [T!Names -> {"absent", "ready", "computing", "computed", "delay"}]
          /\ wakes \in [T!Names -> Nat]
      BY DEF T!Init
    <2>2. \A t \in T!Names \ {"Process"} : state[t] \in {"absent", "ready", "delay"}
      BY <1>1
    <2>3. /\ t_created \in 0..4 /\ started \in BOOLEAN
          /\ sensor_runs \in Nat /\ process_runs \in Nat /\ lag \in 0..1
      <3>1. started \in BOOLEAN
        BY Zenon DEF T!Init
      <3>2. t_created = 0 /\ sensor_runs = 0 /\ process_runs = 0 /\ lag = 0
        BY DEF T!Init
      <3>3. t_created \in 0..4 /\ sensor_runs \in Nat /\ process_runs \in Nat /\ lag \in 0..1
        BY <3>2
      <3> QED
        BY <3>1, <3>3
    <2> QED
      BY <2>1, <2>2, <2>3 DEF TaskTypes
  <1>6. Sleepers
    <2>1. /\ SensorDelay \in Nat /\ ProcessDelay \in Nat /\ LoggerDelay \in Nat
          /\ {"Sensor", "Process", "Logger"} \subseteq T!Names
      BY TaskNames, Delays
    <2> QED
      BY <2>1, <1>1 DEF Sleepers
  <1> USE TaskNames, Delays DEF T!Init
  <1>2. LoggerLate
    <2>1. \A k \in 1..4 : k > 0 /\ T!Created[k] \in T!Names
      OBVIOUS
    <2> QED
      BY <2>1 DEF LoggerLate
  <1>3. 0 * SensorDelay = 0 /\ 0 * ProcessDelay = 0 /\ 0 - 0 = 0
    OBVIOUS
  <1>4. SensorPace /\ ProcessPace
    BY <1>3 DEF SensorPace, ProcessPace, SinceReport, FirstUnit
  <1> QED
    BY <1>2, <1>4, <1>5, <1>6 DEF PaceInv

\* The Logger, below all other tasks, waits for one computation of Process at
\* most, and its report counts no more runs of Sensor and of Process than fit
\* into its delay and that computation: for all delays of the four tasks.
THEOREM LowestKeepsPace == BoardSpec => []LoggerKeepsPace
  <1>1. BoardInit => PaceInv
    BY PaceInit DEF BoardInit
  <1>2. PaceInv /\ [BoardNext]_boardVars => PaceInv'
    <2>1. [BoardNext]_boardVars => T!Next \/ UNCHANGED tVars
      BY DEF BoardNext, boardVars, PriorityInversionStep, SensorQueueStep, EventGroupsStep,
             WatchdogStep, TasksStep
    <2> QED
      BY <2>1, PaceStep
  <1> QED
    BY <1>1, <1>2, PaceKept, PTL DEF BoardSpec

-----------------------------------------------------------------------------
(* 24: sensors and controller *)

\* Each sensor samples at least as long as the pulse lasts, and all announce
\* within the controller's wait and each other's.
WaitsFit ==
    /\ \A s \in GroupSensors : PulseTime <= SamplingTime[s] /\ SamplingTime[s] < AndWait
    /\ \A s, t \in GroupSensors : SamplingTime[t] < SamplingTime[s] + DoneWait
    /\ Rounds <= MaxSamples

GroupTypes ==
    /\ bits \in SUBSET GroupBits
    /\ waiting \in [GroupTasks -> E!Requests \cup {NoWait}]
    /\ value \in [GroupTasks -> SUBSET GroupBits]
    /\ spc \in [GroupSensors -> {"sampling", "set", "wait", "waiting"}]
    /\ samples \in [GroupSensors -> Nat]
    /\ e_timer \in [GroupTasks -> Nat]
    /\ round \in 0..Rounds /\ ready \in Nat

\* Units since the sensors began to take their samples, in the AND wait
Since == (AndWait - e_timer["controller"]) + (IF round = 1 THEN 0 ELSE PulseTime)

\* A sensor whose sample is due, one about to announce it, one that has just
\* done so, and one that waits for the pulse
Samples(s) ==
    /\ spc[s] = "sampling" /\ samples[s] = round - 1 /\ s \notin bits /\ waiting[s] = NoWait
    /\ e_timer[s] + Since = SamplingTime[s]
HasSample(s) ==
    /\ spc[s] = "set" /\ samples[s] = round - 1 /\ s \notin bits /\ waiting[s] = NoWait
    /\ Since = SamplingTime[s]
Announced(s) ==
    /\ spc[s] = "wait" /\ samples[s] = round /\ s \in bits /\ waiting[s] = NoWait
    /\ Since = SamplingTime[s]
Awaits(s) ==
    /\ spc[s] = "waiting" /\ samples[s] = round /\ s \in bits /\ waiting[s] = E!DoneSet
    /\ Since >= SamplingTime[s] /\ e_timer[s] + Since = SamplingTime[s] + DoneWait

\* All sensors take the next sample.
HeadPhase ==
    /\ e_cpc = "head" /\ waiting["controller"] = NoWait
    /\ bits \cap (GroupSensors \cup {E!DONE}) = {} /\ ready = round
    /\ \A s \in GroupSensors :
        /\ spc[s] = "sampling" /\ samples[s] = round /\ waiting[s] = NoWait
        /\ e_timer[s] + (IF round = 0 THEN 0 ELSE PulseTime) = SamplingTime[s]

\* The controller waits, because a sensor has not announced its sample yet.
AndPhase ==
    /\ e_cpc = "and" /\ waiting["controller"] = E!AllReady
    /\ round >= 1 /\ ready = round - 1 /\ E!DONE \notin bits
    /\ e_timer["controller"] <= AndWait
    /\ \E s \in GroupSensors : s \notin bits
    /\ \A s \in GroupSensors : Samples(s) \/ HasSample(s) \/ Announced(s) \/ Awaits(s)

\* The last announcement has woken the controller, which goes first.
WokenPhase ==
    /\ \/ e_cpc = "and" /\ ready = round - 1 /\ GroupSensors \subseteq value["controller"]
       \/ e_cpc = "set_done" /\ ready = round
    /\ round >= 1 /\ waiting["controller"] = NoWait
    /\ bits \cap (GroupSensors \cup {E!DONE}) = {}
    /\ \A s \in GroupSensors :
        /\ samples[s] = round
        /\ \/ spc[s] = "wait" /\ waiting[s] = NoWait
           \/ spc[s] = "waiting" /\ waiting[s] = E!DoneSet /\ e_timer[s] > 0

\* No time passes before all sensors have seen the pulse.
PulsePhase ==
    /\ e_cpc = "pulse" /\ waiting["controller"] = NoWait
    /\ round >= 1 /\ ready = round
    /\ E!DONE \in bits /\ bits \cap GroupSensors = {} /\ e_timer["controller"] <= PulseTime
    /\ \A s \in GroupSensors :
        /\ samples[s] = round /\ waiting[s] = NoWait
        /\ \/ spc[s] \in {"wait", "waiting"} /\ e_timer["controller"] = PulseTime
           \/ spc[s] = "sampling" /\ e_timer[s] + PulseTime = SamplingTime[s] + e_timer["controller"]

LockstepInv ==
    \/ e_cpc \in {"or", "deleted"}
    \/ GroupTypes /\ (HeadPhase \/ AndPhase \/ WokenPhase \/ PulsePhase)

LEMMA GroupConstants ==
    /\ GroupSensors # {} /\ "controller" \notin GroupSensors
    /\ E!DONE \notin GroupSensors /\ E!ALARM \notin GroupSensors /\ E!DONE # E!ALARM
    /\ GroupTasks = GroupSensors \cup {"controller"}
    /\ GroupBits = GroupSensors \cup {E!ALARM, E!DONE}
    /\ {E!AllReady, E!DoneSet, E!AOrAlarm} \subseteq E!Requests /\ NoWait \notin E!Requests
    /\ \A s \in GroupSensors : SamplingTime[s] \in Nat \ {0}
    /\ {DoneWait, AndWait, OrWait, PulseTime} \subseteq Nat \ {0}
    /\ Rounds \in Nat /\ MaxSamples \in Nat
  <1> USE BoardAssumption DEF E!ConstantsAssumption, E!TimedAssumption
  <1>1. /\ GroupSensors # {} /\ "controller" \notin GroupSensors
        /\ E!DONE \notin GroupSensors /\ E!ALARM \notin GroupSensors
        /\ NoWait \notin E!Requests /\ Rounds \in Nat /\ MaxSamples \in Nat
    BY DEF E!DONE, E!ALARM
  <1>2. E!DONE # E!ALARM /\ GroupBits = GroupSensors \cup {E!ALARM, E!DONE}
    BY DEF E!DONE, E!ALARM, GroupBits
  <1>3. {E!AllReady, E!DoneSet, E!AOrAlarm} \subseteq E!Requests
    BY <1>2 DEF E!AllReady, E!DoneSet, E!AOrAlarm, E!Requests
  <1>4. /\ \A s \in GroupSensors : SamplingTime[s] \in Nat \ {0}
        /\ {DoneWait, AndWait, OrWait, PulseTime} \subseteq Nat \ {0}
    OBVIOUS
  <1> QED
    BY <1>1, <1>2, <1>3, <1>4 DEF GroupTasks

\* What is asked for
LEMMA Asked ==
    /\ \A set : E!Satisfied(E!AllReady, set) <=> GroupSensors \subseteq set
    /\ \A set : E!Satisfied(E!DoneSet, set) <=> E!DONE \in set
    /\ E!AllReady.clear /\ E!AllReady.mask = GroupSensors
    /\ ~E!DoneSet.clear /\ E!DoneSet.mask = {E!DONE}
    /\ E!AllReady # NoWait /\ E!DoneSet # NoWait
  <1>1. E!AllReady # NoWait /\ E!DoneSet # NoWait
    BY GroupConstants
  <1> QED
    BY <1>1 DEF E!Satisfied, E!AllReady, E!DoneSet

LEMMA SetBitsTyped ==
    ASSUME GroupTypes, NEW b \in SUBSET GroupBits, E!SetBits(b)
    PROVE  /\ bits' \in SUBSET GroupBits
           /\ waiting' \in [GroupTasks -> E!Requests \cup {NoWait}]
           /\ value' \in [GroupTasks -> SUBSET GroupBits]
  BY DEF GroupTypes, E!SetBits

LEMMA WaitBitsTyped ==
    ASSUME GroupTypes, NEW t \in GroupTasks, NEW r \in E!Requests, E!WaitBits(t, r)
    PROVE  /\ bits' \in SUBSET GroupBits
           /\ waiting' \in [GroupTasks -> E!Requests \cup {NoWait}]
           /\ value' \in [GroupTasks -> SUBSET GroupBits]
  BY DEF GroupTypes, E!WaitBits

LEMMA OneReturns ==
    ASSUME GroupTypes, NEW t \in GroupTasks, E!WaitReturns(t) \/ E!WaitTimesOut(t)
    PROVE  /\ bits' \in SUBSET GroupBits
           /\ waiting' \in [GroupTasks -> E!Requests \cup {NoWait}]
           /\ value' \in [GroupTasks -> SUBSET GroupBits]
  BY DEF GroupTypes, E!WaitReturns, E!WaitTimesOut

LEMMA NobodyWoken ==
    ASSUME GroupTypes, NEW b \in SUBSET GroupBits, E!SetBits(b),
           \A t \in GroupTasks : E!Blocked(t) => ~E!Satisfied(waiting[t], bits \cup b)
    PROVE  bits' = bits \cup b /\ waiting' = waiting /\ value' = value
  <1>1. {t \in GroupTasks : E!Blocked(t) /\ E!Satisfied(waiting[t], bits \cup b)} = {}
    OBVIOUS
  <1>2. bits' = (bits \cup b) \ UNION {waiting[t].mask : t \in {}}
    BY <1>1 DEF E!SetBits
  <1>3. waiting' = [t \in GroupTasks |-> waiting[t]] /\ value' = [t \in GroupTasks |-> value[t]]
    BY <1>1 DEF E!SetBits
  <1> QED
    BY <1>2, <1>3 DEF GroupTypes

LEMMA GroupTypesKept ==
    ASSUME GroupTypes, E!TimedNext
    PROVE  GroupTypes'
  <1> USE GroupConstants
  <1>1. CASE E!TimedController
    <2>1. e_timer' \in [GroupTasks -> Nat]
      BY <1>1 DEF E!TimedController, GroupTypes
    <2>2. CASE E!StartRound
      <3>1. UNCHANGED <<spc, samples, ready>> /\ round' \in 0..Rounds
        BY <2>2 DEF E!StartRound, GroupTypes
      <3>2. E!WaitBits("controller", E!AllReady) \/ E!WaitBits("controller", E!AOrAlarm)
        BY <2>2 DEF E!StartRound
      <3> QED
        BY <2>1, <3>1, <3>2, WaitBitsTyped DEF GroupTypes
    <2>3. CASE E!ControllerTimesOut \/ E!Report \/ E!ControllerEnds
      <3>1. UNCHANGED <<spc, samples, round>> /\ ready' \in Nat
        BY <2>3 DEF E!ControllerTimesOut, E!Report, E!ControllerEnds, E!appVars, GroupTypes
      <3>2. E!WaitReturns("controller") \/ E!WaitTimesOut("controller")
        BY <2>3 DEF E!ControllerTimesOut, E!Report, E!ControllerEnds
      <3> QED
        BY <2>1, <3>1, <3>2, OneReturns DEF GroupTypes
    <2>4. CASE E!SetDone
      <3>1. UNCHANGED <<spc, samples, round, ready>> /\ E!SetBits({E!DONE})
        BY <2>4 DEF E!SetDone
      <3> QED
        BY <2>1, <3>1, SetBitsTyped DEF GroupTypes
    <2>5. CASE E!ClearDone
      BY <2>1, <2>5 DEF E!ClearDone, E!ClearBits, GroupTypes
    <2> QED
      BY <1>1, <2>2, <2>3, <2>4, <2>5 DEF E!TimedController, E!ControllerTask
  <1>2. ASSUME NEW s \in GroupSensors, E!TimedSensor(s) PROVE GroupTypes'
    <2>1. e_timer' \in [GroupTasks -> Nat]
      BY <1>2 DEF E!TimedSensor, GroupTypes
    <2>2. CASE E!SamplingEnds(s)
      BY <2>1, <2>2 DEF E!SamplingEnds, E!egVars, GroupTypes
    <2>3. CASE E!Announce(s)
      <3>1. E!SetBits({s}) /\ {s} \in SUBSET GroupBits /\ UNCHANGED <<round, ready>>
        BY <2>3 DEF E!Announce
      <3>2. /\ spc' \in [GroupSensors -> {"sampling", "set", "wait", "waiting"}]
            /\ samples' \in [GroupSensors -> Nat]
        BY <2>3 DEF E!Announce, GroupTypes
      <3> QED
        BY <2>1, <3>1, <3>2, SetBitsTyped DEF GroupTypes
    <2>4. CASE E!WaitDone(s)
      <3>1. E!WaitBits(s, E!DoneSet) /\ UNCHANGED <<samples, round, ready>>
        BY <2>4 DEF E!WaitDone
      <3>2. spc' \in [GroupSensors -> {"sampling", "set", "wait", "waiting"}]
        BY <2>4 DEF E!WaitDone, GroupTypes
      <3> QED
        BY <2>1, <3>1, <3>2, WaitBitsTyped DEF GroupTypes
    <2>5. CASE E!DoneTimesOut(s) \/ E!NextSample(s)
      <3>1. E!WaitReturns(s) \/ E!WaitTimesOut(s)
        BY <2>5 DEF E!DoneTimesOut, E!NextSample
      <3>2. /\ spc' \in [GroupSensors -> {"sampling", "set", "wait", "waiting"}]
            /\ UNCHANGED <<samples, round, ready>>
        BY <2>5 DEF E!DoneTimesOut, E!NextSample, E!appVars, GroupTypes
      <3> QED
        BY <2>1, <3>1, <3>2, OneReturns DEF GroupTypes
    <2> QED
      BY <1>2, <2>2, <2>3, <2>4, <2>5 DEF E!TimedSensor, E!Sensor
  <1>3. CASE E!TimedAlarm
    <2>1. E!SetBits({E!ALARM}) /\ UNCHANGED <<spc, samples, round, ready, e_timer>>
      BY <1>3 DEF E!TimedAlarm, E!RaiseAlarm
    <2> QED
      BY <2>1, SetBitsTyped DEF GroupTypes
  <1>4. CASE E!Tick
    BY <1>4 DEF E!Tick, E!vars, E!egVars, E!appVars, E!Countdown, GroupTypes
  <1> QED
    BY <1>1, <1>2, <1>3, <1>4 DEF E!TimedNext

\* In the AND wait nobody's time is up: a sensor that has not announced yet does
\* so within the controller's wait and the others'.
LEMMA InTime ==
    ASSUME WaitsFit, GroupTypes, AndPhase
    PROVE  /\ Since \in Int /\ e_timer["controller"] > 0
           /\ \A s \in GroupSensors : Awaits(s) => e_timer[s] > 0
  <1> USE GroupConstants
  <1>1. PICK u \in GroupSensors : u \notin bits
    BY DEF AndPhase
  <1>2. /\ e_timer["controller"] \in Nat /\ \A s \in GroupSensors : e_timer[s] \in Nat
        /\ Since \in Int /\ Since >= AndWait - e_timer["controller"]
    BY DEF GroupTypes, Since
  <1>3. Since <= SamplingTime[u]
    BY <1>1, <1>2 DEF AndPhase, Samples, HasSample, Announced, Awaits
  <1>4. SamplingTime[u] < AndWait
    BY DEF WaitsFit
  <1>5. ASSUME NEW s \in GroupSensors, Awaits(s) PROVE e_timer[s] > 0
    <2>1. SamplingTime[u] < SamplingTime[s] + DoneWait
      BY DEF WaitsFit
    <2>2. e_timer[s] + Since = SamplingTime[s] + DoneWait
      BY <1>5 DEF Awaits
    <2> QED
      BY <1>2, <1>3, <2>1, <2>2
  <1> QED
    BY <1>2, <1>3, <1>4, <1>5

\* While it lasts the pulse is no longer than what is left of a sample.
LEMMA PulseSeen ==
    ASSUME WaitsFit, GroupTypes, PulsePhase,
           NEW s \in GroupSensors, spc[s] = "sampling"
    PROVE  e_timer[s] >= e_timer["controller"]
  <1>1. /\ e_timer[s] \in Nat /\ e_timer["controller"] \in Nat /\ SamplingTime[s] \in Nat
        /\ PulseTime \in Nat /\ PulseTime <= SamplingTime[s]
    BY GroupConstants DEF GroupTypes, WaitsFit
  <1> QED
    BY <1>1 DEF PulsePhase

LEMMA ControllerKeepsStep ==
    ASSUME WaitsFit, GroupTypes, HeadPhase \/ AndPhase \/ WokenPhase \/ PulsePhase,
           E!TimedController
    PROVE  e_cpc' = "or" \/ HeadPhase' \/ AndPhase' \/ WokenPhase' \/ PulsePhase'
  <1> USE GroupConstants
  <1>1. CASE E!StartRound
    <2>1. HeadPhase
      BY <1>1 DEF E!StartRound, AndPhase, WokenPhase, PulsePhase
    <2>2. CASE round < Rounds
      <3>1. ~E!Satisfied(E!AllReady, bits)
        BY <2>1, Asked DEF HeadPhase
      <3>2. /\ round' = round + 1 /\ E!WaitBits("controller", E!AllReady) /\ e_cpc' = "and"
            /\ e_cpc = "head" /\ UNCHANGED <<spc, samples, ready>>
        BY <1>1, <2>2 DEF E!StartRound, GroupTypes
      <3>3. /\ waiting' = [waiting EXCEPT !["controller"] = E!AllReady] /\ bits' = bits
        BY <3>1, <3>2 DEF E!WaitBits
      <3>4. e_timer' = [e_timer EXCEPT !["controller"] = AndWait]
        BY <3>2 DEF E!TimedController
      <3>5. /\ waiting'["controller"] = E!AllReady
            /\ e_timer'["controller"] = AndWait /\ AndWait \in Nat
            /\ \A s \in GroupSensors : waiting'[s] = waiting[s] /\ e_timer'[s] = e_timer[s]
        BY <3>3, <3>4 DEF GroupTypes
      <3>6. Since' = (IF round = 0 THEN 0 ELSE PulseTime)
        BY <3>2, <3>5 DEF Since, GroupTypes
      <3>7. \A s \in GroupSensors : Samples(s)'
        <4> TAKE s \in GroupSensors
        <4>1. /\ spc'[s] = "sampling" /\ samples'[s] = round' - 1 /\ s \notin bits'
              /\ waiting'[s] = NoWait
          BY <2>1, <3>2, <3>3, <3>5 DEF HeadPhase, GroupTypes
        <4>2. e_timer'[s] + Since' = SamplingTime[s]
          BY <2>1, <3>5, <3>6 DEF HeadPhase
        <4> QED
          BY <4>1, <4>2 DEF Samples
      <3>8. round' >= 1 /\ ready' = round' - 1 /\ E!DONE \notin bits'
        BY <2>1, <3>2, <3>3 DEF HeadPhase, GroupTypes
      <3>9. \E s \in GroupSensors : s \notin bits'
        BY <2>1, <3>3 DEF HeadPhase
      <3> QED
        BY <3>2, <3>5, <3>7, <3>8, <3>9 DEF AndPhase
    <2> QED
      BY <1>1, <2>2 DEF E!StartRound
  <1>2. CASE E!ControllerTimesOut
    <2>1. E!Blocked("controller") /\ e_cpc \in {"and", "or", "pulse", "head", "set_done"}
      BY <1>2 DEF E!ControllerTimesOut, E!WaitTimesOut, E!TimedController, E!ControllerReady
    <2>2. AndPhase
      BY <2>1 DEF E!Blocked, HeadPhase, WokenPhase, PulsePhase
    <2>3. e_timer["controller"] = 0
      BY <2>1, <2>2 DEF E!TimedController, E!ControllerReady, AndPhase
    <2> QED
      BY <2>2, <2>3, InTime
  <1>3. CASE E!Report
    <2>1. WokenPhase /\ GroupSensors \subseteq value["controller"] /\ ready = round - 1
      BY <1>3, Asked DEF E!Report, E!WaitReturns, E!Blocked, HeadPhase, AndPhase, WokenPhase,
                         PulsePhase
    <2>2. /\ ready' = ready + 1 /\ e_cpc' = "set_done"
          /\ UNCHANGED <<bits, waiting, spc, samples, round>>
      BY <1>3, <2>1 DEF E!Report, E!WaitReturns
    <2>3. \A s \in GroupSensors : e_timer'[s] = e_timer[s]
      BY DEF E!TimedController, GroupTypes
    <2>4. ready' = round'
      BY <2>1, <2>2 DEF GroupTypes
    <2> QED
      BY <2>1, <2>2, <2>3, <2>4 DEF WokenPhase
  <1>4. CASE E!SetDone
    <2>1. WokenPhase /\ e_cpc = "set_done"
      BY <1>4 DEF E!SetDone, HeadPhase, AndPhase, PulsePhase
    <2>2. /\ e_cpc' = "pulse" /\ E!SetBits({E!DONE})
          /\ UNCHANGED <<spc, samples, round, ready>>
      BY <1>4 DEF E!SetDone
    <2> DEFINE new == bits \cup {E!DONE}
               woken == {t \in GroupTasks : E!Blocked(t) /\ E!Satisfied(waiting[t], new)}
    <2>3. /\ bits' = new \ UNION {waiting[t].mask : t \in {u \in woken : waiting[u].clear}}
          /\ waiting' = [t \in GroupTasks |-> IF t \in woken THEN NoWait ELSE waiting[t]]
      BY <2>2 DEF E!SetBits
    <2>4. \A t \in GroupTasks : waiting[t] # NoWait => waiting[t] = E!DoneSet
      BY <2>1 DEF WokenPhase
    <2>5. \A t \in GroupTasks : t \in woken <=> waiting[t] # NoWait
      BY <2>4, Asked DEF E!Blocked
    <2>6. {u \in woken : waiting[u].clear} = {}
      <3>1. \A u \in woken : waiting[u] = E!DoneSet
        BY <2>4, <2>5
      <3>2. \A u \in woken : ~waiting[u].clear
        BY <3>1, Asked, Zenon
      <3> QED
        BY <3>2, Zenon
    <2>7. bits' = new /\ \A t \in GroupTasks : waiting'[t] = NoWait
      BY <2>3, <2>5, <2>6
    <2>8. e_timer'["controller"] = PulseTime
      BY <2>1, <2>2 DEF E!TimedController, GroupTypes
    <2> QED
      BY <2>1, <2>2, <2>7, <2>8 DEF WokenPhase, PulsePhase
  <1>5. CASE E!ClearDone
    <2>1. PulsePhase
      BY <1>5 DEF E!ClearDone, HeadPhase, AndPhase, WokenPhase
    <2>2. e_timer["controller"] = 0
      BY <2>1 DEF E!TimedController, E!ControllerReady, PulsePhase
    <2>3. /\ e_cpc' = "head" /\ bits' = bits \ {E!DONE}
          /\ UNCHANGED <<waiting, spc, samples, round, ready>>
      BY <1>5 DEF E!ClearDone, E!ClearBits
    <2>4. \A s \in GroupSensors : e_timer'[s] = e_timer[s]
      BY DEF E!TimedController, GroupTypes
    <2>5. \A s \in GroupSensors : spc[s] = "sampling" /\ e_timer[s] + PulseTime = SamplingTime[s]
      BY <2>1, <2>2 DEF PulsePhase
    <2> QED
      BY <2>1, <2>3, <2>4, <2>5 DEF PulsePhase, HeadPhase
  <1>6. CASE E!ControllerEnds
    BY <1>6 DEF E!ControllerEnds, HeadPhase, AndPhase, WokenPhase, PulsePhase
  <1> QED
    BY <1>1, <1>2, <1>3, <1>4, <1>5, <1>6 DEF E!TimedController, E!ControllerTask

LEMMA SensorKeepsStep ==
    ASSUME WaitsFit, GroupTypes, HeadPhase \/ AndPhase \/ WokenPhase \/ PulsePhase,
           NEW s \in GroupSensors, E!TimedSensor(s)
    PROVE  AndPhase' \/ WokenPhase' \/ PulsePhase'
  <1> USE GroupConstants
  <1>1. AndPhase \/ (PulsePhase /\ e_timer["controller"] # 0)
    BY DEF E!TimedSensor, E!ControllerReady, E!Blocked, HeadPhase, WokenPhase, PulsePhase
  <1>2. /\ \A t \in GroupTasks \ {s} : e_timer'[t] = e_timer[t]
        /\ e_timer'["controller"] = e_timer["controller"]
    BY DEF E!TimedSensor, GroupTypes
  <1>3. CASE E!SamplingEnds(s)
    <2>1. /\ spc[s] = "sampling" /\ e_timer[s] = 0 /\ e_timer'[s] = 0
          /\ spc' = [spc EXCEPT ![s] = "set"]
          /\ UNCHANGED <<bits, waiting, value, samples, e_cpc, round, ready>>
      BY <1>3 DEF E!SamplingEnds, E!egVars, E!TimedSensor, E!SensorReady, GroupTypes
    <2>2. AndPhase
      BY <1>1, <2>1, PulseSeen DEF GroupTypes
    <2>3. Since' = Since
      BY <1>2, <2>1 DEF Since
    <2>4. HasSample(s)'
      BY <2>1, <2>2, <2>3, InTime DEF AndPhase, Samples, HasSample, Announced, Awaits, GroupTypes
    <2>5. \A u \in GroupSensors \ {s} :
            /\ Samples(u)' <=> Samples(u)
            /\ HasSample(u)' <=> HasSample(u)
            /\ Announced(u)' <=> Announced(u)
            /\ Awaits(u)' <=> Awaits(u)
      BY <1>2, <2>1, <2>3 DEF Samples, HasSample, Announced, Awaits, GroupTypes
    <2> QED
      BY <1>2, <2>1, <2>2, <2>4, <2>5 DEF AndPhase
  <1>4. CASE E!Announce(s)
    <2>1. /\ spc[s] = "set" /\ E!SetBits({s}) /\ {s} \in SUBSET GroupBits
          /\ spc' = [spc EXCEPT ![s] = "wait"] /\ samples' = [samples EXCEPT ![s] = @ + 1]
          /\ UNCHANGED <<e_cpc, round, ready>>
      BY <1>4 DEF E!Announce
    <2>2. AndPhase
      BY <1>1, <2>1 DEF PulsePhase
    <2>3. HasSample(s) /\ Since' = Since
      BY <1>2, <2>1, <2>2 DEF AndPhase, Samples, HasSample, Announced, Awaits, Since
    <2>4. /\ spc'[s] = "wait" /\ samples'[s] = round /\ Since = SamplingTime[s]
          /\ \A u \in GroupSensors \ {s} : spc'[u] = spc[u] /\ samples'[u] = samples[u]
      BY <2>1, <2>3 DEF HasSample, GroupTypes
    <2>5. CASE \E u \in GroupSensors \ {s} : u \notin bits
      <3>1. \A t \in GroupTasks :
                E!Blocked(t) => ~E!Satisfied(waiting[t], bits \cup {s})
        <4>1. ~E!Satisfied(E!AllReady, bits \cup {s}) /\ ~E!Satisfied(E!DoneSet, bits \cup {s})
          BY <2>2, <2>5, Asked DEF AndPhase
        <4>2. \A t \in GroupTasks : waiting[t] \in {NoWait, E!DoneSet, E!AllReady}
          BY <2>2 DEF AndPhase, Samples, HasSample, Announced, Awaits
        <4> QED
          BY <4>1, <4>2 DEF E!Blocked
      <3>2. bits' = bits \cup {s} /\ waiting' = waiting
        BY <2>1, <3>1, NobodyWoken
      <3>3. Announced(s)'
        BY <2>1, <2>3, <2>4, <3>2 DEF Announced, HasSample
      <3>4. \A u \in GroupSensors \ {s} :
              /\ Samples(u)' <=> Samples(u)
              /\ HasSample(u)' <=> HasSample(u)
              /\ Announced(u)' <=> Announced(u)
              /\ Awaits(u)' <=> Awaits(u)
        BY <1>2, <2>1, <2>3, <2>4, <3>2 DEF Samples, HasSample, Announced, Awaits
      <3> QED
        BY <1>2, <2>1, <2>2, <2>5, <3>2, <3>3, <3>4 DEF AndPhase
    <2>6. CASE GroupSensors \subseteq bits \cup {s}
      <3> DEFINE new == bits \cup {s}
                 woken == {t \in GroupTasks : E!Blocked(t) /\ E!Satisfied(waiting[t], new)}
      <3>1. /\ bits' = new \ UNION {waiting[t].mask : t \in {u \in woken : waiting[u].clear}}
            /\ value' = [t \in GroupTasks |-> IF t \in woken THEN new ELSE value[t]]
            /\ waiting' = [t \in GroupTasks |-> IF t \in woken THEN NoWait ELSE waiting[t]]
        BY <2>1 DEF E!SetBits
      <3>2. \A u \in GroupSensors : u \notin woken
        <4>1. ~E!Satisfied(E!DoneSet, new)
          BY <2>2, Asked DEF AndPhase
        <4>2. \A u \in GroupSensors : waiting[u] \in {NoWait, E!DoneSet}
          BY <2>2 DEF AndPhase, Samples, HasSample, Announced, Awaits
        <4> QED
          BY <4>1, <4>2 DEF E!Blocked
      <3>3. "controller" \in woken /\ waiting["controller"] = E!AllReady
        BY <2>2, <2>6, Asked DEF AndPhase, E!Blocked
      <3>4. woken = {"controller"}
        BY <3>2, <3>3
      <3>5. {u \in woken : waiting[u].clear} = {"controller"}
        BY <3>3, <3>4, Asked, Zenon
      <3>6. UNION {waiting[t].mask : t \in {"controller"}} = GroupSensors
        BY <3>3, Asked
      <3>7. /\ bits' = new \ GroupSensors
            /\ value'["controller"] = new /\ waiting'["controller"] = NoWait
            /\ \A u \in GroupSensors : waiting'[u] = waiting[u]
        BY <3>1, <3>2, <3>4, <3>5, <3>6
      <3>8. \A u \in GroupSensors \ {s} : Announced(u) \/ Awaits(u)
        BY <2>2, <2>6 DEF AndPhase, Samples, HasSample
      <3>9. \A u \in GroupSensors :
                /\ samples'[u] = round
                /\ \/ spc'[u] = "wait" /\ waiting'[u] = NoWait
                   \/ spc'[u] = "waiting" /\ waiting'[u] = E!DoneSet /\ e_timer'[u] > 0
        <4> TAKE u \in GroupSensors
        <4>1. CASE u = s
          BY <2>3, <2>4, <3>7, <4>1 DEF HasSample
        <4>2. CASE u # s
          BY <1>2, <2>2, <2>4, <3>7, <3>8, <4>2, InTime DEF Announced, Awaits
        <4> QED
          BY <4>1, <4>2
      <3> QED
        BY <2>1, <2>2, <2>6, <3>7, <3>9 DEF AndPhase, WokenPhase
    <2> QED
      BY <2>5, <2>6
  <1>5. CASE E!WaitDone(s)
    <2>1. /\ spc[s] = "wait" /\ spc' = [spc EXCEPT ![s] = "waiting"]
          /\ E!WaitBits(s, E!DoneSet) /\ UNCHANGED <<samples, e_cpc, round, ready>>
      BY <1>5 DEF E!WaitDone
    <2>2. e_timer'[s] = DoneWait
      BY <2>1 DEF E!TimedSensor, GroupTypes
    <2>3. CASE AndPhase
      <3>1. waiting' = [waiting EXCEPT ![s] = E!DoneSet] /\ bits' = bits
        BY <2>1, <2>3, Asked DEF E!WaitBits, AndPhase
      <3>2. Since' = Since
        BY <1>2, <2>1 DEF Since
      <3>3. Announced(s)
        BY <2>1, <2>3 DEF AndPhase, Samples, HasSample, Announced, Awaits
      <3>4. Awaits(s)'
        BY <2>1, <2>2, <2>3, <3>1, <3>2, <3>3, InTime DEF Announced, Awaits, GroupTypes
      <3>5. \A u \in GroupSensors \ {s} :
              /\ Samples(u)' <=> Samples(u)
              /\ HasSample(u)' <=> HasSample(u)
              /\ Announced(u)' <=> Announced(u)
              /\ Awaits(u)' <=> Awaits(u)
        BY <1>2, <2>1, <3>1, <3>2 DEF Samples, HasSample, Announced, Awaits, GroupTypes
      <3>6. waiting'["controller"] = waiting["controller"]
        BY <3>1 DEF GroupTypes
      <3> QED
        BY <1>2, <2>1, <2>3, <3>1, <3>4, <3>5, <3>6 DEF AndPhase
    <2>4. CASE PulsePhase
      <3>1. bits' = bits /\ waiting' = waiting
        BY <2>1, <2>4, Asked DEF E!WaitBits, PulsePhase
      <3>2. e_timer["controller"] = PulseTime
        BY <2>1, <2>4 DEF PulsePhase
      <3>3. spc'[s] = "waiting" /\ \A u \in GroupSensors \ {s} : spc'[u] = spc[u]
        BY <2>1 DEF GroupTypes
      <3> QED
        BY <1>2, <2>1, <2>4, <3>1, <3>2, <3>3 DEF PulsePhase
    <2> QED
      BY <1>1, <2>3, <2>4
  <1>6. CASE E!DoneTimesOut(s)
    <2>1. E!Blocked(s)
      BY <1>6 DEF E!DoneTimesOut, E!WaitTimesOut
    <2>2. AndPhase /\ Awaits(s)
      BY <1>1, <2>1 DEF E!Blocked, AndPhase, PulsePhase, Samples, HasSample, Announced
    <2>3. e_timer[s] = 0
      BY <2>1, <2>2 DEF E!TimedSensor, E!SensorReady, Awaits
    <2> QED
      BY <2>2, <2>3, InTime
  <1>7. CASE E!NextSample(s)
    <2>1. /\ spc[s] = "waiting" /\ ~E!Blocked(s) /\ spc' = [spc EXCEPT ![s] = "sampling"]
          /\ UNCHANGED <<bits, waiting, samples, e_cpc, round, ready>>
      BY <1>7 DEF E!NextSample, E!WaitReturns
    <2>2. PulsePhase
      BY <1>1, <2>1, Asked DEF E!Blocked, AndPhase, Samples, HasSample, Announced, Awaits
    <2>3. spc'[s] = "sampling" /\ \A u \in GroupSensors \ {s} : spc'[u] = spc[u]
      BY <2>1 DEF GroupTypes
    <2>4. e_timer'[s] = SamplingTime[s] /\ e_timer["controller"] = PulseTime
      BY <2>1, <2>2, <2>3 DEF E!TimedSensor, GroupTypes, PulsePhase
    <2> QED
      BY <1>2, <2>1, <2>2, <2>3, <2>4 DEF PulsePhase
  <1> QED
    BY <1>3, <1>4, <1>5, <1>6, <1>7 DEF E!TimedSensor, E!Sensor

LEMMA AlarmKeepsStep ==
    ASSUME GroupTypes, HeadPhase \/ AndPhase \/ WokenPhase \/ PulsePhase, E!TimedAlarm
    PROVE  AndPhase' \/ PulsePhase'
  <1> USE GroupConstants
  <1>1. AndPhase \/ PulsePhase
    BY DEF E!TimedAlarm, E!ControllerReady, E!Blocked, HeadPhase, WokenPhase
  <1>2. E!SetBits({E!ALARM}) /\ UNCHANGED <<spc, samples, e_cpc, round, ready, e_timer>>
    BY DEF E!TimedAlarm, E!RaiseAlarm
  <1>3. \A t \in GroupTasks : E!Blocked(t) => ~E!Satisfied(waiting[t], bits \cup {E!ALARM})
    <2>1. CASE AndPhase
      <3>1. /\ ~E!Satisfied(E!AllReady, bits \cup {E!ALARM})
            /\ ~E!Satisfied(E!DoneSet, bits \cup {E!ALARM})
        BY <2>1, Asked DEF AndPhase
      <3>2. \A t \in GroupTasks : waiting[t] \in {NoWait, E!DoneSet, E!AllReady}
        BY <2>1 DEF AndPhase, Samples, HasSample, Announced, Awaits
      <3> QED
        BY <3>1, <3>2 DEF E!Blocked
    <2>2. CASE PulsePhase
      BY <2>2 DEF PulsePhase, E!Blocked
    <2> QED
      BY <1>1, <2>1, <2>2
  <1>4. waiting' = waiting /\ bits' = bits \cup {E!ALARM}
    BY <1>2, <1>3, NobodyWoken
  <1>5. AndPhase => AndPhase'
    <2>1. /\ Since' = Since
          /\ \A s \in GroupSensors : s \in bits' <=> s \in bits
          /\ E!DONE \in bits' <=> E!DONE \in bits
      BY <1>2, <1>4 DEF Since
    <2> QED
      BY <1>2, <1>4, <2>1 DEF AndPhase, Samples, HasSample, Announced, Awaits
  <1>6. PulsePhase => PulsePhase'
    BY <1>2, <1>4 DEF PulsePhase
  <1> QED
    BY <1>1, <1>5, <1>6

LEMMA TickKeepsStep ==
    ASSUME WaitsFit, GroupTypes, HeadPhase \/ AndPhase \/ WokenPhase \/ PulsePhase, E!Tick
    PROVE  AndPhase' \/ PulsePhase'
  <1> USE GroupConstants
  <1>1. ~E!ControllerReady /\ \A s \in GroupSensors : ~E!SensorReady(s)
    BY DEF E!Tick, E!AnySensorReady
  <1>2. AndPhase \/ (PulsePhase /\ e_timer["controller"] > 0)
    BY <1>1 DEF E!ControllerReady, E!Blocked, HeadPhase, WokenPhase, PulsePhase, GroupTypes
  <1>3. UNCHANGED <<bits, waiting, spc, samples, e_cpc, round, ready>>
    BY DEF E!Tick, E!vars, E!egVars, E!appVars
  <1>4. \A t \in GroupTasks : e_timer[t] > 0 => e_timer'[t] = e_timer[t] - 1
    BY DEF E!Tick, E!Countdown, GroupTypes
  <1>5. CASE AndPhase
    <2>1. e_timer["controller"] > 0 /\ Since \in Int
      BY <1>5, InTime
    <2>2. e_timer'["controller"] = e_timer["controller"] - 1 /\ Since' = Since + 1
      BY <1>3, <1>4, <2>1 DEF Since, GroupTypes
    <2>3. ASSUME NEW s \in GroupSensors PROVE Samples(s)' \/ Awaits(s)'
      <3>1. spc[s] \notin {"set", "wait"}
        BY <1>1 DEF E!SensorReady
      <3>2. CASE Samples(s)
        <4>1. samples[s] < MaxSamples
          BY <1>5, <3>2 DEF Samples, AndPhase, WaitsFit, GroupTypes
        <4>2. e_timer[s] > 0
          BY <1>1, <3>2, <4>1 DEF E!SensorReady, Samples, GroupTypes
        <4>3. e_timer'[s] + Since' = SamplingTime[s]
          BY <1>4, <2>1, <2>2, <3>2, <4>2 DEF Samples, GroupTypes
        <4> QED
          BY <1>3, <3>2, <4>3 DEF Samples
      <3>3. CASE Awaits(s)
        <4>1. e_timer[s] > 0
          BY <1>5, <3>3, InTime
        <4>2. /\ e_timer'[s] + Since' = SamplingTime[s] + DoneWait
              /\ Since' >= SamplingTime[s]
          BY <1>4, <2>1, <2>2, <3>3, <4>1 DEF Awaits, GroupTypes
        <4> QED
          BY <1>3, <3>3, <4>2 DEF Awaits
      <3> QED
        BY <1>5, <3>1, <3>2, <3>3 DEF AndPhase, HasSample, Announced
    <2>4. e_timer'["controller"] <= AndWait
      BY <1>5, <2>2 DEF AndPhase, GroupTypes
    <2> QED
      BY <1>3, <1>5, <2>3, <2>4 DEF AndPhase
  <1>6. CASE PulsePhase /\ e_timer["controller"] > 0
    <2>1. \A s \in GroupSensors : spc[s] = "sampling"
      BY <1>1, <1>6 DEF PulsePhase, E!SensorReady, E!Blocked
    <2>2. e_timer'["controller"] = e_timer["controller"] - 1
      BY <1>4, <1>6
    <2>3. ASSUME NEW s \in GroupSensors
          PROVE  e_timer'[s] + PulseTime = SamplingTime[s] + e_timer'["controller"]
      <3>1. e_timer[s] >= e_timer["controller"] /\ e_timer[s] \in Nat
        BY <1>6, <2>1, PulseSeen DEF GroupTypes
      <3>2. e_timer'[s] = e_timer[s] - 1
        BY <1>4, <1>6, <3>1 DEF GroupTypes
      <3> QED
        BY <1>6, <2>1, <2>2, <3>1, <3>2 DEF PulsePhase, GroupTypes
    <2>4. e_timer'["controller"] <= PulseTime
      BY <1>6, <2>2 DEF PulsePhase, GroupTypes
    <2> QED
      BY <1>3, <1>6, <2>1, <2>3, <2>4 DEF PulsePhase
  <1> QED
    BY <1>2, <1>5, <1>6

LEMMA LockstepKept ==
    ASSUME WaitsFit, LockstepInv, E!TimedNext \/ UNCHANGED eVars
    PROVE  LockstepInv'
  <1>1. CASE e_cpc \in {"or", "deleted"} /\ E!TimedNext
    <2>1. E!TimedController => e_cpc' \in {"or", "deleted"}
      BY <1>1 DEF E!TimedController, E!ControllerTask, E!StartRound, E!ControllerTimesOut,
                  E!appVars, E!Report, E!SetDone, E!ClearDone, E!ControllerEnds
    <2>2. E!TimedAlarm => e_cpc' = e_cpc
      BY DEF E!TimedAlarm, E!RaiseAlarm
    <2>3. E!Tick => e_cpc' = e_cpc
      BY DEF E!Tick, E!vars, E!appVars
    <2>4. \A s \in GroupSensors : E!TimedSensor(s) => e_cpc' = e_cpc
      BY DEF E!TimedSensor, E!Sensor, E!SamplingEnds, E!Announce, E!WaitDone, E!DoneTimesOut,
             E!appVars, E!NextSample
    <2> QED
      BY <1>1, <2>1, <2>2, <2>3, <2>4 DEF E!TimedNext, LockstepInv
  <1>2. CASE ~(e_cpc \in {"or", "deleted"}) /\ E!TimedNext
    <2>1. GroupTypes /\ (HeadPhase \/ AndPhase \/ WokenPhase \/ PulsePhase) /\ GroupTypes'
      BY <1>2, GroupTypesKept DEF LockstepInv
    <2>2. E!TimedController => LockstepInv'
      BY <2>1, ControllerKeepsStep DEF LockstepInv
    <2>3. (\E s \in GroupSensors : E!TimedSensor(s)) => LockstepInv'
      BY <2>1, SensorKeepsStep DEF LockstepInv
    <2>4. E!TimedAlarm => LockstepInv'
      BY <2>1, AlarmKeepsStep DEF LockstepInv
    <2>5. E!Tick => LockstepInv'
      BY <2>1, TickKeepsStep DEF LockstepInv
    <2> QED
      BY <1>2, <2>2, <2>3, <2>4, <2>5 DEF E!TimedNext
  <1>3. CASE UNCHANGED eVars
    BY <1>3 DEF eVars, LockstepInv, GroupTypes, HeadPhase, AndPhase, WokenPhase, PulsePhase,
                Samples, HasSample, Announced, Awaits, Since
  <1> QED
    BY <1>1, <1>2, <1>3

\* With samples as long as the pulse at least, and all sensors done within the
\* timeouts, no round of example 24 times out and each sensor sees each pulse
\* once: for any number of sensors and rounds.
THEOREM SensorsInLockstep ==
    ASSUME WaitsFit PROVE BoardSpec => []RoundsInLockstep
  <1>1. BoardInit => LockstepInv
    <2> SUFFICES ASSUME E!TimedInit PROVE LockstepInv
      BY DEF BoardInit
    <2> USE GroupConstants DEF E!TimedInit, E!Init, E!EventGroupInit
    <2>1. GroupTypes
      BY DEF GroupTypes
    <2>2. HeadPhase
      BY DEF HeadPhase
    <2> QED
      BY <2>1, <2>2 DEF LockstepInv
  <1>2. LockstepInv /\ [BoardNext]_boardVars => LockstepInv'
    <2>1. [BoardNext]_boardVars => E!TimedNext \/ UNCHANGED eVars
      BY DEF BoardNext, boardVars, PriorityInversionStep, SensorQueueStep, EventGroupsStep,
             WatchdogStep, TasksStep
    <2> QED
      BY <2>1, LockstepKept
  <1>3. LockstepInv => RoundsInLockstep
    BY DEF LockstepInv, HeadPhase, AndPhase, WokenPhase, PulsePhase, RoundsInLockstep,
           E!RoundsInLockstep
  <1> QED
    BY <1>1, <1>2, <1>3, PTL DEF BoardSpec

-----------------------------------------------------------------------------
(* The types of the five examples *)

\* 08: a task that runs finds g_resource set, MID has a turn left when it
\* sleeps, and HIGH began to wait in the past.
ScenarioTyped ==
    /\ TypeOK
    /\ \A t \in Threads : pc[t] # "absent" => resource \in Scenarios
    /\ \A t \in Threads : t[1] = "MID" /\ pc[t] \in {"delay", "work"} => turns[t[2]] < MidTurns
    /\ \A k \in Scenarios : since[k] <= now

\* 24: a sensor that announces has a sample left, and no round is reported
\* twice.
GroupTyped ==
    /\ GroupTypes
    /\ \A s \in GroupSensors : samples[s] <= MaxSamples /\ (spc[s] = "set" => samples[s] < MaxSamples)
    /\ e_apc \in {"delay", "deleted"}
    /\ e_cpc \in {"head", "and", "set_done", "pulse", "or", "deleted"}
    /\ ready + (IF e_cpc = "and" THEN 1 ELSE 0) <= round

\* 05: a task that checks in has subscribed.
TwdtTyped ==
    /\ reason \in {"POWERON", "TASK_WDT"}
    /\ w_mpc \in {"init", "create", "returned"}
    /\ apc \in {"absent", "add", "loop", "arm", "delay"}
    /\ bpc \in {"absent", "add", "loop", "delay", "hung"}
    /\ atick \in Nat /\ atick <= HangTick + 1 /\ atimer \in 0..1 /\ btimer \in 0..1
    /\ preInit \in BOOLEAN /\ g_simulate_hang \in BOOLEAN
    /\ panics \in BOOLEAN /\ warnings \in BOOLEAN
    /\ subscribed \subseteq {"A", "B", "idle"} /\ checkedIn \subseteq subscribed
    /\ elapsed \in Nat /\ elapsed < Timeout /\ hungFor \in Nat /\ hungFor <= Timeout + 1
    /\ apc \notin {"absent", "add"} => "A" \in subscribed
    /\ bpc \notin {"absent", "add"} => "B" \in subscribed
    /\ preInit => "idle" \in subscribed

\* 03: a task sleeps for one of the delays at most.
DelayBounds == wakes \in [T!Names -> UNION {0..d : d \in T!Delays}]

BoardTypes ==
    /\ ScenarioTyped
    /\ Q!TypeOK /\ Uncreated
    /\ GroupTyped
    /\ TwdtTyped
    /\ PaceInv /\ DelayBounds

LEMMA ScenarioTypedStep ==
    ASSUME ScenarioTyped, Next \/ UNCHANGED vars PROVE ScenarioTyped'
  <1> USE ConstantsAssumption, Thread DEF semVs, mainVs, taskVs
  <1> USE DEF ScenarioTyped, TypeOK
  <1>1. CASE StartScenario
    BY <1>1 DEF StartScenario, Start, Names, Scenarios
  <1>2. CASE WaitEnds \/ GapEnds
    BY <1>2 DEF WaitEnds, GapEnds
  <1>3. CASE DeleteSemaphore
    BY <1>3 DEF DeleteSemaphore, Scenarios
  <1>4. CASE Tick
    BY <1>4 DEF Tick, Countdown
  <1>5. ASSUME NEW t \in Threads, DelayEnds(t) PROVE ScenarioTyped'
    <2>1. /\ pc' = [pc EXCEPT ![t] = pc'[t]] /\ pc[t] = "delay"
          /\ pc'[t] \in {"work", "take"} /\ (t[1] # "MID" => pc'[t] = "take")
          /\ (t[1] = "MID" => pc'[t] = "work")
          /\ UNCHANGED <<now, semVs, mainVs, turns, waited>>
      BY <1>5 DEF DelayEnds
    <2>2. timer' \in [Threads -> Nat] /\ handle' \in [Threads -> 0..3]
      BY <1>5 DEF DelayEnds
    <2>3. since' \in [Scenarios -> Nat] /\ \A k \in Scenarios : since'[k] <= now
      BY <1>5 DEF DelayEnds
    <2>4. \A u \in Threads : pc'[u] = "take" => handle'[u] \in Scenarios
      BY <1>5 DEF DelayEnds
    <2> QED
      BY <2>1, <2>2, <2>3, <2>4
  <1>6. ASSUME NEW t \in Threads, Take(t) PROVE ScenarioTyped'
    BY <1>6 DEF Take
  <1>7. ASSUME NEW t \in Threads, LowWorkEnds(t) \/ Finish(t) PROVE ScenarioTyped'
    BY <1>7 DEF LowWorkEnds, Finish
  <1>8. ASSUME NEW t \in Threads, Give(t) PROVE ScenarioTyped'
    BY <1>8 DEF Give
  <1>9. ASSUME NEW t \in Threads, MidTurn(t) PROVE ScenarioTyped'
    <2>1. /\ turns' = [turns EXCEPT ![t[2]] = @ + 1] /\ turns[t[2]] \in Nat
          /\ turns[t[2]] < MidTurns /\ t[1] = "MID" /\ pc[t] = "work"
          /\ UNCHANGED <<now, semVs, mainVs, handle, since, waited>>
      BY <1>9 DEF MidTurn
    <2>2. \/ turns[t[2]] + 1 < MidTurns /\ pc' = pc /\ timer' = [timer EXCEPT ![t] = MidWork]
          \/ pc' = [pc EXCEPT ![t] = "finish"] /\ timer' = timer
      BY <1>9 DEF MidTurn
    <2>3. turns' \in [Scenarios -> 0..MidTurns]
      BY <2>1
    <2>4. /\ pc' \in [Threads -> {"absent", "delay", "take", "work", "give", "finish", "done"}]
          /\ timer' \in [Threads -> Nat]
          /\ \A u \in Threads : pc'[u] = "take" => pc[u] = "take"
          /\ \A u \in Threads : pc'[u] # "absent" => pc[u] # "absent"
      BY <2>1, <2>2
    <2>5. ASSUME NEW u \in Threads, u[1] = "MID", pc'[u] \in {"delay", "work"}
          PROVE  turns'[u[2]] < MidTurns
      <3>1. CASE u[2] = t[2]
        <4>1. u = t
          BY <2>1, <2>5, <3>1
        <4> QED
          BY <2>1, <2>2, <2>5, <4>1
      <3>2. CASE u[2] # t[2]
        <4>1. pc'[u] = pc[u] /\ turns'[u[2]] = turns[u[2]]
          BY <2>1, <2>2, <3>2
        <4> QED
          BY <2>5, <4>1
      <3> QED
        BY <3>1, <3>2
    <2> QED
      BY <2>1, <2>3, <2>4, <2>5
  <1>10. CASE UNCHANGED vars
    BY <1>10 DEF vars
  <1> QED
    BY <1>1, <1>2, <1>3, <1>4, <1>5, <1>6, <1>7, <1>8, <1>9, <1>10
       DEF Next, MainTask, Task, Idle

LEMMA GroupTypedStep ==
    ASSUME GroupTyped, E!TimedNext \/ UNCHANGED eVars PROVE GroupTyped'
  <1> USE GroupConstants DEF GroupTyped
  <1>1. CASE E!TimedController
    <2>1. GroupTypes'
      BY <1>1, GroupTypesKept DEF E!TimedNext
    <2>2. UNCHANGED <<spc, samples, e_apc>>
      BY <1>1 DEF E!TimedController, E!ControllerTask, E!StartRound, E!ControllerTimesOut,
                  E!Report, E!SetDone, E!ClearDone, E!ControllerEnds, E!appVars
    <2>3. /\ e_cpc' \in {"head", "and", "set_done", "pulse", "or", "deleted"}
          /\ ready' + (IF e_cpc' = "and" THEN 1 ELSE 0) <= round'
      BY <1>1 DEF E!TimedController, E!ControllerTask, E!StartRound, E!ControllerTimesOut,
                  E!Report, E!SetDone, E!ClearDone, E!ControllerEnds, E!appVars, GroupTypes
    <2> QED
      BY <2>1, <2>2, <2>3
  <1>2. ASSUME NEW s \in GroupSensors, E!TimedSensor(s) PROVE GroupTyped'
    <2>1. GroupTypes'
      BY <1>2, GroupTypesKept DEF E!TimedNext
    <2>2. UNCHANGED <<e_apc, e_cpc, round, ready>>
      BY <1>2 DEF E!TimedSensor, E!Sensor, E!SamplingEnds, E!Announce, E!WaitDone,
                  E!DoneTimesOut, E!NextSample, E!appVars
    <2>3. \A r \in GroupSensors :
             samples'[r] <= MaxSamples /\ (spc'[r] = "set" => samples'[r] < MaxSamples)
      BY <1>2 DEF E!TimedSensor, E!Sensor, E!SamplingEnds, E!Announce, E!WaitDone,
                  E!DoneTimesOut, E!NextSample, E!appVars, GroupTypes
    <2> QED
      BY <2>1, <2>2, <2>3
  <1>3. CASE E!TimedAlarm
    <2>1. GroupTypes'
      BY <1>3, GroupTypesKept DEF E!TimedNext
    <2> QED
      BY <1>3, <2>1 DEF E!TimedAlarm, E!RaiseAlarm
  <1>4. CASE E!Tick
    <2>1. GroupTypes'
      BY <1>4, GroupTypesKept DEF E!TimedNext
    <2> QED
      BY <1>4, <2>1 DEF E!Tick, E!vars, E!appVars
  <1>5. CASE UNCHANGED eVars
    BY <1>5 DEF eVars, GroupTypes
  <1> QED
    BY <1>1, <1>2, <1>3, <1>4, <1>5 DEF E!TimedNext

LEMMA TwdtTypedStep ==
    ASSUME TwdtTyped, W!Next \/ UNCHANGED wVars PROVE TwdtTyped'
  <1> Timeout \in Nat \ {0} /\ HangTick \in Nat \ {0, 1}
    BY BoardAssumption DEF W!ConstantsAssumption
  <1> USE DEF TwdtTyped, W!CheckIn, W!Subscribe, W!Countdown,
              W!tasks, W!twdt
  <1>1. CASE W!InitTwdt
    BY <1>1 DEF W!InitTwdt
  <1>2. CASE W!CreateTask
    BY <1>2 DEF W!CreateTask
  <1>3. CASE W!AddA
    BY <1>3 DEF W!AddA
  <1>4. CASE W!AddB
    BY <1>4 DEF W!AddB
  <1>5. CASE W!LoopA
    <2>0. "A" \in subscribed /\ W!CheckIn("A")
      BY <1>5 DEF W!LoopA
    <2>1. \/ checkedIn' = {} /\ elapsed' = 0
          \/ checkedIn' = checkedIn \cup {"A"} /\ elapsed' = elapsed
      BY <2>0
    <2>2. checkedIn' \subseteq subscribed /\ elapsed' \in Nat /\ elapsed' < Timeout
      <3>1. CASE checkedIn' = {} /\ elapsed' = 0
        BY <3>1
      <3>2. CASE checkedIn' = checkedIn \cup {"A"} /\ elapsed' = elapsed
        BY <2>0, <3>2
      <3> QED
        BY <2>1, <3>1, <3>2
    <2> QED
      BY <1>5, <2>2 DEF W!LoopA
  <1>6. CASE W!ArmHang
    BY <1>6 DEF W!ArmHang
  <1>13. CASE W!DelayEndsA
    BY <1>13 DEF W!DelayEndsA
  <1>7. CASE W!LoopB
    <2>0. "B" \in subscribed /\ W!CheckIn("B")
      BY <1>7 DEF W!LoopB
    <2>1. \/ checkedIn' = {} /\ elapsed' = 0
          \/ checkedIn' = checkedIn \cup {"B"} /\ elapsed' = elapsed
      BY <2>0
    <2>2. checkedIn' \subseteq subscribed /\ elapsed' \in Nat /\ elapsed' < Timeout
      <3>1. CASE checkedIn' = {} /\ elapsed' = 0
        BY <3>1
      <3>2. CASE checkedIn' = checkedIn \cup {"B"} /\ elapsed' = elapsed
        BY <2>0, <3>2
      <3> QED
        BY <2>1, <3>1, <3>2
    <2> QED
      BY <1>7, <2>2 DEF W!LoopB
  <1>8. CASE W!HangB
    BY <1>8 DEF W!HangB
  <1>14. CASE W!DelayEndsB
    BY <1>14 DEF W!DelayEndsB
  <1>9. CASE W!Second
    <2>1. /\ \/ checkedIn' = {} /\ elapsed' = 0
             \/ checkedIn' = checkedIn /\ elapsed' = elapsed + 1
             \/ preInit /\ checkedIn' = checkedIn \cup {"idle"} /\ elapsed' = elapsed + 1
          /\ elapsed + 1 < Timeout
      BY <1>9 DEF W!Second
    <2>2. checkedIn' \subseteq subscribed /\ elapsed' \in Nat /\ elapsed' < Timeout
      <3>1. checkedIn' \subseteq subscribed
        BY <2>1
      <3>2. elapsed' = 0 \/ elapsed' = elapsed + 1
        BY <2>1
      <3> QED
        BY <2>1, <3>1, <3>2
    <2>3. hungFor' \in Nat /\ hungFor' <= Timeout + 1
      BY <1>9 DEF W!Second
    <2> QED
      BY <1>9, <2>2, <2>3 DEF W!Second
  <1>10. CASE W!PanicReset
    <2>1. /\ subscribed' \subseteq {"A", "B", "idle"} /\ checkedIn' = {}
          /\ preInit' = preInit /\ (preInit => "idle" \in subscribed')
      BY <1>10 DEF W!PanicReset
    <2>2. /\ reason' = "TASK_WDT" /\ w_mpc' = "init" /\ apc' = "absent" /\ bpc' = "absent"
          /\ atick' = 0 /\ atimer' = 0 /\ btimer' = 0 /\ elapsed' = 0 /\ hungFor' = 0
          /\ g_simulate_hang' = FALSE /\ panics' = FALSE /\ warnings' = warnings
      BY <1>10 DEF W!PanicReset
    <2>3. {preInit', g_simulate_hang', panics', warnings'} \subseteq BOOLEAN
      BY <2>1, <2>2, Zenon
    <2> QED
      BY <2>1, <2>2, <2>3
  <1>11. CASE W!Warn
    BY <1>11 DEF W!Warn
  <1>12. CASE UNCHANGED wVars
    BY <1>12 DEF wVars
  <1> QED
    BY <1>1, <1>2, <1>3, <1>4, <1>5, <1>6, <1>7, <1>8, <1>9, <1>10, <1>11, <1>12, <1>13, <1>14
       DEF W!Next, W!Task, W!Time

LEMMA DelayBoundsStep ==
    ASSUME PaceInv, DelayBounds, T!Next \/ UNCHANGED tVars PROVE DelayBounds'
  <1> DEFINE Span == UNION {0..d : d \in T!Delays}
  <1>1. /\ Span \subseteq Nat
        /\ \A d \in T!Delays : d \in Span
        /\ \A n \in Span : n > 0 => n - 1 \in Span
        /\ 0 \in Span
    <2>1. T!Delays \subseteq Nat \ {0} /\ SensorDelay \in T!Delays
      BY Delays DEF T!Delays
    <2>2. \A n : n \in Span <=> \E d \in T!Delays : n \in 0..d
      OBVIOUS
    <2> HIDE DEF Span
    <2>3. \A d \in T!Delays : d \in 0..d /\ 0 \in 0..d /\ \A n \in 0..d : n \in Nat /\ (n > 0 => n - 1 \in 0..d)
      BY <2>1
    <2> QED
      BY <2>1, <2>2, <2>3
  <1>2. /\ \A t \in T!Names : state[t] = "delay" => wakes[t] > 0
        /\ wakes \in [T!Names -> Span]
    BY DEF PaceInv, Sleepers, TaskTypes, DelayBounds
  <1>3. {SensorDelay, ProcessDelay, LoggerDelay, MonitorDelay, MonitorStart} \subseteq Span
    BY <1>1 DEF T!Delays
  <1> HIDE DEF Span
  <1>4. wakes' \in [T!Names -> Span]
    BY <1>1, <1>2, <1>3
       DEF T!Next, T!CreateTask, T!SensorTurn, T!ProcessStarts, T!ProcessEnds, T!LoggerTurn,
           T!MonitorTurn, T!Tick, T!SleepFor, tVars
  <1> QED
    BY <1>4 DEF DelayBounds, Span

LEMMA BoardTypesStep == BoardTypes /\ [BoardNext]_boardVars => BoardTypes'
  <1>1. [BoardNext]_boardVars =>
           /\ Next \/ UNCHANGED vars
           /\ Q!TimedNext \/ UNCHANGED qVars
           /\ E!TimedNext \/ UNCHANGED eVars
           /\ W!Next \/ UNCHANGED wVars
           /\ T!Next \/ UNCHANGED tVars
    BY DEF BoardNext, boardVars, PriorityInversionStep, SensorQueueStep, EventGroupsStep,
           WatchdogStep, TasksStep
  <1> QED
    BY <1>1, ScenarioTypedStep, QueueTypesKept, GroupTypedStep, TwdtTypedStep, PaceStep,
       DelayBoundsStep DEF BoardTypes

LEMMA BoardTypesInit == BoardInit => BoardTypes
  <1> SUFFICES ASSUME BoardInit PROVE BoardTypes
    OBVIOUS
  <1>1. ScenarioTyped
    BY ConstantsAssumption DEF BoardInit, Init, ScenarioTyped, TypeOK, Scenarios, Unset
  <1>2. Q!TypeOK /\ Uncreated
    BY BacklogInit DEF BoardInit, BacklogInv
  <1>3. GroupTyped
    <2> USE GroupConstants DEF BoardInit, E!TimedInit, E!Init, E!EventGroupInit
    <2>1. GroupTypes
      BY DEF GroupTypes
    <2> QED
      BY <2>1 DEF GroupTyped
  <1>4. TwdtTyped
    <2> Timeout \in Nat \ {0} /\ HangTick \in Nat \ {0, 1}
      BY BoardAssumption DEF W!ConstantsAssumption
    <2>1. subscribed \subseteq {"A", "B", "idle"} /\ (preInit => "idle" \in subscribed)
      BY DEF BoardInit, W!Init, W!TwdtAtBoot
    <2>2. {preInit, g_simulate_hang, panics, warnings} \subseteq BOOLEAN
      BY Zenon DEF BoardInit, W!Init, W!TwdtAtBoot
    <2> QED
      BY <2>1, <2>2 DEF BoardInit, W!Init, W!TwdtAtBoot, TwdtTyped
  <1>5. PaceInv
    BY PaceInit DEF BoardInit
  <1>6. DelayBounds
    BY Delays DEF BoardInit, T!Init, DelayBounds, T!Delays
  <1> QED
    BY <1>1, <1>2, <1>3, <1>4, <1>5, <1>6 DEF BoardTypes

\* Every variable of the five examples stays in its domain: MID's counter within
\* its turns, each count of samples and of rounds within its bound, the TWDT's
\* timer below the timeout and every wait of HIGH a length of time; for any
\* times, numbers of tasks and timeouts.
THEOREM TypesKept == BoardSpec => []TypesOK
  <1>1. BoardTypes => TypesOK
    <2> SUFFICES ASSUME BoardTypes PROVE TypesOK
      OBVIOUS
    <2>1. E!TypeOK
      <3> USE DEF BoardTypes, GroupTyped, GroupTypes
      <3>1. samples \in [GroupSensors -> 0..MaxSamples]
        BY GroupConstants
      <3>2. round \in 0..Rounds /\ ready \in 0..Rounds
        BY GroupConstants
      <3> QED
        BY <3>1, <3>2 DEF E!TypeOK
    <2>2. T!TypeOK
      BY TaskNames DEF BoardTypes, PaceInv, TaskTypes, DelayBounds, T!TypeOK
    <2>3. W!TypeOK
      BY BoardAssumption DEF BoardTypes, TwdtTyped, W!TypeOK, W!Subscribers, W!ConstantsAssumption
    <2> QED
      BY <2>1, <2>2, <2>3 DEF BoardTypes, ScenarioTyped, TypesOK
  <1> QED
    BY <1>1, BoardTypesInit, BoardTypesStep, PTL DEF BoardSpec
=============================================================================
