-------------------------- MODULE PriorityInversion --------------------------
(***************************************************************************)
(* examples/08_priority_inversion: three scenarios, each with its own      *)
(* semaphore and its own LOW, MID and HIGH task: an empty binary           *)
(* semaphore, a binary semaphore that was given, and a mutex.              *)
(*                                                                         *)
(* One unit of time is 100 ms.  Every task sleeps except for moments far   *)
(* shorter than a unit, so time advances only when no task is ready; a     *)
(* task takes a step only when no ready task has a higher priority, where  *)
(* the holder of a mutex inherits the priorities of those it blocks.       *)
(***************************************************************************)
EXTENDS Integers, FiniteSets, FiniteSetsExt

CONSTANTS
    LowDelay, MidDelay, HighDelay,  \* before a task's first step: 1, 5, 3
    LowWork,                        \* LOW's sleep with the resource: 30
    MidWork, MidTurns,              \* MID sleeps 4 times for 5
    ScenarioTime,                   \* run_scenario's wait: 60
    GapTime                         \* app_main's wait before the mutex: 10

ASSUME ConstantsAssumption ==
    {LowDelay, MidDelay, HighDelay, LowWork, MidWork, MidTurns,
     ScenarioTime, GapTime} \subseteq Nat \ {0}

Scenarios == 1..3
Mutex     == 3            \* the scenario with xSemaphoreCreateMutex()
Names     == {"LOW", "MID", "HIGH"}
Threads   == Names \X Scenarios

NoOne == <<"nobody", 0>>
Unset == -1

BasePrio(t) == CASE t[1] = "LOW" -> 1 [] t[1] = "MID" -> 2 [] t[1] = "HIGH" -> 3
MainPrio    == 1

VARIABLES
    now,       \* ticks since app_main began
    mpc,       \* where app_main is
    mtimer,    \* units left of app_main's delay
    scenario,  \* which run_scenario app_main is in
    resource,  \* g_resource: the semaphore of a scenario
    sem,       \* state of each scenario's semaphore
    count,     \* 1 if it can be taken
    holder,    \* the task that holds it
    pc,        \* where each task is
    timer,     \* units left of each task's delay
    turns,     \* MID's loop counter, by scenario
    handle,    \* the semaphore a task waits for
    since,     \* when HIGH began to wait, by scenario
    waited     \* how long HIGH waited, by scenario

semVs  == <<resource, sem, count, holder>>
mainVs == <<mpc, mtimer, scenario>>
taskVs == <<pc, timer, turns, handle, since, waited>>
vars   == <<now, semVs, mainVs, taskVs>>

-----------------------------------------------------------------------------
(* Scheduling *)

Waits(t) == pc[t] = "take" /\ (count[handle[t]] = 0 \/ sem[handle[t]] # "live")

\* Priority inheritance: only a mutex has it.
Prio(t) ==
    LET waiters == {u \in Threads : Waits(u) /\ handle[u] = Mutex /\ holder[Mutex] = t}
    IN  Max({BasePrio(t)} \cup {BasePrio(u) : u \in waiters})

Sleeping(t) == pc[t] \in {"delay", "work"} /\ timer[t] > 0
Ready(t)    == pc[t] \notin {"absent", "done"} /\ ~Sleeping(t) /\ ~Waits(t)
MainReady   == mpc \in {"start", "delete"} \/ (mpc \in {"wait", "gap"} /\ mtimer = 0)

Runs(t) ==
    /\ Ready(t)
    /\ \A u \in Threads : Ready(u) => Prio(u) <= Prio(t)
    /\ MainReady => MainPrio <= Prio(t)
MainRuns == MainReady /\ \A u \in Threads : Ready(u) => Prio(u) <= MainPrio

-----------------------------------------------------------------------------
(* The tasks *)

Start(t) == CASE t[1] = "LOW"  -> LowDelay
              [] t[1] = "MID"  -> MidDelay
              [] t[1] = "HIGH" -> HighDelay

\* The first vTaskDelay ends; LOW and HIGH go for g_resource.
DelayEnds(t) ==
    /\ Runs(t) /\ pc[t] = "delay"
    /\ IF t[1] = "MID"
       THEN /\ pc' = [pc EXCEPT ![t] = "work"]
            /\ timer' = [timer EXCEPT ![t] = MidWork]
            /\ UNCHANGED <<handle, since>>
       ELSE /\ pc' = [pc EXCEPT ![t] = "take"]
            /\ handle' = [handle EXCEPT ![t] = resource]
            /\ since' = IF t[1] = "HIGH" THEN [since EXCEPT ![t[2]] = now] ELSE since
            /\ UNCHANGED timer
    /\ UNCHANGED <<now, semVs, mainVs, turns, waited>>

\* LOW has the resource and sleeps for 3 s; HIGH gives it back at once.
Take(t) ==
    /\ Runs(t) /\ pc[t] = "take"
    /\ count' = [count EXCEPT ![handle[t]] = 0]
    /\ holder' = [holder EXCEPT ![handle[t]] = t]
    /\ IF t[1] = "LOW"
       THEN /\ pc' = [pc EXCEPT ![t] = "work"]
            /\ timer' = [timer EXCEPT ![t] = LowWork]
            /\ UNCHANGED waited
       ELSE /\ pc' = [pc EXCEPT ![t] = "give"]
            /\ waited' = [waited EXCEPT ![t[2]] = now - since[t[2]]]
            /\ UNCHANGED timer
    /\ UNCHANGED <<now, mainVs, resource, sem, turns, handle, since>>

LowWorkEnds(t) ==
    /\ Runs(t) /\ pc[t] = "work" /\ t[1] = "LOW"
    /\ pc' = [pc EXCEPT ![t] = "give"]
    /\ UNCHANGED <<now, semVs, mainVs, timer, turns, handle, since, waited>>

Give(t) ==
    /\ Runs(t) /\ pc[t] = "give"
    /\ count' = [count EXCEPT ![resource] = 1]
    /\ holder' = [holder EXCEPT ![resource] = NoOne]
    /\ pc' = [pc EXCEPT ![t] = "finish"]
    /\ UNCHANGED <<now, mainVs, resource, sem, timer, turns, handle, since, waited>>

\* Faulty: one turn too many.
FaultyMidTurn(t) ==
    /\ Runs(t) /\ pc[t] = "work" /\ t[1] = "MID"
    /\ turns' = [turns EXCEPT ![t[2]] = @ + 1]
    /\ IF turns[t[2]] < MidTurns
       THEN timer' = [timer EXCEPT ![t] = MidWork] /\ UNCHANGED pc
       ELSE pc' = [pc EXCEPT ![t] = "finish"] /\ UNCHANGED timer
    /\ UNCHANGED <<now, semVs, mainVs, handle, since, waited>>

\* One of MID's four sleeps ends.
MidTurn(t) ==
    /\ Runs(t) /\ pc[t] = "work" /\ t[1] = "MID"
    /\ turns' = [turns EXCEPT ![t[2]] = @ + 1]
    /\ IF turns[t[2]] + 1 < MidTurns
       THEN timer' = [timer EXCEPT ![t] = MidWork] /\ UNCHANGED pc
       ELSE pc' = [pc EXCEPT ![t] = "finish"] /\ UNCHANGED timer
    /\ UNCHANGED <<now, semVs, mainVs, handle, since, waited>>

\* The last message, and vTaskDelete(NULL).
Finish(t) ==
    /\ Runs(t) /\ pc[t] = "finish"
    /\ pc' = [pc EXCEPT ![t] = "done"]
    /\ UNCHANGED <<now, semVs, mainVs, timer, turns, handle, since, waited>>

Task(t) ==
    \/ DelayEnds(t) \/ Take(t) \/ LowWorkEnds(t)
    \/ Give(t) \/ MidTurn(t) \/ Finish(t)

-----------------------------------------------------------------------------
(* app_main and run_scenario *)

\* Faulty: a zero is missing in the scenario's wait.
FaultyStartScenario ==
    /\ MainRuns /\ mpc = "start"
    /\ resource' = scenario
    /\ sem' = [sem EXCEPT ![scenario] = "live"]
    /\ count' = [count EXCEPT ![scenario] = IF scenario = 1 THEN 0 ELSE 1]
    /\ pc' = [t \in Threads |-> IF t[2] = scenario THEN "delay" ELSE pc[t]]
    /\ timer' = [t \in Threads |-> IF t[2] = scenario THEN Start(t) ELSE timer[t]]
    /\ turns' = [turns EXCEPT ![scenario] = 0]
    /\ mpc' = "wait"
    /\ mtimer' = ScenarioTime \div 10
    /\ UNCHANGED <<now, holder, scenario, handle, since, waited>>

\* The semaphore is created (and given in scenario 2; a mutex starts free),
\* then the three tasks, which all begin with a delay in the same tick.
StartScenario ==
    /\ MainRuns /\ mpc = "start"
    /\ resource' = scenario
    /\ sem' = [sem EXCEPT ![scenario] = "live"]
    /\ count' = [count EXCEPT ![scenario] = IF scenario = 1 THEN 0 ELSE 1]
    /\ pc' = [t \in Threads |-> IF t[2] = scenario THEN "delay" ELSE pc[t]]
    /\ timer' = [t \in Threads |-> IF t[2] = scenario THEN Start(t) ELSE timer[t]]
    /\ turns' = [turns EXCEPT ![scenario] = 0]
    /\ mpc' = "wait"
    /\ mtimer' = ScenarioTime
    /\ UNCHANGED <<now, holder, scenario, handle, since, waited>>

WaitEnds ==
    /\ MainRuns /\ mpc = "wait"
    /\ mpc' = "delete"
    /\ UNCHANGED <<now, semVs, mtimer, scenario, taskVs>>

\* vSemaphoreDelete(resource), whoever may still wait for it
DeleteSemaphore ==
    /\ MainRuns /\ mpc = "delete"
    /\ sem' = [sem EXCEPT ![scenario] = "deleted"]
    /\ mpc' = CASE scenario = 1 -> "start" [] scenario = 2 -> "gap" [] scenario = 3 -> "returned"
    /\ mtimer' = GapTime
    /\ scenario' = IF scenario < 3 THEN scenario + 1 ELSE scenario
    /\ UNCHANGED <<now, resource, count, holder, taskVs>>

GapEnds ==
    /\ MainRuns /\ mpc = "gap"
    /\ mpc' = "start"
    /\ UNCHANGED <<now, semVs, mtimer, scenario, taskVs>>

MainTask == StartScenario \/ WaitEnds \/ DeleteSemaphore \/ GapEnds

\* Nobody is ready: a unit of time passes.
Countdown(n) == IF n > 0 THEN n - 1 ELSE 0

Tick ==
    /\ ~MainReady /\ (mpc # "returned" \/ \E t \in Threads : Sleeping(t))
    /\ \A t \in Threads : ~Ready(t)
    /\ now' = now + 1
    /\ mtimer' = Countdown(mtimer)
    /\ timer' = [t \in Threads |-> Countdown(timer[t])]
    /\ UNCHANGED <<semVs, mpc, scenario, pc, turns, handle, since, waited>>

\* app_main has returned: only blocked tasks and the idle task are left.
Idle ==
    /\ mpc = "returned" /\ \A t \in Threads : ~Ready(t) /\ ~Sleeping(t)
    /\ UNCHANGED vars

-----------------------------------------------------------------------------

Init ==
    /\ now = 0
    /\ mpc = "start" /\ mtimer = 0 /\ scenario = 1
    /\ resource = 0
    /\ sem = [k \in Scenarios |-> "none"]
    /\ count = [k \in Scenarios |-> 0]
    /\ holder = [k \in Scenarios |-> NoOne]
    /\ pc = [t \in Threads |-> "absent"]
    /\ timer = [t \in Threads |-> 0]
    /\ turns = [k \in Scenarios |-> 0]
    /\ handle = [t \in Threads |-> 0]
    /\ since = [k \in Scenarios |-> 0]
    /\ waited = [k \in Scenarios |-> Unset]

Next == MainTask \/ Tick \/ Idle \/ \E t \in Threads : Task(t)

Spec == Init /\ [][Next]_vars
FairSpec == Spec /\ WF_vars(Next)

-----------------------------------------------------------------------------
(* Properties *)

\* Every variable stays in its domain; a task that waits has a handle.
TypeOK ==
    /\ now \in Nat /\ mtimer \in Nat
    /\ mpc \in {"start", "wait", "delete", "gap", "returned"}
    /\ scenario \in Scenarios
    /\ resource \in 0..3
    /\ sem \in [Scenarios -> {"none", "live", "deleted"}]
    /\ count \in [Scenarios -> 0..1]
    /\ holder \in [Scenarios -> Threads \cup {NoOne}]
    /\ pc \in [Threads -> {"absent", "delay", "take", "work", "give", "finish", "done"}]
    /\ timer \in [Threads -> Nat]
    /\ turns \in [Scenarios -> 0..MidTurns]
    /\ handle \in [Threads -> 0..3]
    /\ \A t \in Threads : pc[t] = "take" => handle[t] \in Scenarios
    /\ since \in [Scenarios -> Nat]
    /\ waited \in [Scenarios -> Nat \cup {Unset}]

\* LOW sleeps with the resource, so MID never preempts it: HIGH waits for the
\* rest of LOW's sleep and not a tick longer, with a binary semaphore as with
\* a mutex.
WaitIndependentOfKind ==
    \A k \in Scenarios :
        waited[k] \in {Unset, LowDelay + LowWork - HighDelay}

\* "Actual with Mutex: FreeRTOS raises LOW prio -> HIGH finishes first", and
\* "inversion resolved (HIGH runs before MID completes)".
MutexResolvesInversion ==
    pc[<<"MID", Mutex>>] = "done" => pc[<<"HIGH", Mutex>>] = "done"

\* The tasks of a scenario use the semaphore of that scenario only: none of
\* them is late enough to meet the g_resource of the next one.
OwnSemaphoreOnly ==
    \A t \in Threads : pc[t] \in {"take", "give"} \/ (pc[t] = "work" /\ t[1] = "LOW") =>
        handle[t] = t[2] /\ (pc[t] = "give" => resource = t[2])

\* In the scenarios whose semaphore can be taken, all tasks have finished when
\* the semaphore is deleted.
GivenScenariosFinish ==
    mpc = "delete" /\ scenario # 1 => \A n \in Names : pc[<<n, scenario>>] = "done"

\* "Wait long enough for all tasks to finish": what run_scenario's comment
\* says of its wait.
AllTasksFinish ==
    mpc = "delete" => \A n \in Names : pc[<<n, scenario>>] = "done"

=============================================================================
