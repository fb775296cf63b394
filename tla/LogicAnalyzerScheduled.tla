----------------------- MODULE LogicAnalyzerScheduled -----------------------
(***************************************************************************)
(* examples/11_logic_analyzer from app_main on, with the priorities of its *)
(* tasks: main 1, SigGen 2, Sampler 10, Analyzer 1.  On the single core a  *)
(* task takes a step only when no ready task has a higher priority.  The   *)
(* sampler waits with esp_rom_delay_us, which keeps the processor: it is   *)
(* ready for ever.  The tick interrupt alone is above all tasks.           *)
(***************************************************************************)
EXTENDS LogicAnalyzer

VARIABLES
    created,   \* tasks app_main has created: SigGen, Sampler, Analyzer
    sig,       \* where SigGen is
    pin        \* the level it drives on GPIO3

svars == <<vars, created, sig, pin>>

Prio(t) ==
    CASE t = "main" -> 1 [] t = "SigGen" -> 2
      [] t = "Sampler" -> 10 [] t = "Analyzer" -> 1

Ready ==
    {t \in {"main", "SigGen", "Sampler", "Analyzer"} :
        CASE t = "main"     -> created < 3
          [] t = "SigGen"   -> sig = "ready"
          [] t = "Sampler"  -> created >= 2
          [] t = "Analyzer" -> created >= 3 /\ apc # "delay"}

Runs(t) == t \in Ready /\ \A u \in Ready : Prio(u) <= Prio(t)

\* The next of app_main's three xTaskCreate calls
CreateTask ==
    /\ Runs("main")
    /\ created' = created + 1
    /\ sig' = IF created = 0 THEN "ready" ELSE sig
    /\ UNCHANGED <<vars, pin>>

\* gpio_set_level, level ^= 1, vTaskDelay
SigGenStep ==
    /\ Runs("SigGen")
    /\ pin' = 1 - pin
    /\ sig' = "delay"
    /\ UNCHANGED <<vars, created>>

SamplerStep ==
    /\ Runs("Sampler")
    /\ Sample \/ Store
    /\ UNCHANGED <<created, sig, pin>>

AnalyzerStep ==
    /\ Runs("Analyzer")
    /\ Analyzer
    /\ UNCHANGED <<created, sig, pin>>

TickEndsDelay ==
    \/ /\ sig = "delay" /\ sig' = "ready"
       /\ UNCHANGED <<vars, created, pin>>
    \/ /\ created >= 3 /\ DelayEnds
       /\ UNCHANGED <<created, sig, pin>>

ScheduledInit == Init /\ created = 0 /\ sig = "absent" /\ pin = 1

ScheduledNext ==
    \/ CreateTask \/ SigGenStep \/ SamplerStep \/ AnalyzerStep \/ TickEndsDelay

\* The processor never idles while a task is ready, and the tick never stops.
ScheduledSpec ==
    /\ ScheduledInit /\ [][ScheduledNext]_svars
    /\ WF_svars(CreateTask) /\ WF_svars(SigGenStep) /\ WF_svars(SamplerStep)
    /\ WF_svars(AnalyzerStep) /\ WF_svars(TickEndsDelay)

-----------------------------------------------------------------------------
(* Properties *)

\* "a high-priority Sampler captures GPIO state at ~100 kHz and a
\* low-priority Analyzer processes it": the analyzer processes some sample.
AnalyzerProcesses == <>Reading

=============================================================================
