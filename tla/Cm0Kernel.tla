----------------------------- MODULE Cm0Kernel -----------------------------
(***************************************************************************)
(* The signals that connect the interrupt path of the Cortex-M0            *)
(* microcontroller (mcu/Cm0Microcontroller.cpp) and the part of the        *)
(* SystemC scheduler that decides who sees which value when.               *)
(*                                                                         *)
(* A process that writes an sc_signal schedules the value; the value       *)
(* becomes visible in the next delta cycle, together with all the others   *)
(* scheduled in this one, and only a signal whose value really changed     *)
(* triggers the processes sensitive to it.  The scheduler is a library     *)
(* (external to the repository): it is modelled from how the modules here  *)
(* use it.                                                                 *)
(***************************************************************************)
EXTENDS Integers, FiniteSets

CONSTANTS
    Irqs,           \* the interrupt lines of the NVIC in use, a subset of 0..31
    GpioIrq,        \* the line the GPIO port drives
    PipelineStages  \* 2 for "cm0+", 3 for "cm0" (CortexM0Version)

ASSUME IrqsAssumption == Irqs \subseteq 0..31
ASSUME GpioAssumption == GpioIrq \in Irqs
ASSUME StagesAssumption == PipelineStages \in {2, 3}

SYST_EXCEPT_ID == 15
NVIC_EXCEPT_ID_BASE == 16

NvicIds == {NVIC_EXCEPT_ID_BASE + i : i \in Irqs}
ExceptIds == NvicIds \cup {0, SYST_EXCEPT_ID}   \* 0: no exception

VARIABLES
    sig,    \* the signal values every process reads in this delta cycle
    nxt,    \* the values the update phase will give them
    run,    \* the processes runnable in this evaluation phase
    delta   \* the events notified for the next delta cycle

kernelVars == <<sig, nxt, run, delta>>

Signals ==
    [pwrOn     : BOOLEAN,               \* nReset
     active    : ExceptIds,             \* cpu_active_exception
     returning : ExceptIds,             \* cpu_returning_exception
     pending   : NvicIds \cup {-1, 0},  \* nvic_pending
     tickIrq   : BOOLEAN,               \* systick_irq
     irq       : [Irqs -> BOOLEAN]]     \* nvic_irq

Processes ==
    {"cpu", "nvicProcess", "nvicReset", "tickProcess", "tickIrqControl",
     "tickReset", "gpioProcess", "gpioIrqControl", "gpioReset"}

Events == {"nvicResetEvent", "tickUpdateIrq", "gpioUpdateIrq"}

\* What an sc_signal<bool>, an sc_signal<int> holds before it is written.
SignalInit == [pwrOn |-> FALSE, active |-> 0, returning |-> 0, pending |-> 0,
               tickIrq |-> FALSE, irq |-> [i \in Irqs |-> FALSE]]

\* The methods registered without dont_initialize() run once at the start.
KernelInit ==
    /\ sig = SignalInit
    /\ nxt = SignalInit
    /\ run = {"nvicProcess", "gpioProcess", "gpioReset"}
    /\ delta = {}

\* A runnable process takes its turn; the order within a phase is free.
Evaluate(p) == p \in run /\ run' = run \ {p}

\* Nothing left to do at this instant: time may advance.
Settled == run = {} /\ delta = {} /\ nxt = sig

Changed(s) == nxt[s] # sig[s]

\* The sensitivity lists of the statically sensitive methods.
StaticallyTriggered ==
    {p \in Processes :
        \/ /\ p = "nvicProcess"
           /\ \/ Changed("active") \/ Changed("returning") \/ Changed("irq")
              \/ "nvicResetEvent" \in delta
        \/ p = "nvicReset" /\ Changed("pwrOn")
        \/ /\ p = "tickIrqControl"
           /\ Changed("returning") \/ "tickUpdateIrq" \in delta
        \/ p = "tickReset" /\ Changed("pwrOn")
        \/ /\ p = "gpioIrqControl"
           /\ Changed("active") \/ "gpioUpdateIrq" \in delta
        \/ p = "gpioReset" /\ Changed("pwrOn")
        \/ p = "gpioProcess" /\ Changed("pwrOn") /\ nxt.pwrOn}

\* The update phase and the delta notification phase: every scheduled value
\* becomes visible and whoever waits for a change or an event is made runnable.
\* 'woken' is the processes waiting dynamically (the CPU thread).
Update(woken) ==
    /\ run = {}
    /\ ~Settled
    /\ sig' = nxt
    /\ run' = StaticallyTriggered \cup woken
    /\ delta' = {}
    /\ UNCHANGED nxt
=============================================================================
