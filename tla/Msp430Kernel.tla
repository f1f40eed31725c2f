---------------------------- MODULE Msp430Kernel ----------------------------
(***************************************************************************)
(* The signals of the MSP430 interrupt path (mcu/Msp430Microcontroller.cpp)*)
(* and the delta cycles in which their values travel: a written value is   *)
(* visible in the next delta cycle, together with all the others, and only *)
(* a signal whose value changed triggers the processes sensitive to it.    *)
(* Three lines of the arbiter are in use: the power management module,     *)
(* Timer_A and port 1.  The port has no acknowledgement.                   *)
(***************************************************************************)
EXTENDS Integers, FiniteSets, Sequences

PMM == 0        \* irqIn[0], the reset vector 0xfffe
TIMA == 10      \* irqIn[10]
PORT1 == 16     \* irqIn[16]
Lines == {PMM, TIMA, PORT1}
Acknowledged == {PMM, TIMA}     \* the lines whose iraOut is bound

VARIABLES
    sig,    \* the signal values every process reads in this delta cycle
    nxt,    \* the values the update phase will give them
    run     \* the processes runnable in this evaluation phase

kernelVars == <<sig, nxt, run>>

\* The supply as the thresholds tell it apart: below vOff, between, above vOn.
Supply == {"low", "between", "high"}

Signals ==
    [vcc    : Supply,
     pwrOn  : BOOLEAN,                      \* nReset, bound to pwrGood
     irqIn  : [Lines -> BOOLEAN],           \* pmm_irq, tima_irq, port1_irq
     iraOut : [Acknowledged -> BOOLEAN],    \* pmm_ira, tima_ira
     irq    : BOOLEAN,                      \* cpu_irq
     idx    : Lines,                        \* cpu_irqIdx
     ira    : BOOLEAN]                      \* cpu_ira

Processes ==
    {"cpu", "arbiter", "pmm", "timer", "timerReset", "port", "portReset"}

SignalInit ==
    [vcc |-> "low", pwrOn |-> FALSE, irqIn |-> [l \in Lines |-> FALSE],
     iraOut |-> [l \in Acknowledged |-> FALSE], irq |-> FALSE, idx |-> PMM,
     ira |-> FALSE]

\* The methods that are not registered with dont_initialize() run at the start.
KernelInit ==
    /\ sig = SignalInit /\ nxt = SignalInit
    /\ run = {"arbiter", "pmm", "timer", "port"}

\* A runnable process takes its turn; the order within a phase is free.
Evaluate(p) == p \in run /\ run' = run \ {p}

\* Nothing left to do at this instant: time may advance.
Settled == run = {} /\ nxt = sig

Changed(s) == nxt[s] # sig[s]

\* The update phase; 'woken' is the processes triggered by what has changed.
Update(woken) ==
    /\ run = {} /\ ~Settled
    /\ sig' = nxt
    /\ run' = woken
    /\ UNCHANGED nxt
=============================================================================
