----------------------------- MODULE CortexM0Cpu -----------------------------
(***************************************************************************)
(* The main thread of the Cortex-M0 model, mcu/cortex-m0/CortexM0Cpu.cpp,  *)
(* as far as exceptions, sleep, power and the pipeline are concerned.      *)
(*                                                                         *)
(* process() is a thread that gives up control only where it waits:        *)
(*   "waitPwr"  for pwrOn to change                                        *)
(*   "reset"    for the reads of reset()                                   *)
(*   "fetch"    for the fetch of the next instruction                      *)
(*   "store"    for the bus access of an executed store                    *)
(*   "enter"    for the stacking and the vector read of exceptionEnter()   *)
(*   "return"   for the unstacking of exceptionReturn()                    *)
(*   "sleep"    for a change of an interrupt signal or of pwrOn            *)
(* Several waits in a row with nothing but private state between them are  *)
(* one phase.  Instructions are abstracted to what they do to this state;  *)
(* the program decides which comes next.  The GDB controls (m_run,         *)
(* breakpoints) are those of a free running core.                          *)
(***************************************************************************)
EXTENDS Cm0Kernel

VARIABLES
    phase,     \* where process() waits
    ipsr,      \* cpu.ipsr, the exception being handled
    entering,  \* exceptionId of the exceptionEnter() in progress, or 0
    sleeping,  \* m_sleeping
    bubbles    \* m_bubbles

cpuVars == <<phase, ipsr, entering, sleeping, bubbles>>

TimedPhases == {"reset", "fetch", "store", "enter", "return"}
Phases == TimedPhases \cup {"waitPwr", "sleep"}

CpuTypeOK ==
    /\ phase \in Phases
    /\ ipsr \in ExceptIds
    /\ entering \in ExceptIds
    /\ sleeping \in BOOLEAN
    /\ bubbles \in 0..(PipelineStages - 1)

\* The thread finds the power off at its first loop and waits for it.
CpuInit ==
    /\ phase = "waitPwr" /\ ipsr = 0 /\ entering = 0
    /\ sleeping = FALSE /\ bubbles = 0

\* flushPipeline() leaves this many NOPs to be executed.
Flushed == PipelineStages - 1

\* The exception exceptionCheck() picks: SysTick first, then what the NVIC
\* drives (-1: nothing pending; 0: NVIC without power).
PendingException ==
    IF sig.tickIrq THEN SYST_EXCEPT_ID
    ELSE IF sig.pending # -1 THEN sig.pending ELSE 0

(***************************************************************************)
(* The end of one turn of the loop of process() and the beginning of the   *)
(* next, up to where it waits: power check, exceptionCheck(),              *)
(* returningException.write(0), then sleep or fetch.  The arguments are    *)
(* the values the turn leaves in m_sleeping, m_bubbles and cpu.ipsr, and   *)
(* the signals it has scheduled.                                           *)
(***************************************************************************)
NextTurn(slp, bub, psr, scheduled) ==
    /\ bubbles' = bub
    /\ ipsr' = psr
    /\ IF ~sig.pwrOn
       THEN /\ phase' = "waitPwr" /\ sleeping' = slp
            /\ nxt' = scheduled
            /\ UNCHANGED entering
       ELSE IF psr = 0 /\ PendingException # 0
       THEN /\ phase' = "enter" /\ sleeping' = FALSE
            /\ entering' = PendingException
            /\ nxt' = scheduled
       ELSE /\ phase' = IF slp THEN "sleep" ELSE "fetch"
            /\ sleeping' = slp
            /\ nxt' = [scheduled EXCEPT !.returning = 0]
            /\ UNCHANGED entering

\* Mutant: a core without bubbles loses one too.
Drained_Underflow(n) == n - 1

Drained(n) == IF n > 0 THEN n - 1 ELSE 0

\* Power has changed: start reset(), which clears the core's own state but
\* neither activeException nor returningException.
CpuStartReset ==
    /\ phase = "waitPwr" /\ Evaluate("cpu")
    /\ phase' = "reset"
    /\ sleeping' = FALSE /\ ipsr' = 0
    /\ UNCHANGED <<sig, nxt, delta, entering, bubbles>>

CpuFinishReset ==
    /\ phase = "reset" /\ Evaluate("cpu")
    /\ NextTurn(sleeping, Flushed, ipsr, nxt)
    /\ UNCHANGED <<sig, delta>>

CpuWake ==
    /\ phase = "sleep" /\ Evaluate("cpu")
    /\ NextTurn(sleeping, bubbles, ipsr, nxt)
    /\ UNCHANGED <<sig, delta>>

\* The end of exceptionEnter(), then returningException.write(0) and the fetch.
CpuEnterException ==
    /\ phase = "enter" /\ Evaluate("cpu")
    /\ ipsr' = entering
    /\ entering' = 0
    /\ nxt' = [nxt EXCEPT !.active = entering, !.returning = 0]
    /\ bubbles' = Flushed
    /\ phase' = "fetch"
    /\ UNCHANGED <<sig, delta, sleeping>>

(***************************************************************************)
(* Executing the instruction at the head of the queue.  While there are    *)
(* bubbles that is a NOP of flushPipeline().                               *)
(***************************************************************************)
Executing == phase = "fetch" /\ Evaluate("cpu")

CpuExecPlain ==
    /\ Executing
    /\ NextTurn(FALSE, Drained(bubbles), ipsr, nxt)
    /\ UNCHANGED <<sig, delta>>

CpuExecBranch ==
    /\ Executing /\ bubbles = 0
    /\ NextTurn(FALSE, Flushed, ipsr, nxt)
    /\ UNCHANGED <<sig, delta>>

CpuExecWfi ==
    /\ Executing /\ bubbles = 0
    /\ NextTurn(TRUE, bubbles, ipsr, nxt)
    /\ UNCHANGED <<sig, delta>>

\* A store reaches the target at once, then the thread waits for the access.
CpuExecStore ==
    /\ Executing /\ bubbles = 0
    /\ phase' = "store"
    /\ UNCHANGED <<sig, nxt, delta, ipsr, entering, sleeping, bubbles>>

CpuFinishStore ==
    /\ phase = "store" /\ Evaluate("cpu")
    /\ NextTurn(FALSE, Drained(bubbles), ipsr, nxt)
    /\ UNCHANGED <<sig, delta>>

\* exceptionReturn(): announce the return first, restore the registers, and
\* only then drop activeException.
CpuExecReturn ==
    /\ Executing /\ bubbles = 0 /\ ipsr # 0
    /\ nxt' = [nxt EXCEPT !.returning = ipsr]
    /\ ipsr' = 0
    /\ phase' = "return"
    /\ UNCHANGED <<sig, delta, entering, sleeping, bubbles>>

CpuFinishReturn ==
    /\ phase = "return" /\ Evaluate("cpu")
    /\ NextTurn(FALSE, Flushed, ipsr, [nxt EXCEPT !.active = 0])
    /\ UNCHANGED <<sig, delta>>

\* Mutant: a sleeping core does not wait for the NVIC.
CpuTriggered_NoNvic ==
    \/ phase \in {"sleep", "waitPwr"} /\ Changed("pwrOn")
    \/ phase = "sleep" /\ Changed("tickIrq")

\* Whether the update phase wakes the thread: the wait of "sleep" and "waitPwr".
CpuTriggered ==
    \/ phase \in {"sleep", "waitPwr"} /\ Changed("pwrOn")
    \/ phase = "sleep" /\ (Changed("tickIrq") \/ Changed("pending"))
=============================================================================
