----------------------------- MODULE Msp430Cpu ------------------------------
(***************************************************************************)
(* The thread of mcu/msp430fr5xx/Msp430Cpu.cpp as far as power, sleep and  *)
(* interrupts go.  It gives up control where it waits:                     *)
(*   "waitPwr"  for the rising edge of pwrOn                               *)
(*   "sleep"    for a period of MCLK, with CPUOFF set                      *)
(*   "fetch"    for the fetch and the operands of an instruction           *)
(*   "store"    for the access that a store makes                          *)
(*   "stack"    for the pushes of PC and SR                                *)
(*   "ack"      for two periods with ira up                                *)
(*   "vector"   for the read of the interrupt vector                       *)
(*   "reti"     for the pops of SR and PC                                  *)
(* Instructions are abstracted to what they do to this state.  The debugger*)
(* lets the core run free (m_run).                                         *)
(***************************************************************************)
EXTENDS Msp430Kernel

CONSTANT MaxNesting     \* bound: how deep the program lets handlers nest
ASSUME NestingAssumption == MaxNesting \in Nat \ {0}

VARIABLES
    phase,      \* where process() waits
    gie,        \* SR: GIE
    cpuoff,     \* SR: CPUOFF
    stack,      \* the SRs pushed by interrupts, the newest last
    vector,     \* the line whose vector 'addr' is
    booted      \* history: the reset vector was taken since pwrOn rose

cpuVars == <<phase, gie, cpuoff, stack, vector, booted>>

TimedPhases == {"sleep", "fetch", "store", "stack", "ack", "vector", "reti"}
StatusRegisters == [gie : BOOLEAN, cpuoff : BOOLEAN]

CpuTypeOK ==
    /\ phase \in TimedPhases \cup {"waitPwr"}
    /\ gie \in BOOLEAN /\ cpuoff \in BOOLEAN /\ booted \in BOOLEAN
    /\ vector \in Lines
    /\ stack \in Seq(StatusRegisters) /\ Len(stack) <= MaxNesting

CpuInit ==
    /\ phase = "waitPwr" /\ gie = FALSE /\ cpuoff = FALSE /\ stack = <<>>
    /\ vector = PMM /\ booted = FALSE

\* What processInterrupt() does first at the top of the loop.
TakesReset == sig.pwrOn /\ sig.irq /\ sig.idx = PMM
TakesInterrupt(enabled) ==
    sig.pwrOn /\ sig.irq /\ sig.idx # PMM /\ (enabled \/ sig.idx < 3)

(***************************************************************************)
(* The top of the loop, with the SR the last turn has left: power, then    *)
(* interrupt, then sleep or fetch.                                         *)
(***************************************************************************)
NextTurn(enabled, off, signals) ==
    /\ gie' = enabled /\ cpuoff' = off
    /\ nxt' = IF TakesReset THEN [signals EXCEPT !.ira = TRUE] ELSE signals
    /\ vector' = IF TakesReset THEN PMM ELSE vector
    /\ phase' = CASE ~sig.pwrOn -> "waitPwr"
                  [] TakesReset -> "ack"
                  [] TakesInterrupt(enabled) -> "stack"
                  [] OTHER -> IF off THEN "sleep" ELSE "fetch"

\* Mutant: reset() clears SR like every other register.
CpuPowerUp_NotOff ==
    /\ phase = "waitPwr" /\ Evaluate("cpu")
    /\ stack' = <<>> /\ booted' = FALSE
    /\ NextTurn(FALSE, FALSE, nxt)
    /\ UNCHANGED sig

\* pwrOn has risen: reset() sets CPUOFF, "Don't execute anything until we get
\* the power-up NMI".
CpuPowerUp ==
    /\ phase = "waitPwr" /\ Evaluate("cpu")
    /\ stack' = <<>> /\ booted' = FALSE
    /\ NextTurn(FALSE, TRUE, nxt)
    /\ UNCHANGED sig

CpuSleeps ==
    /\ phase = "sleep" /\ Evaluate("cpu")
    /\ NextTurn(gie, cpuoff, nxt)
    /\ UNCHANGED <<sig, stack, booted>>

\* The vector is chosen by the index of now, after the stacking.
CpuStacked ==
    /\ phase = "stack" /\ Evaluate("cpu")
    /\ stack' = Append(stack, [gie |-> gie, cpuoff |-> cpuoff])
    /\ vector' = sig.idx
    /\ nxt' = [nxt EXCEPT !.ira = TRUE]
    /\ phase' = "ack"
    /\ UNCHANGED <<sig, gie, cpuoff, booted>>

CpuAcknowledged ==
    /\ phase = "ack" /\ Evaluate("cpu")
    /\ nxt' = [nxt EXCEPT !.ira = FALSE]
    /\ gie' = FALSE /\ cpuoff' = FALSE
    /\ phase' = "vector"
    /\ UNCHANGED <<sig, stack, vector, booted>>

\* The first instruction of the handler follows, whatever became of the power.
CpuEntersHandler ==
    /\ phase = "vector" /\ Evaluate("cpu")
    /\ phase' = "fetch"
    /\ booted' = (booted \/ vector = PMM)
    /\ UNCHANGED <<sig, nxt, gie, cpuoff, stack, vector>>

-----------------------------------------------------------------------------
(* Instructions *)

Executing == phase = "fetch" /\ Evaluate("cpu") /\ UNCHANGED <<sig, booted>>

\* BIS #..., SR and BIC #..., SR; an instruction that leaves SR alone.
CpuExecSetSr ==
    /\ Executing
    /\ \E enabled, off \in BOOLEAN :
        /\ enabled => Len(stack) < MaxNesting
        /\ NextTurn(enabled, off, nxt)
    /\ UNCHANGED stack

\* A store reaches the register at once, then the thread waits.
CpuExecStore ==
    /\ Executing
    /\ phase' = "store"
    /\ UNCHANGED <<nxt, gie, cpuoff, stack, vector>>

CpuFinishStore ==
    /\ phase = "store" /\ Evaluate("cpu")
    /\ NextTurn(gie, cpuoff, nxt)
    /\ UNCHANGED <<sig, stack, booted>>

CpuExecReti ==
    /\ Executing /\ stack # <<>>
    /\ phase' = "reti"
    /\ UNCHANGED <<nxt, gie, cpuoff, stack, vector>>

CpuFinishReti ==
    /\ phase = "reti" /\ Evaluate("cpu")
    /\ LET saved == stack[Len(stack)] IN NextTurn(saved.gie, saved.cpuoff, nxt)
    /\ stack' = SubSeq(stack, 1, Len(stack) - 1)
    /\ UNCHANGED <<sig, booted>>
=============================================================================
