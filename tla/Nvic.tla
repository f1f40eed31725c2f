-------------------------------- MODULE Nvic --------------------------------
(***************************************************************************)
(* The nested vectored interrupt controller, mcu/cortex-m0/Nvic.cpp.       *)
(* 32-bit registers are sets of line numbers: bit i set is i \in register. *)
(* ISER and ICER always hold the same value, and so do ISPR and ICPR (both *)
(* written by process()), so each pair is one variable.                    *)
(***************************************************************************)
EXTENDS Cm0Kernel

CONSTANT Prios  \* the priorities software uses, the top two bits of an IPR byte
ASSUME PriosAssumption == Prios \subseteq 0..3 /\ 0 \in Prios

VARIABLES
    iser,         \* OFS_NVIC_ISER = OFS_NVIC_ICER
    ispr,         \* OFS_NVIC_ISPR = OFS_NVIC_ICPR
    ipr,          \* priority of each line, OFS_NVIC_IPRn
    prevIrq,      \* m_prevIrq
    prevActive,   \* m_prevActive
    swSetPending, \* m_swSetPending
    swClearPending, \* m_swClearPending
    nvicWritten   \* m_writeEvent is notified for the end of the bus access

nvicVars == <<iser, ispr, ipr, prevIrq, prevActive, swSetPending,
              swClearPending, nvicWritten>>

NvicTypeOK ==
    /\ iser \subseteq Irqs /\ ispr \subseteq Irqs
    /\ ipr \in [Irqs -> Prios]
    /\ prevIrq \subseteq Irqs
    /\ prevActive \in ExceptIds \cup {-1}
    /\ swSetPending \subseteq Irqs /\ swClearPending \subseteq Irqs
    /\ nvicWritten \in BOOLEAN

NvicInit ==
    /\ iser = {} /\ ispr = {} /\ ipr = [i \in Irqs |-> 0]
    /\ prevIrq = {} /\ prevActive = -1
    /\ swSetPending = {} /\ swClearPending = {}
    /\ nvicWritten = FALSE

\* A line asks to be pended: an edge, a level still high when its handler
\* returns, or a software request.
SetPend(i) ==
    \/ sig.irq[i] /\ i \notin prevIrq
    \/ sig.irq[i] /\ sig.returning = i + NVIC_EXCEPT_ID_BASE
    \/ i \in swSetPending

\* Mutant: forgets to clear a line whose handler starts.
ClearPend_NotAtEntry(i) == ~sig.irq[i] /\ i \in swClearPending

\* A line asks to be cleared: by software while the level is low, or because
\* the CPU has just started its handler.
ClearPend(i) ==
    \/ ~sig.irq[i] /\ i \in swClearPending
    \/ /\ sig.active = i + NVIC_EXCEPT_ID_BASE
       /\ sig.active # prevActive

\* Setting wins over clearing.
Resolve(pend) == {i \in Irqs : SetPend(i) \/ (i \in pend /\ ~ClearPend(i))}

\* The lowest priority value wins, the lowest line number among equals.
MoreUrgent(i, j) == ipr[i] < ipr[j] \/ (ipr[i] = ipr[j] /\ i <= j)

\* The value driven on nvic_pending.
HighestPending(pend) ==
    LET ready == pend \cap iser
    IN  IF ready = {}
        THEN -1
        ELSE NVIC_EXCEPT_ID_BASE
               + (CHOOSE i \in ready : \A j \in ready : MoreUrgent(i, j))

\* Mutant: drives the output before it has updated the pending bits.
NvicProcess_DrivesFirst ==
    /\ Evaluate("nvicProcess")
    /\ IF sig.pwrOn
       THEN /\ ispr' = Resolve(ispr)
            /\ nxt' = [nxt EXCEPT !.pending = HighestPending(ispr)]
            /\ prevIrq' = {i \in Irqs : sig.irq[i]}
            /\ prevActive' = sig.active
            /\ swSetPending' = {} /\ swClearPending' = {}
       ELSE /\ nxt' = [nxt EXCEPT !.pending = 0]
            /\ UNCHANGED <<ispr, prevIrq, prevActive, swSetPending,
                           swClearPending>>
    /\ UNCHANGED <<sig, delta, iser, ipr, nvicWritten>>

NvicProcess ==
    /\ Evaluate("nvicProcess")
    /\ IF sig.pwrOn
       THEN /\ ispr' = Resolve(ispr)
            /\ nxt' = [nxt EXCEPT !.pending = HighestPending(Resolve(ispr))]
            /\ prevIrq' = {i \in Irqs : sig.irq[i]}
            /\ prevActive' = sig.active
            /\ swSetPending' = {} /\ swClearPending' = {}
       ELSE /\ nxt' = [nxt EXCEPT !.pending = 0]
            /\ UNCHANGED <<ispr, prevIrq, prevActive, swSetPending,
                           swClearPending>>
    /\ UNCHANGED <<sig, delta, iser, ipr, nvicWritten>>

\* Mutant: does not make process() run after a reset.
NvicReset_NoNotify ==
    /\ Evaluate("nvicReset")
    /\ iser' = {} /\ ispr' = {} /\ ipr' = [i \in Irqs |-> 0]
    /\ prevIrq' = {} /\ prevActive' = -1
    /\ swSetPending' = {} /\ swClearPending' = {}
    /\ UNCHANGED <<sig, nxt, delta, nvicWritten>>

\* Runs at both edges of pwrOn.
NvicReset ==
    /\ Evaluate("nvicReset")
    /\ iser' = {} /\ ispr' = {} /\ ipr' = [i \in Irqs |-> 0]
    /\ prevIrq' = {} /\ prevActive' = -1
    /\ swSetPending' = {} /\ swClearPending' = {}
    /\ delta' = delta \cup {"nvicResetEvent"}
    /\ UNCHANGED <<sig, nxt, nvicWritten>>

(***************************************************************************)
(* b_transport: what a 32-bit write does to the registers at once.  The    *)
(* write event that makes process() run fires when the access completes.   *)
(***************************************************************************)
WriteISER(bits) ==
    /\ iser' = iser \cup bits
    /\ UNCHANGED <<ispr, ipr, prevIrq, prevActive, swSetPending,
                   swClearPending>>

WriteICER(bits) ==
    /\ iser' = iser \ bits
    /\ UNCHANGED <<ispr, ipr, prevIrq, prevActive, swSetPending,
                   swClearPending>>

WriteISPR(bits) ==
    /\ swSetPending' = bits
    /\ UNCHANGED <<iser, ispr, ipr, prevIrq, prevActive, swClearPending>>

WriteICPR(bits) ==
    /\ swClearPending' = bits
    /\ UNCHANGED <<iser, ispr, ipr, prevIrq, prevActive, swSetPending>>

WriteIPR(i, prio) ==
    /\ ipr' = [ipr EXCEPT ![i] = prio]
    /\ UNCHANGED <<iser, ispr, prevIrq, prevActive, swSetPending,
                   swClearPending>>

NvicWrite ==
    /\ nvicWritten' = TRUE
    /\ \/ \E i \in Irqs : \/ WriteISER({i}) \/ WriteICER({i})
                          \/ WriteISPR({i}) \/ WriteICPR({i})
       \/ \E i \in Irqs, prio \in Prios : WriteIPR(i, prio)
=============================================================================
