----------------------- MODULE PowerManagementModule ------------------------
(***************************************************************************)
(* mcu/msp430fr5xx/PowerManagementModule.cpp, its thread.  It waits for a  *)
(* change of the supply or of its acknowledgement ("watch"), or replays    *)
(* the boot current trace ("boot") and hears of neither.  The registers    *)
(* are left out: no value in them has an effect.                           *)
(***************************************************************************)
EXTENDS Msp430Kernel

VARIABLES
    pmmPhase,   \* where process() waits
    isOn        \* m_isOn

pmmVars == <<pmmPhase, isOn>>

PmmTypeOK == pmmPhase \in {"watch", "boot"} /\ isOn \in BOOLEAN
PmmInit == pmmPhase = "watch" /\ isOn = FALSE

\* What the end of each turn of the loop makes of the interrupt line.
Lowered(irq) == irq /\ ~sig.iraOut[PMM]

\* Mutant: the reset interrupt is raised only when the loop comes round again.
PmmDrive_NoIrq(on, irq) ==
    nxt' = [nxt EXCEPT !.pwrOn = on, !.irqIn[PMM] = Lowered(@)]

PmmDrive(on, irq) ==
    nxt' = [nxt EXCEPT !.pwrOn = on, !.irqIn[PMM] = Lowered(irq)]

\* One turn of the loop up to its wait or to the boot trace.
PmmWatch ==
    /\ pmmPhase = "watch" /\ Evaluate("pmm")
    /\ IF ~isOn /\ sig.vcc = "high"
       THEN /\ pmmPhase' = "boot"
            /\ UNCHANGED <<nxt, isOn>>
       ELSE /\ isOn' = (isOn /\ sig.vcc # "low")
            /\ PmmDrive(isOn', nxt.irqIn[PMM])
            /\ UNCHANGED pmmPhase
    /\ UNCHANGED sig

\* The trace is over: switch on, whatever the supply has done meanwhile.
PmmBooted ==
    /\ pmmPhase = "boot" /\ Evaluate("pmm")
    /\ pmmPhase' = "watch"
    /\ isOn' = TRUE
    /\ PmmDrive(TRUE, TRUE)
    /\ UNCHANGED sig

PmmProcess == PmmWatch \/ PmmBooted

\* Mutant: the loop waits for the supply only.
PmmTriggered_SupplyOnly == pmmPhase = "watch" /\ Changed("vcc")

PmmTriggered ==
    /\ pmmPhase = "watch"
    /\ Changed("vcc") \/ nxt.iraOut[PMM] # sig.iraOut[PMM]
=============================================================================
