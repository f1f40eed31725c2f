-------------------------- MODULE InterruptArbiter --------------------------
(***************************************************************************)
(* mcu/msp430fr5xx/InterruptArbiter.hpp: the only process between the      *)
(* interrupt lines and the CPU.  It has no state but the signals it drives.*)
(* (iraConnected is left out: nobody reads it.)                            *)
(***************************************************************************)
EXTENDS Msp430Kernel

Pending == {l \in Lines : sig.irqIn[l]}

\* The scan writes idxOut at every line that is up; the last write stands.
Chosen == CHOOSE l \in Pending : \A k \in Pending : k <= l

\* Mutant: every line is told.
Acknowledge_All(value) == [l \in Acknowledged |-> value]

\* iraOut of the line on idxOut, where it is bound.
Acknowledge(value) ==
    [l \in Acknowledged |-> IF l = sig.idx THEN value ELSE nxt.iraOut[l]]

\* While the CPU acknowledges: tell the source, keep idxOut.
Forward ==
    nxt' = [nxt EXCEPT !.iraOut = Acknowledge(TRUE),
                       !.irq = sig.irqIn[sig.idx]]

\* Otherwise: choose the next one.
Choose ==
    nxt' = [nxt EXCEPT !.iraOut = Acknowledge(FALSE),
                       !.irq = Pending # {},
                       !.idx = IF Pending # {} THEN Chosen ELSE @]

\* Mutant: does not "Wait for currently processed interrupt".
ArbiterProcess_NoWait ==
    /\ Evaluate("arbiter")
    /\ nxt' = [nxt EXCEPT !.iraOut = Acknowledge(sig.ira),
                          !.irq = Pending # {},
                          !.idx = IF Pending # {} THEN Chosen ELSE @]
    /\ UNCHANGED sig

ArbiterProcess ==
    /\ Evaluate("arbiter")
    /\ IF sig.ira THEN Forward ELSE Choose
    /\ UNCHANGED sig

ArbiterTriggered == Changed("ira") \/ Changed("irqIn")
=============================================================================
