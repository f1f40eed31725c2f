----------------------------- MODULE DigitalIo ------------------------------
(***************************************************************************)
(* Port 1 of the MSP430, mcu/msp430fr5xx/DigitalIo.cpp: pins that are      *)
(* inputs with the port function selected.  16-bit registers are sets of   *)
(* pins.  What the port itself drives is left out; it counts only in that  *)
(* a pin in conflict or undriven reads as 0, and 'pinsHigh' holds what the *)
(* pins read as.                                                           *)
(***************************************************************************)
EXTENDS Msp430Kernel

CONSTANT Pins   \* the input pins in use, of the low byte of the port

VARIABLES
    pinsHigh,   \* the pins that read as 1
    paie,       \* OFS_PAIE
    paies,      \* OFS_PAIES: pins whose falling edge counts
    paifg,      \* OFS_PAIFG
    lastState   \* m_lastState, which OFS_PAIN follows

portVars == <<pinsHigh, paie, paies, paifg, lastState>>

PortTypeOK ==
    /\ pinsHigh \subseteq Pins /\ paie \subseteq Pins /\ paies \subseteq Pins
    /\ paifg \subseteq Pins /\ lastState \subseteq Pins

PortInit ==
    /\ pinsHigh \in SUBSET Pins
    /\ paie = {} /\ paies = {} /\ paifg = {} /\ lastState = {}

\* The edges that set a flag.
FlaggedEdges ==
    ((pinsHigh \ lastState) \cap (paie \ paies))
        \cup ((lastState \ pinsHigh) \cap (paie \cap paies))

\* Mutant: reads the flags before it notes the edges.
PortProcess_OldFlags ==
    /\ Evaluate("port")
    /\ IF sig.pwrOn
       THEN /\ paifg' = paifg \cup FlaggedEdges
            /\ lastState' = pinsHigh
            /\ nxt' = [nxt EXCEPT !.irqIn[PORT1] = (paifg # {})]
       ELSE UNCHANGED <<paifg, lastState, nxt>>
    /\ UNCHANGED <<sig, pinsHigh, paie, paies>>

\* Without power the line and the flags stay.
PortProcess ==
    /\ Evaluate("port")
    /\ IF sig.pwrOn
       THEN /\ paifg' = paifg \cup FlaggedEdges
            /\ lastState' = pinsHigh
            /\ nxt' = [nxt EXCEPT !.irqIn[PORT1] = (paifg' # {})]
       ELSE UNCHANGED <<paifg, lastState, nxt>>
    /\ UNCHANGED <<sig, pinsHigh, paie, paies>>

\* Runs at both edges of pwrOn.
PortReset ==
    /\ Evaluate("portReset")
    /\ paie' = {} /\ paies' = {} /\ paifg' = {} /\ lastState' = {}
    /\ UNCHANGED <<sig, nxt, pinsHigh>>

(***************************************************************************)
(* b_transport: a write.  The program clears flags and does not set them.  *)
(***************************************************************************)
WritePAIE ==
    /\ paie' \in SUBSET Pins
    /\ UNCHANGED <<paies, paifg>>

WritePAIES ==
    /\ paies' \in SUBSET Pins
    /\ UNCHANGED <<paie, paifg>>

WritePAIFG ==
    /\ paifg' \in SUBSET paifg
    /\ UNCHANGED <<paie, paies>>

PortWrite ==
    /\ WritePAIE \/ WritePAIES \/ WritePAIFG
    /\ UNCHANGED <<pinsHigh, lastState>>
=============================================================================
