-------------------------------- MODULE Gpio --------------------------------
(***************************************************************************)
(* The GPIO port as an interrupt source, mcu/cortex-m0/Gpio.cpp: pins in   *)
(* input mode (DIR = 0, its reset value).  DATA mirrors m_lastState and is *)
(* not a variable of its own.                                              *)
(***************************************************************************)
EXTENDS Cm0Kernel

CONSTANT Pins  \* the pins of the port that the environment drives

VARIABLES
    pinsHigh,   \* the level the environment drives on each pin
    lastState,  \* m_lastState
    gpioIe,     \* OFS_GPIO_IE
    gpioIfg,    \* OFS_GPIO_IFG
    gpioSetIrq  \* m_setIrq

gpioVars == <<pinsHigh, lastState, gpioIe, gpioIfg, gpioSetIrq>>

GpioTypeOK ==
    /\ pinsHigh \subseteq Pins /\ lastState \subseteq Pins
    /\ gpioIe \subseteq Pins /\ gpioIfg \subseteq Pins
    /\ gpioSetIrq \in BOOLEAN

GpioInit ==
    /\ pinsHigh = {} /\ lastState = {}
    /\ gpioIe = {} /\ gpioIfg = {}
    /\ gpioSetIrq = FALSE

\* The rising edges that request an interrupt.
Posedges == (pinsHigh \ lastState) \cap gpioIe

\* process(), at every edge of the peripheral clock: sample the pins, flag the
\* enabled rising edges.
GpioProcess ==
    /\ Evaluate("gpioProcess")
    /\ IF sig.pwrOn
       THEN /\ lastState' = pinsHigh
            /\ gpioIfg' = gpioIfg \cup Posedges
            /\ gpioSetIrq' = (gpioSetIrq \/ Posedges # {})
            /\ delta' = IF Posedges # {} THEN delta \cup {"gpioUpdateIrq"}
                                         ELSE delta
       ELSE UNCHANGED <<lastState, gpioIfg, gpioSetIrq, delta>>
    /\ UNCHANGED <<sig, nxt, pinsHigh, gpioIe>>

\* Mutant: the handler start is looked at before the new request.
GpioIrqControl_ActiveFirst ==
    /\ Evaluate("gpioIrqControl")
    /\ nxt' = IF ~sig.pwrOn \/ sig.active - 16 = GpioIrq
              THEN [nxt EXCEPT !.irq[GpioIrq] = FALSE]
              ELSE IF gpioSetIrq
              THEN [nxt EXCEPT !.irq[GpioIrq] = TRUE]
              ELSE nxt
    /\ gpioSetIrq' = FALSE
    /\ UNCHANGED <<sig, delta, pinsHigh, lastState, gpioIe, gpioIfg>>

\* The line falls with the power or when the CPU starts the port's handler.
GpioIrqControl ==
    /\ Evaluate("gpioIrqControl")
    /\ nxt' = IF ~sig.pwrOn
              THEN [nxt EXCEPT !.irq[GpioIrq] = FALSE]
              ELSE IF gpioSetIrq /\ ~sig.irq[GpioIrq]
              THEN [nxt EXCEPT !.irq[GpioIrq] = TRUE]
              ELSE IF sig.active - 16 = GpioIrq
              THEN [nxt EXCEPT !.irq[GpioIrq] = FALSE]
              ELSE nxt
    /\ gpioSetIrq' = FALSE
    /\ UNCHANGED <<sig, delta, pinsHigh, lastState, gpioIe, gpioIfg>>

\* Runs at both edges of pwrOn.  (m_writeEvent has no listener.)
GpioReset ==
    /\ Evaluate("gpioReset")
    /\ lastState' = {} /\ gpioIe' = {} /\ gpioIfg' = {}
    /\ gpioSetIrq' = FALSE
    /\ delta' = delta \cup {"gpioUpdateIrq"}
    /\ UNCHANGED <<sig, nxt, pinsHigh>>

\* b_transport, a write of OFS_GPIO_IE.
WriteIE(bits) ==
    /\ gpioIe' = bits
    /\ UNCHANGED <<pinsHigh, lastState, gpioIfg, gpioSetIrq>>
=============================================================================
