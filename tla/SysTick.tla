------------------------------- MODULE SysTick -------------------------------
(***************************************************************************)
(* The interrupt side of the SysTick timer, mcu/cortex-m0/SysTick.cpp.     *)
(* When the timer expires is left open here (SysTickTimer counts cycles);  *)
(* what is kept is whether an expiry is queued and what it does to the     *)
(* interrupt line.  The reload value is taken to be positive, so that an   *)
(* expiry queues the next one.                                             *)
(***************************************************************************)
EXTENDS Cm0Kernel

VARIABLES
    csrEnable,  \* SYST_CSR_ENABLE
    csrTickint, \* SYST_CSR_TICKINT
    expiryQueued, \* m_expiredEvent is notified
    tickSetIrq  \* m_setIrq

tickVars == <<csrEnable, csrTickint, expiryQueued, tickSetIrq>>

TickTypeOK ==
    /\ csrEnable \in BOOLEAN /\ csrTickint \in BOOLEAN
    /\ expiryQueued \in BOOLEAN /\ tickSetIrq \in BOOLEAN

TickInit ==
    /\ csrEnable = FALSE /\ csrTickint = FALSE
    /\ expiryQueued = FALSE /\ tickSetIrq = FALSE

\* process(): reload, queue the next expiry, request the interrupt if enabled.
TickProcess ==
    /\ Evaluate("tickProcess")
    /\ expiryQueued' = TRUE
    /\ tickSetIrq' = (csrTickint \/ tickSetIrq)
    /\ delta' = IF csrTickint THEN delta \cup {"tickUpdateIrq"} ELSE delta
    /\ UNCHANGED <<sig, nxt, csrEnable, csrTickint>>

\* Mutant: the return from the handler is looked at first.
TickIrqControl_ReturnFirst ==
    /\ Evaluate("tickIrqControl")
    /\ nxt' = IF sig.returning = SYST_EXCEPT_ID
              THEN [nxt EXCEPT !.tickIrq = FALSE]
              ELSE IF tickSetIrq THEN [nxt EXCEPT !.tickIrq = TRUE] ELSE nxt
    /\ tickSetIrq' = FALSE
    /\ UNCHANGED <<sig, delta, csrEnable, csrTickint, expiryQueued>>

\* Mutant: nothing lowers the line.
TickIrqControl_NeverLowered ==
    /\ Evaluate("tickIrqControl")
    /\ nxt' = IF tickSetIrq THEN [nxt EXCEPT !.tickIrq = TRUE] ELSE nxt
    /\ tickSetIrq' = FALSE
    /\ UNCHANGED <<sig, delta, csrEnable, csrTickint, expiryQueued>>

\* A request raises the line, the return from the handler lowers it; a request
\* made in the same delta cycle as the return wins.
TickIrqControl ==
    /\ Evaluate("tickIrqControl")
    /\ nxt' = IF tickSetIrq
              THEN [nxt EXCEPT !.tickIrq = TRUE]
              ELSE IF sig.returning = SYST_EXCEPT_ID
                   THEN [nxt EXCEPT !.tickIrq = FALSE]
                   ELSE nxt
    /\ tickSetIrq' = FALSE
    /\ UNCHANGED <<sig, delta, csrEnable, csrTickint, expiryQueued>>

\* Runs at both edges of pwrOn and cancels the queued events; the irq output
\* keeps its value.
TickReset ==
    /\ Evaluate("tickReset")
    /\ csrEnable' = FALSE /\ csrTickint' = FALSE
    /\ expiryQueued' = FALSE /\ tickSetIrq' = FALSE
    /\ delta' = delta \ {"tickUpdateIrq"}
    /\ UNCHANGED <<sig, nxt>>

\* b_transport, a write of SYST_CSR: enabling queues an expiry, disabling
\* cancels it, writing the same enable bit does neither.
WriteCSR(enable, tickint) ==
    /\ csrEnable' = enable
    /\ csrTickint' = tickint
    /\ expiryQueued' = IF enable = csrEnable THEN expiryQueued ELSE enable
    /\ UNCHANGED tickSetIrq
=============================================================================
