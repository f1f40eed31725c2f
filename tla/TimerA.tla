------------------------------- MODULE TimerA -------------------------------
(***************************************************************************)
(* mcu/msp430fr5xx/TimerA.cpp.  process() runs on every tick of the timer  *)
(* clock and on both edges of the acknowledgement, but once it has found   *)
(* the timer stopped only on a write to a register.  The choice of the     *)
(* clock is left out (a tick may come at any time), and so is the trigger  *)
(* of the DMA, whose flag is cleared nevertheless.                         *)
(***************************************************************************)
EXTENDS Msp430Kernel

CONSTANTS
    Modes,          \* the modes software uses, a subset of 0..3
    Ccr0Values,     \* the values software gives to TA1CCR0
    CountMax        \* 0xffff in the code

ASSUME TimerAssumption ==
    /\ Modes \subseteq 0..3
    /\ CountMax \in Nat /\ 0 \in Ccr0Values /\ Ccr0Values \subseteq 0..CountMax

VARIABLES
    tima,       \* the registers and 'direction'
    timaWait    \* what the next run of process() waits for

timaVars == <<tima, timaWait>>

TimerRegisters ==
    [mode  : Modes \cup {0},    \* TA1CTL: MC
     taie  : BOOLEAN,           \*         TAIE
     taclr : BOOLEAN,           \*         TACLR
     taifg : BOOLEAN,           \*         TAIFG
     ccie  : BOOLEAN,           \* TA1CCTL0: CCIE
     count : 0..CountMax,       \* TA1R
     ccr0  : Ccr0Values,        \* TA1CCR0
     direction : BOOLEAN]       \* TRUE: up

TimerTypeOK == tima \in TimerRegisters /\ timaWait \in {"edge", "write"}

\* 'direction' is not initialized.
TimerInit ==
    /\ tima \in [mode : {0}, taie : {FALSE}, taclr : {FALSE}, taifg : {FALSE},
                 ccie : {FALSE}, count : {0}, ccr0 : {0}, direction : BOOLEAN]
    /\ timaWait = "edge"

\* Mutant: counts one too far.
CountsTo_OneMore(t, top) ==
    IF t.count <= top THEN [t EXCEPT !.count = @ + 1]
                      ELSE [t EXCEPT !.count = 0, !.taifg = TRUE]

\* Modes 1 and 2: up to TA1CCR0, or to the largest number.
CountsTo(t, top) ==
    IF t.count < top THEN [t EXCEPT !.count = @ + 1]
                     ELSE [t EXCEPT !.count = 0, !.taifg = TRUE]

\* Mode 3.  'direction' turns as soon as the count is below TA1CCR0.
Swing(t) ==
    IF t.direction /\ t.count < t.ccr0
    THEN [t EXCEPT !.count = @ + 1, !.direction = ~(t.count + 1 < t.ccr0)]
    ELSE IF t.count > 0 /\ ~t.direction
    THEN [t EXCEPT !.count = @ - 1, !.direction = (t.count - 1 = 0)]
    ELSE t

CountsUpDown(t) ==
    LET s == Swing(t)
    IN  IF s.count = 0 THEN [s EXCEPT !.taifg = TRUE] ELSE s

Counted(t) ==
    CASE t.mode = 0 -> t
      [] t.mode = 1 -> CountsTo(t, t.ccr0)
      [] t.mode = 2 -> CountsTo(t, CountMax)
      [] t.mode = 3 -> CountsUpDown(t)

\* TACLR clears the whole of TA1CTL.
Cleared(t) ==
    IF t.taclr THEN [t EXCEPT !.mode = 0, !.taie = FALSE, !.taclr = FALSE,
                              !.taifg = FALSE, !.direction = TRUE]
               ELSE t

IrqEnabled(t) == t.taie \/ t.ccie

\* TAIFG is cleared by the acknowledgement, and by the trigger of the DMA.
\* Mutant: the flag stays set when the interrupt is accepted.
Flagged_KeepsFlag(t) == t.taifg /\ IrqEnabled(t)

Flagged(t) == t.taifg /\ ~sig.iraOut[TIMA] /\ IrqEnabled(t)

\* A disabled interrupt leaves the line as it is.
TimerLine(t, line) ==
    CASE sig.iraOut[TIMA] -> FALSE
      [] ~sig.iraOut[TIMA] /\ IrqEnabled(t) -> t.taifg
      [] OTHER -> line

TimerProcess ==
    /\ Evaluate("timer")
    /\ IF sig.pwrOn
       THEN LET t == Cleared(Counted(tima))
            IN  /\ tima' = [t EXCEPT !.taifg = Flagged(t)]
                /\ nxt' = [nxt EXCEPT !.irqIn[TIMA] = TimerLine(t, @)]
                /\ timaWait' = IF tima.mode = 0 THEN "write" ELSE "edge"
       ELSE /\ timaWait' = "edge"
            /\ UNCHANGED <<tima, nxt>>
    /\ UNCHANGED sig

\* Runs at both edges of pwrOn; 'direction' and the line stay.
TimerReset ==
    /\ Evaluate("timerReset")
    /\ tima' = [tima EXCEPT !.mode = 0, !.taie = FALSE, !.taclr = FALSE,
                            !.taifg = FALSE, !.ccie = FALSE, !.count = 0,
                            !.ccr0 = 0]
    /\ UNCHANGED <<sig, nxt, timaWait>>

TimerTriggered ==
    timaWait = "edge" /\ nxt.iraOut[TIMA] # sig.iraOut[TIMA]

(***************************************************************************)
(* b_transport: a write.  The program may keep TAIFG (BIS, BIC) or not.    *)
(***************************************************************************)
WriteTA1CTL ==
    \E mode \in Modes \cup {0}, taie, taclr \in BOOLEAN, taifg \in {FALSE, tima.taifg} :
        tima' = [tima EXCEPT !.mode = mode, !.taie = taie, !.taclr = taclr,
                             !.taifg = taifg]

WriteTA1CCTL0 == \E ccie \in BOOLEAN : tima' = [tima EXCEPT !.ccie = ccie]
WriteTA1CCR0 == \E ccr0 \in Ccr0Values : tima' = [tima EXCEPT !.ccr0 = ccr0]

TimerWrite == WriteTA1CTL \/ WriteTA1CCTL0 \/ WriteTA1CCR0
=============================================================================
