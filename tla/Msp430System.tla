---------------------------- MODULE Msp430System ----------------------------
(***************************************************************************)
(* The interrupt path of the MSP430 microcontroller: the power management  *)
(* module whose pwrGood is everybody's pwrOn, Timer_A, port 1, the arbiter *)
(* and the CPU, with its program, the supply and the pins.                 *)
(*                                                                         *)
(* Time is abstract: when the delta cycles of an instant are over, any set *)
(* of the things that are due may happen at the next instant.  Two delays  *)
(* are respected: a register hears of a store at the instant the access    *)
(* ends, and the boot trace is longer than an instruction.                 *)
(***************************************************************************)
EXTENDS InterruptArbiter, PowerManagementModule, TimerA, DigitalIo, Msp430Cpu

CONSTANTS
    MaxSupply,  \* bound: changes of the supply
    MaxEdges,   \* bound: changes of the pins
    MaxStores   \* bound: register writes by the program

ASSUME BoundsAssumption ==
    MaxSupply \in Nat /\ MaxEdges \in Nat /\ MaxStores \in Nat

VARIABLES
    written,    \* the peripheral whose m_writeEvent is notified
    used,       \* how much of each bound has been used
    \* History, which no action reads:
    requested,  \* an enabled expiry since Timer_A last heard an acknowledgement
    expiryOwed, \* an enabled expiry, outside an acknowledgement, not taken yet
    edgeOwed    \* an enabled edge at the port, not taken yet

historyVars == <<requested, expiryOwed, edgeOwed>>
vars == <<kernelVars, pmmVars, timaVars, portVars, cpuVars, written, used,
          historyVars>>

TypeOK ==
    /\ sig \in Signals /\ nxt \in Signals /\ run \subseteq Processes
    /\ PmmTypeOK /\ TimerTypeOK /\ PortTypeOK /\ CpuTypeOK
    /\ written \subseteq {"timer", "port"}
    /\ used \in [supply : 0..MaxSupply, edges : 0..MaxEdges,
                 stores : 0..MaxStores]
    /\ requested \in BOOLEAN /\ expiryOwed \in BOOLEAN /\ edgeOwed \in BOOLEAN

Init ==
    /\ KernelInit /\ PmmInit /\ TimerInit /\ PortInit /\ CpuInit
    /\ written = {}
    /\ used = [supply |-> 0, edges |-> 0, stores |-> 0]
    /\ requested = FALSE /\ expiryOwed = FALSE /\ edgeOwed = FALSE

-----------------------------------------------------------------------------
(* The scheduler *)

Triggered ==
    {p \in Processes :
        \/ p = "arbiter" /\ ArbiterTriggered
        \/ p = "pmm" /\ PmmTriggered
        \/ p = "timer" /\ TimerTriggered
        \/ p \in {"timerReset", "port", "portReset"} /\ Changed("pwrOn")
        \/ p = "cpu" /\ phase = "waitPwr" /\ Changed("pwrOn") /\ nxt.pwrOn}

DeltaCycle ==
    /\ Update(Triggered)
    /\ requested' = (requested /\ ~(TimerTriggered /\ nxt.iraOut[TIMA]))
    /\ UNCHANGED <<pmmVars, timaVars, portVars, cpuVars, written, used,
                   expiryOwed, edgeOwed>>

Due ==
    (IF phase \in TimedPhases THEN {"cpu"} ELSE {})
    \cup (IF timaWait = "edge" THEN {"timer"} ELSE {})
    \cup (IF pmmPhase = "boot" /\ phase = "waitPwr" THEN {"pmm"} ELSE {})

\* Who hears of the store the CPU has just finished.
Hears == (written \cap {"port"})
         \cup (IF timaWait = "write" THEN written \cap {"timer"} ELSE {})

Advance(now, pins, vcc) ==
    /\ Settled
    /\ now # {} \/ pins # pinsHigh \/ vcc # sig.vcc
    /\ run' = now \cup (IF pins # pinsHigh THEN {"port"} ELSE {})
                  \cup (IF "cpu" \in now THEN Hears ELSE {})
    /\ written' = IF "cpu" \in now THEN {} ELSE written
    /\ pinsHigh' = pins
    /\ nxt' = [nxt EXCEPT !.vcc = vcc]
    /\ used' = [used EXCEPT !.supply = IF vcc # sig.vcc THEN @ + 1 ELSE @,
                            !.edges = IF pins # pinsHigh THEN @ + 1 ELSE @]
    /\ UNCHANGED <<sig, pmmVars, timaVars, paie, paies, paifg, lastState,
                   cpuVars, historyVars>>

Environment(pins, vcc) ==
    /\ pins = pinsHigh \/ used.edges < MaxEdges
    /\ vcc = sig.vcc \/ used.supply < MaxSupply

TimePasses ==
    \E now \in SUBSET Due, pins \in SUBSET Pins, vcc \in Supply :
        Environment(pins, vcc) /\ Advance(now, pins, vcc)

-----------------------------------------------------------------------------
(* The peripherals' processes *)

ArbiterStep ==
    /\ ArbiterProcess
    /\ UNCHANGED <<pmmVars, timaVars, portVars, cpuVars, written, used,
                   historyVars>>

PmmStep ==
    /\ PmmProcess
    /\ UNCHANGED <<timaVars, portVars, cpuVars, written, used, historyVars>>

\* This run of process() sets a flag whose interrupt is enabled.
Expires ==
    LET t == Cleared(Counted(tima))
    IN  sig.pwrOn /\ t.taifg /\ ~tima.taifg /\ IrqEnabled(t)

TimerStep ==
    /\ TimerProcess
    /\ requested' = (requested \/ (Expires /\ ~sig.iraOut[TIMA]))
    /\ expiryOwed' =
           \/ expiryOwed
           \/ Expires /\ ~sig.iraOut[TIMA] /\ ~(phase = "ack" /\ vector = TIMA)
    /\ UNCHANGED <<pmmVars, portVars, cpuVars, written, used, edgeOwed>>

TimerResetStep ==
    /\ TimerReset
    /\ expiryOwed' = FALSE
    /\ UNCHANGED <<pmmVars, portVars, cpuVars, written, used, requested, edgeOwed>>

PortStep ==
    /\ PortProcess
    /\ edgeOwed' = (edgeOwed \/ (sig.pwrOn /\ FlaggedEdges # {}))
    /\ UNCHANGED <<pmmVars, timaVars, cpuVars, written, used, requested,
                   expiryOwed>>

PortResetStep ==
    /\ PortReset
    /\ edgeOwed' = FALSE
    /\ UNCHANGED <<pmmVars, timaVars, cpuVars, written, used, requested,
                   expiryOwed>>

PeripheralStep ==
    \/ ArbiterStep \/ PmmStep \/ TimerStep \/ TimerResetStep
    \/ PortStep \/ PortResetStep

-----------------------------------------------------------------------------
(* The CPU and its program *)

CpuOnly(A) ==
    A /\ UNCHANGED <<pmmVars, timaVars, portVars, written, used, historyVars>>

TakeInterrupt ==
    /\ CpuStacked
    /\ expiryOwed' = (expiryOwed /\ vector' # TIMA)
    /\ edgeOwed' = (edgeOwed /\ vector' # PORT1)
    /\ UNCHANGED <<pmmVars, timaVars, portVars, written, used, requested>>

StoreTimer ==
    /\ TimerWrite
    /\ written' = {"timer"}
    /\ expiryOwed' = FALSE
    /\ UNCHANGED <<timaWait, portVars, edgeOwed>>

StorePort ==
    /\ PortWrite
    /\ written' = {"port"}
    /\ edgeOwed' = (edgeOwed /\ paifg' = paifg)
    /\ UNCHANGED <<timaVars, expiryOwed>>

Store ==
    /\ used.stores < MaxStores
    /\ CpuExecStore
    /\ StoreTimer \/ StorePort
    /\ used' = [used EXCEPT !.stores = @ + 1]
    /\ UNCHANGED <<pmmVars, requested>>

CpuStep ==
    \/ CpuOnly(CpuPowerUp) \/ CpuOnly(CpuSleeps)
    \/ TakeInterrupt \/ CpuOnly(CpuAcknowledged) \/ CpuOnly(CpuEntersHandler)
    \/ CpuOnly(CpuExecSetSr) \/ Store \/ CpuOnly(CpuFinishStore)
    \/ CpuOnly(CpuExecReti) \/ CpuOnly(CpuFinishReti)

Next == DeltaCycle \/ TimePasses \/ PeripheralStep \/ CpuStep

Spec == Init /\ [][Next]_vars

(***************************************************************************)
(* Fairness: the scheduler runs every runnable process and every delta     *)
(* cycle, the waits of the CPU end, and so does the boot trace.            *)
(***************************************************************************)
Elapses(p) ==
    \E now \in SUBSET Due, pins \in SUBSET Pins, vcc \in Supply :
        p \in now /\ Environment(pins, vcc) /\ Advance(now, pins, vcc)

FairSpec ==
    /\ Spec
    /\ WF_vars(DeltaCycle) /\ WF_vars(PeripheralStep) /\ WF_vars(CpuStep)
    /\ SF_vars(Elapses("cpu")) /\ SF_vars(Elapses("pmm"))

-----------------------------------------------------------------------------
(* Properties *)

\* The source that is told its request was accepted is the one whose vector the
\* CPU takes (Msp430Cpu::processInterrupt reads irqIdx again after the stacking,
\* InterruptArbiter::process forwards ira by idxOut): a line that rises in
\* between changes both or neither.
AckMatchesVector ==
    /\ sig.ira => sig.idx = vector
    /\ \A l \in Acknowledged : sig.iraOut[l] => vector = l

\* No lost expiry (TimerA::process): an expiry outside an acknowledgement, with
\* its interrupt enabled, keeps the line up until the CPU takes it or the program
\* writes to the timer, whatever other interrupts are acknowledged meanwhile.
NoLostExpiry ==
    expiryOwed /\ sig.pwrOn /\ nxt.pwrOn => nxt.irqIn[TIMA]

\* One interrupt per request (TimerA.cpp:143, "Clear interrupt flag if interrupt
\* request accepted"): the CPU takes the timer's vector only if the timer has
\* expired since it last heard an acknowledgement.  (A timer that is stopped, or
\* without power, does not hear it, and its line stays up.)
TimerTakenOnce ==
    [][phase = "stack" /\ phase' = "ack" /\ vector' = TIMA => requested]_vars

\* "Don't execute anything until we get the power-up NMI" (Msp430Cpu.cpp:95):
\* whatever interrupt is up when power comes back, the first instruction is the
\* one at the reset vector.
ExecutesOnlyBooted == phase \in {"fetch", "store", "stack", "reti"} => booted

\* An enabled edge at the port starts a handler, unless the program disables
\* interrupts or the flag goes (DigitalIo::process, the arbiter, the CPU's loop).
EdgeServed == edgeOwed /\ gie ~> ~edgeOwed \/ ~gie

OtherLineUp == \E l \in Lines \ {PMM} : sig.irqIn[l]

\* Power-up ends in the reset handler, as long as no line that outranks the
\* reset is up (PowerManagementModule::process, Msp430Cpu::process).
Boots == sig.pwrOn ~> booted \/ ~sig.pwrOn \/ OtherLineUp

\* A supply that stays too low is noticed, although the module did not look at
\* it while it replayed the boot trace (PowerManagementModule.cpp:100): the
\* acknowledgement of the reset makes it look again.
LowSupplyNoticed ==
    sig.vcc = "low" ~> sig.vcc # "low" \/ ~isOn \/ OtherLineUp

\* "Power-On Reset" (PowerManagementModule.cpp:110) and "Forwards the highest
\* priority interrupt" (InterruptArbiter.hpp:61): every power-up ends in the
\* reset handler.
AlwaysBoots == sig.pwrOn ~> booted \/ ~sig.pwrOn
=============================================================================
