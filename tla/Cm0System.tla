------------------------------ MODULE Cm0System ------------------------------
(***************************************************************************)
(* The interrupt path of the Cortex-M0 microcontroller as wired by         *)
(* mcu/Cm0Microcontroller.cpp: CPU, NVIC, SysTick and GPIO, the signals    *)
(* between them, the software the CPU runs and the supply that may fail.   *)
(*                                                                         *)
(* Time is abstract: whenever the delta cycles of an instant are over, any *)
(* set of the things that are due may happen at the next instant.          *)
(***************************************************************************)
EXTENDS Nvic, SysTick, Gpio, CortexM0Cpu

CONSTANTS
    MaxEdges,      \* bound: rising edges the environment drives on the pins
    MaxTicks,      \* bound: expiries of the SysTick timer
    MaxStores,     \* bound: register writes by the software
    MaxPower,      \* bound: changes of the supply
    PowerGlitches, \* whether power may return before the CPU saw it fail
    WfiInHandler   \* whether the software may execute WFI in a handler

ASSUME BoundsAssumption ==
    /\ MaxEdges \in Nat /\ MaxTicks \in Nat
    /\ MaxStores \in Nat /\ MaxPower \in Nat
    /\ PowerGlitches \in BOOLEAN /\ WfiInHandler \in BOOLEAN

VARIABLES
    used,       \* how much of each bound has been used
    \* History, which no action reads:
    requested,  \* lines pended by the NVIC since the CPU last took them
    ticked,     \* SysTick asked for its exception since it was last taken
    owed,       \* a GPIO edge that no start of its handler has followed yet
    tickOwed    \* an expiry outside the SysTick handler, not followed yet

historyVars == <<requested, ticked, owed, tickOwed>>
vars == <<kernelVars, nvicVars, tickVars, gpioVars, cpuVars, used, historyVars>>

GpioId == NVIC_EXCEPT_ID_BASE + GpioIrq

TypeOK ==
    /\ sig \in Signals /\ nxt \in Signals
    /\ run \subseteq Processes /\ delta \subseteq Events
    /\ NvicTypeOK /\ TickTypeOK /\ GpioTypeOK /\ CpuTypeOK
    /\ used \in [edges : 0..MaxEdges, ticks : 0..MaxTicks,
                 stores : 0..MaxStores, power : 0..MaxPower]
    /\ requested \subseteq Irqs
    /\ ticked \in BOOLEAN /\ owed \in BOOLEAN /\ tickOwed \in BOOLEAN

Init ==
    /\ KernelInit /\ NvicInit /\ TickInit /\ GpioInit /\ CpuInit
    /\ used = [edges |-> 0, ticks |-> 0, stores |-> 0, power |-> 0]
    /\ requested = {} /\ ticked = FALSE /\ owed = FALSE /\ tickOwed = FALSE

-----------------------------------------------------------------------------
(* The scheduler *)

DeltaCycle ==
    /\ Update(IF CpuTriggered THEN {"cpu"} ELSE {})
    /\ owed' = (owed /\ ~(Changed("active") /\ nxt.active = GpioId))
    /\ UNCHANGED <<nvicVars, tickVars, gpioVars, cpuVars, used, requested, ticked,
                   tickOwed>>

\* What may be due at the next instant.  The write event of the NVIC is
\* notified for the end of the CPU's own access, so the two come together.
Due == (IF phase \in TimedPhases THEN {"cpu"} ELSE {})
       \cup (IF expiryQueued /\ used.ticks < MaxTicks THEN {"tickProcess"} ELSE {})
       \cup {"gpioProcess"}

Advance(now, pins, power) ==
    /\ Settled
    /\ now # {} \/ power
    /\ pins # pinsHigh => "gpioProcess" \in now
    /\ "gpioProcess" \in now => pins # lastState
    /\ run' = now \cup (IF "cpu" \in now /\ nvicWritten THEN {"nvicProcess"}
                                                       ELSE {})
    /\ nvicWritten' = (nvicWritten /\ "cpu" \notin now)
    /\ expiryQueued' = (expiryQueued /\ "tickProcess" \notin now)
    /\ pinsHigh' = pins
    /\ nxt' = IF power THEN [nxt EXCEPT !.pwrOn = ~@] ELSE nxt
    /\ used' = [used EXCEPT
                  !.edges = IF pins \subseteq pinsHigh THEN @ ELSE @ + 1,
                  !.ticks = IF "tickProcess" \in now THEN @ + 1 ELSE @,
                  !.power = IF power THEN @ + 1 ELSE @]
    /\ UNCHANGED <<sig, delta, iser, ispr, ipr, prevIrq, prevActive,
                   swSetPending, swClearPending, csrEnable, csrTickint,
                   tickSetIrq, lastState, gpioIe, gpioIfg, gpioSetIrq, cpuVars,
                   historyVars>>

\* The CPU looks at pwrOn only between instructions, and a stalled bus can
\* hold it up for longer than the supply is away.
SupplyMayChange ==
    /\ used.power < MaxPower
    /\ sig.pwrOn \/ phase = "waitPwr" \/ PowerGlitches

TimePasses ==
    \E now \in SUBSET Due, pins \in SUBSET Pins, power \in BOOLEAN :
        /\ pins \subseteq pinsHigh \/ used.edges < MaxEdges
        /\ power => SupplyMayChange
        /\ Advance(now, pins, power)

-----------------------------------------------------------------------------
(* The peripherals' processes *)

NvicProcessStep ==
    /\ NvicProcess
    /\ requested' = IF sig.pwrOn THEN requested \cup {i \in Irqs : SetPend(i)}
                                 ELSE requested
    /\ owed' = (owed /\ ~(sig.pwrOn /\ GpioIrq \in swClearPending))
    /\ UNCHANGED <<tickVars, gpioVars, cpuVars, used, ticked, tickOwed>>

NvicResetStep ==
    /\ NvicReset
    /\ requested' = {}
    /\ UNCHANGED <<tickVars, gpioVars, cpuVars, used, ticked, owed, tickOwed>>

TickProcessStep ==
    /\ TickProcess
    /\ ticked' = (ticked \/ csrTickint)
    /\ tickOwed' = (tickOwed \/ (csrTickint /\ ipsr # SYST_EXCEPT_ID))
    /\ UNCHANGED <<nvicVars, gpioVars, cpuVars, used, requested, owed>>

TickIrqControlStep ==
    /\ TickIrqControl
    /\ UNCHANGED <<nvicVars, gpioVars, cpuVars, used, historyVars>>

TickResetStep ==
    /\ TickReset
    /\ ticked' = FALSE /\ tickOwed' = FALSE
    /\ UNCHANGED <<nvicVars, gpioVars, cpuVars, used, requested, owed>>

GpioProcessStep ==
    /\ GpioProcess
    /\ owed' = (owed \/ (sig.pwrOn /\ Posedges # {}))
    /\ UNCHANGED <<nvicVars, tickVars, cpuVars, used, requested, ticked, tickOwed>>

GpioIrqControlStep ==
    /\ GpioIrqControl
    /\ UNCHANGED <<nvicVars, tickVars, cpuVars, used, historyVars>>

GpioResetStep ==
    /\ GpioReset
    /\ owed' = FALSE
    /\ UNCHANGED <<nvicVars, tickVars, cpuVars, used, requested, ticked, tickOwed>>

-----------------------------------------------------------------------------
(* The CPU and its program *)

CpuOnly(A) ==
    A /\ UNCHANGED <<nvicVars, tickVars, gpioVars, used, historyVars>>

\* A step that ends a turn of the loop: taking an exception closes the request.
TakesException == phase' = "enter"
CpuTurn(A) ==
    /\ A
    /\ requested' = IF TakesException
                    THEN {i \in requested : NVIC_EXCEPT_ID_BASE + i # entering'}
                    ELSE requested
    /\ ticked' = (ticked /\ ~(TakesException /\ entering' = SYST_EXCEPT_ID))
    /\ UNCHANGED <<nvicVars, tickVars, gpioVars, used, owed, tickOwed>>

StartHandler ==
    /\ CpuEnterException
    /\ tickOwed' = (tickOwed /\ entering # SYST_EXCEPT_ID)
    /\ UNCHANGED <<nvicVars, tickVars, gpioVars, used, requested, ticked, owed>>

Wfi == /\ ipsr # 0 => WfiInHandler
       /\ CpuTurn(CpuExecWfi)

\* Stores to the registers of the three peripherals.
StoreNvic == NvicWrite /\ UNCHANGED <<tickVars, gpioVars>>

StoreCSR ==
    /\ \E enable, tickint \in BOOLEAN : WriteCSR(enable, tickint)
    /\ UNCHANGED <<nvicVars, gpioVars>>

StoreIE ==
    /\ \E pins \in SUBSET Pins : WriteIE(pins)
    /\ UNCHANGED <<nvicVars, tickVars>>

Store ==
    /\ used.stores < MaxStores
    /\ CpuExecStore
    /\ StoreNvic \/ StoreCSR \/ StoreIE
    /\ used' = [used EXCEPT !.stores = @ + 1]
    /\ UNCHANGED historyVars

Return == CpuOnly(CpuExecReturn)

CpuStep ==
    \/ CpuOnly(CpuStartReset)
    \/ CpuTurn(CpuFinishReset)
    \/ CpuTurn(CpuWake)
    \/ StartHandler
    \/ CpuTurn(CpuExecPlain)
    \/ CpuTurn(CpuExecBranch)
    \/ Wfi
    \/ Store
    \/ CpuTurn(CpuFinishStore)
    \/ Return
    \/ CpuTurn(CpuFinishReturn)

PeripheralStep ==
    \/ NvicProcessStep \/ NvicResetStep
    \/ TickProcessStep \/ TickIrqControlStep \/ TickResetStep
    \/ GpioProcessStep \/ GpioIrqControlStep \/ GpioResetStep

Next == DeltaCycle \/ TimePasses \/ PeripheralStep \/ CpuStep

Spec == Init /\ [][Next]_vars

(***************************************************************************)
(* Fairness: the scheduler runs every runnable process and every delta     *)
(* cycle; a bus access or a fetch of the CPU ends; a handler returns, so a *)
(* program that comes past its return again and again takes it.            *)
(***************************************************************************)
CpuTimePasses ==
    \E now \in SUBSET Due, pins \in SUBSET Pins, power \in BOOLEAN :
        /\ "cpu" \in now
        /\ pins \subseteq pinsHigh \/ used.edges < MaxEdges
        /\ power => SupplyMayChange
        /\ Advance(now, pins, power)

FairSpec ==
    /\ Spec
    /\ WF_vars(DeltaCycle) /\ WF_vars(PeripheralStep) /\ WF_vars(CpuStep)
    /\ WF_vars(CpuTimePasses)
    /\ SF_vars(Return)

-----------------------------------------------------------------------------
(* Properties *)

\* The NVIC output is never stale (Nvic::end_of_elaboration, sensitivity of
\* process()): once an instant is over, the exception offered to the CPU is the
\* most urgent enabled pending line, whatever register write, edge, handler
\* start or reset came last.
PendingOutputFresh ==
    Settled /\ ~nvicWritten =>
        sig.pending = IF sig.pwrOn THEN HighestPending(ispr) ELSE 0

\* exceptionCheck() reads an output that is at least one delta cycle old.  Yet the CPU
\* takes the most urgent enabled pending line, except after a store, which may have
\* changed a register just now, and when process() changes the output in the same delta
\* cycle, for a line that rose as the core woke up (CortexM0Cpu::exceptionCheck,
\* Nvic::process).
TakesMostUrgent ==
    [][/\ phase \notin {"enter", "store"} /\ phase' = "enter"
       /\ entering' # SYST_EXCEPT_ID /\ nxt.pending = sig.pending
       => entering' = HighestPending(ispr)]_vars

\* No lost request (Gpio::irqControl, Nvic::process, exceptionEnter): an enabled
\* rising edge that no handler start has followed is still held somewhere on its
\* way to the CPU - noted in the port, on the line and new to the NVIC, or
\* pending in the NVIC.
NoLostEdge ==
    owed /\ sig.pwrOn /\ nxt.pwrOn =>
        \/ gpioSetIrq /\ ("gpioUpdateIrq" \in delta \/ "gpioIrqControl" \in run)
        \/ nxt.irq[GpioIrq] /\ GpioIrq \notin prevIrq
        \/ GpioIrq \in ispr

\* No lost tick (SysTick::process, irqControl): an expiry outside the SysTick
\* handler keeps the line raised, or about to be, until the handler starts.
\* (An expiry inside the handler is lost: the return lowers the line.)
NoLostTick ==
    tickOwed /\ sig.pwrOn /\ nxt.pwrOn =>
        \/ tickSetIrq /\ ("tickUpdateIrq" \in delta \/ "tickIrqControl" \in run)
        \/ nxt.tickIrq
        \/ phase = "enter" /\ entering = SYST_EXCEPT_ID

\* No lost wake-up (CortexM0Cpu::process, the wait of a sleeping core): a core
\* asleep in thread mode has no exception to take.
NoSleepOverException ==
    Settled /\ phase = "sleep" /\ sig.pwrOn /\ ipsr = 0 => PendingException = 0

\* No spurious entry of an NVIC exception (exceptionCheck, Nvic::process): the
\* CPU takes one only if the line was pended since it was last taken and since
\* the last reset; the NVIC forgets a request when the "CPU has started executing
\* the handler" (Nvic.cpp:161).
NvicEntriesRequested ==
    [][phase # "enter" /\ phase' = "enter" /\ entering' # SYST_EXCEPT_ID =>
         \E i \in requested : entering' = NVIC_EXCEPT_ID_BASE + i]_vars

\* No spurious SysTick exception (exceptionCheck, SysTick::reset): the CPU takes
\* it only if the timer asked for it since it was last taken and since the last
\* reset.
TickEntriesRequested ==
    [][phase # "enter" /\ phase' = "enter" /\ entering' = SYST_EXCEPT_ID =>
         ticked]_vars

\* The assertion of getNextExecutionPc() (CortexM0Cpu.cpp:550), which
\* exceptionEnter() calls first.
NextPcAssertion == phase = "enter" => bubbles <= 1

\* Every enabled edge is followed by a start of the port's handler, unless the
\* line is disabled or the power fails (the whole path from Gpio::process to
\* exceptionEnter).
EdgeServed ==
    owed /\ GpioIrq \in iser ~> ~owed \/ GpioIrq \notin iser \/ ~sig.pwrOn
=============================================================================
