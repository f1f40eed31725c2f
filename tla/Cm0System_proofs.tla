-------------------------- MODULE Cm0System_proofs --------------------------
(***************************************************************************)
(* The Cortex-M0 interrupt path loses no edge of a pin and no tick, offers *)
(* the CPU the right exception and never sleeps over one: for every set of *)
(* lines, pins and priorities, either pipeline, and any number of edges,   *)
(* ticks, stores and changes of the supply, glitches included.             *)
(* It takes the most urgent line, and within one power cycle only what was *)
(* asked for.                                                              *)
(***************************************************************************)
EXTENDS Cm0System, WellFoundedInduction, TLAPS

-----------------------------------------------------------------------------
(* Type correctness *)

\* Of the lines that are ready there is a most urgent one, the one the loop of
\* Nvic::process ends with (Nvic.cpp:186): priority and number are one rank.
LEMMA MostUrgent ==
    ASSUME ipr \in [Irqs -> Prios], NEW lines \in SUBSET Irqs, lines # {}
    PROVE  \E i \in lines : \A j \in lines : MoreUrgent(i, j)
<1>. DEFINE Rank(i) == 32 * ipr[i] + i
<1>1. \A i \in lines : i \in 0..31 /\ ipr[i] \in 0..3
  BY IrqsAssumption, PriosAssumption
<1>2. \A i \in lines : Rank(i) \in Nat
  BY <1>1
<1>3. \E m \in {Rank(i) : i \in lines} : \A n \in {Rank(i) : i \in lines} : ~(n < m)
  <2>. DEFINE Ranks == {Rank(i) : i \in lines}
  <2>1. Ranks \subseteq Nat /\ Ranks # {}
    BY <1>2
  <2>. HIDE DEF Ranks
  <2>2. \E m \in Ranks : \A n \in Ranks : ~(<<n, m>> \in OpToRel(<, Nat))
    BY <2>1, WFMin, NatLessThanWellFounded
  <2>3. ASSUME NEW m \in Ranks, NEW n \in Ranks, ~(<<n, m>> \in OpToRel(<, Nat))
        PROVE  ~(n < m)
    BY <2>1, <2>3 DEF OpToRel
  <2>4. \E m \in Ranks : \A n \in Ranks : ~(n < m)
    BY <2>2, <2>3
  <2>. QED  BY <2>4 DEF Ranks
<1>4. PICK i \in lines : \A j \in lines : ~(Rank(j) < Rank(i))
  BY <1>3
<1>5. ASSUME NEW j \in lines PROVE MoreUrgent(i, j)
  <2>1. i \in 0..31 /\ ipr[i] \in 0..3 /\ j \in 0..31 /\ ipr[j] \in 0..3
    BY <1>1
  <2>2. 32 * ipr[i] + i <= 32 * ipr[j] + j
    BY <1>4, <2>1
  <2>. QED  BY <2>1, <2>2 DEF MoreUrgent
<1>. QED  BY <1>5

\* What Nvic::process drives on nvic_pending is an exception of the NVIC or -1.
LEMMA HighestPendingType ==
    ASSUME ipr \in [Irqs -> Prios], NEW pend \in SUBSET Irqs
    PROVE  HighestPending(pend) \in NvicIds \cup {-1}
<1>. DEFINE ready == pend \cap iser
<1>1. CASE ready = {}
  BY <1>1 DEF HighestPending
<1>2. CASE ready # {}
  <2>1. \E i \in ready : \A j \in ready : MoreUrgent(i, j)
    BY <1>2, MostUrgent
  <2>2. (CHOOSE i \in ready : \A j \in ready : MoreUrgent(i, j)) \in ready
    BY <2>1
  <2>. QED  BY <1>2, <2>2 DEF HighestPending, NvicIds
<1>. QED  BY <1>1, <1>2

\* The exception numbers: 0, SysTick's 15, and 16 to 47 for the lines.
LEMMA ExceptionIds ==
    /\ 0 \in ExceptIds /\ SYST_EXCEPT_ID \in ExceptIds /\ GpioId \in NvicIds
    /\ NvicIds \subseteq ExceptIds /\ ExceptIds \subseteq Int
    /\ \A i \in Irqs : i \in 0..31 /\ NVIC_EXCEPT_ID_BASE + i \in 16..47
    /\ 0 \notin NvicIds /\ SYST_EXCEPT_ID \notin NvicIds /\ SYST_EXCEPT_ID = 15
    /\ GpioId = 16 + GpioIrq /\ GpioIrq \in 0..31
<1>1. \A i \in Irqs : i \in 0..31
  BY IrqsAssumption
<1>2. GpioIrq \in Irqs
  BY GpioAssumption
<1>. QED  BY <1>1, <1>2 DEF ExceptIds, NvicIds, SYST_EXCEPT_ID, NVIC_EXCEPT_ID_BASE, GpioId

\* What CortexM0Cpu::exceptionCheck picks is an exception number.
LEMMA PendingExceptionType ==
    ASSUME sig \in Signals PROVE PendingException \in ExceptIds
<1>1. sig.pending \in NvicIds \cup {-1, 0}
  BY DEF Signals
<1>. QED  BY <1>1 DEF PendingException, ExceptIds

\* The end of a turn of CortexM0Cpu::process keeps the types.
LEMMA NextTurnTypes ==
    ASSUME TypeOK, NEW slp \in BOOLEAN, NEW bub \in 0..(PipelineStages - 1),
           NEW psr \in ExceptIds, NEW scheduled \in Signals,
           NextTurn(slp, bub, psr, scheduled)
    PROVE  nxt' \in Signals /\ CpuTypeOK'
<1>1. [scheduled EXCEPT !.returning = 0] \in Signals
  BY ExceptionIds DEF Signals
<1>2. PendingException \in ExceptIds
  BY PendingExceptionType DEF TypeOK
<1>3. nxt' \in Signals
  BY <1>1 DEF NextTurn
<1>4. phase' \in Phases /\ entering' \in ExceptIds /\ sleeping' \in BOOLEAN
  BY <1>2 DEF NextTurn, Phases, TimedPhases, TypeOK, CpuTypeOK
<1>. QED  BY <1>3, <1>4 DEF NextTurn, CpuTypeOK

\* The bubbles of flushPipeline() never exceed the stages behind the first.
LEMMA DrainedType ==
    ASSUME NEW n \in 0..(PipelineStages - 1)
    PROVE  Drained(n) \in 0..(PipelineStages - 1) /\ Flushed \in 0..(PipelineStages - 1)
BY StagesAssumption DEF Drained, Flushed

\* The elaborated design has the types.
LEMMA TypesInitially == Init => TypeOK
<1>. SUFFICES ASSUME Init PROVE TypeOK
  OBVIOUS
<1>1. sig \in Signals /\ nxt \in Signals /\ run \subseteq Processes /\ delta \subseteq Events
  BY ExceptionIds DEF Init, KernelInit, SignalInit, Signals, Processes, Events
<1>2. NvicTypeOK
  BY PriosAssumption, ExceptionIds DEF Init, NvicInit, NvicTypeOK
<1>3. TickTypeOK /\ GpioTypeOK
  BY DEF Init, TickInit, TickTypeOK, GpioInit, GpioTypeOK
<1>4. CpuTypeOK
  <2>1. 0 \in 0..(PipelineStages - 1)
    BY StagesAssumption
  <2>. QED  BY <2>1, ExceptionIds DEF Init, CpuInit, CpuTypeOK, Phases
<1>5. used \in [edges : 0..MaxEdges, ticks : 0..MaxTicks,
                stores : 0..MaxStores, power : 0..MaxPower]
  BY BoundsAssumption DEF Init
<1>6. requested \subseteq Irqs /\ ticked \in BOOLEAN /\ owed \in BOOLEAN /\ tickOwed \in BOOLEAN
  BY DEF Init
<1>. QED  BY <1>1, <1>2, <1>3, <1>4, <1>5, <1>6 DEF TypeOK

\* The signals and the scheduler (Cm0Microcontroller.cpp).
KernelTypeOK ==
    sig \in Signals /\ nxt \in Signals /\ run \subseteq Processes /\ delta \subseteq Events

\* The bounds of the model.
UsedTypeOK == used \in [edges : 0..MaxEdges, ticks : 0..MaxTicks,
                        stores : 0..MaxStores, power : 0..MaxPower]

\* The history of requests.
HistoryTypeOK ==
    requested \subseteq Irqs /\ ticked \in BOOLEAN /\ owed \in BOOLEAN /\ tickOwed \in BOOLEAN

\* The update phase only copies signals.
LEMMA TypesDelta == ASSUME TypeOK, DeltaCycle PROVE TypeOK'
<1>0. (IF CpuTriggered THEN {"cpu"} ELSE {}) \subseteq Processes
  BY DEF Processes
<1>1. KernelTypeOK'
  BY <1>0 DEF TypeOK, KernelTypeOK, DeltaCycle, Update, StaticallyTriggered
<1>2. HistoryTypeOK'
  BY DEF TypeOK, HistoryTypeOK, DeltaCycle
<1>3. UsedTypeOK' /\ NvicTypeOK' /\ TickTypeOK' /\ GpioTypeOK' /\ CpuTypeOK'
  BY DEF TypeOK, UsedTypeOK, DeltaCycle, NvicTypeOK, TickTypeOK, GpioTypeOK, CpuTypeOK,
         nvicVars, tickVars, gpioVars, cpuVars
<1>. QED  BY <1>1, <1>2, <1>3 DEF TypeOK, KernelTypeOK, UsedTypeOK, HistoryTypeOK

\* An instant makes runnable what is due and uses up the bounds it is allowed.
LEMMA TypesTime == ASSUME TypeOK, TimePasses PROVE TypeOK'
<1>1. PICK now \in SUBSET Due, pins \in SUBSET Pins, power \in BOOLEAN :
        /\ pins \subseteq pinsHigh \/ used.edges < MaxEdges
        /\ power => SupplyMayChange
        /\ Advance(now, pins, power)
  BY DEF TimePasses
<1>2. nxt' \in Signals
  <2>1. [nxt EXCEPT !.pwrOn = ~@] \in Signals
    BY DEF TypeOK, Signals
  <2>. QED  BY <1>1, <2>1 DEF Advance, TypeOK
<1>3. run' \subseteq Processes
  BY <1>1 DEF Advance, Due, Processes
<1>4. KernelTypeOK'
  BY <1>1, <1>2, <1>3 DEF Advance, KernelTypeOK, TypeOK
<1>5. UsedTypeOK'
  <2>1. /\ used.edges \in 0..MaxEdges /\ used.ticks \in 0..MaxTicks
        /\ used.stores \in 0..MaxStores /\ used.power \in 0..MaxPower
    BY DEF TypeOK
  <2>2. (IF pins \subseteq pinsHigh THEN used.edges ELSE used.edges + 1) \in 0..MaxEdges
    BY <1>1, <2>1, BoundsAssumption
  <2>3. (IF "tickProcess" \in now THEN used.ticks + 1 ELSE used.ticks) \in 0..MaxTicks
    <3>1. "tickProcess" \in now => used.ticks < MaxTicks
      BY <1>1 DEF Due
    <3>. QED  BY <2>1, <3>1, BoundsAssumption
  <2>4. (IF power THEN used.power + 1 ELSE used.power) \in 0..MaxPower
    BY <1>1, <2>1, BoundsAssumption DEF SupplyMayChange
  <2>5. ASSUME NEW e \in 0..MaxEdges, NEW t \in 0..MaxTicks, NEW p \in 0..MaxPower
        PROVE  [used EXCEPT !.edges = e, !.ticks = t, !.power = p]
                  \in [edges : 0..MaxEdges, ticks : 0..MaxTicks,
                       stores : 0..MaxStores, power : 0..MaxPower]
    BY DEF TypeOK
  <2>. QED  BY <1>1, <2>2, <2>3, <2>4, <2>5 DEF Advance, UsedTypeOK
<1>6. NvicTypeOK' /\ TickTypeOK'
  BY <1>1 DEF Advance, TypeOK, NvicTypeOK, TickTypeOK
<1>7. GpioTypeOK' /\ CpuTypeOK' /\ HistoryTypeOK'
  BY <1>1 DEF Advance, TypeOK, GpioTypeOK, CpuTypeOK, cpuVars, HistoryTypeOK, historyVars
<1>. QED  BY <1>4, <1>5, <1>6, <1>7 DEF TypeOK, KernelTypeOK, UsedTypeOK, HistoryTypeOK

\* Nvic::process and reset keep registers and output to the lines in use.
LEMMA TypesNvic ==
    ASSUME TypeOK, NvicProcessStep \/ NvicResetStep PROVE TypeOK'
<1>1. CASE NvicProcessStep
  <2>1. Resolve(ispr) \in SUBSET Irqs
    BY DEF Resolve
  <2>2. HighestPending(Resolve(ispr)) \in NvicIds \cup {-1}
    BY <2>1, HighestPendingType DEF TypeOK, NvicTypeOK
  <2>3. nxt' \in Signals
    <3>1. ASSUME NEW p \in NvicIds \cup {-1, 0}
          PROVE  [nxt EXCEPT !.pending = p] \in Signals
      BY DEF TypeOK, Signals
    <3>. QED  BY <1>1, <2>2, <3>1 DEF NvicProcessStep, NvicProcess
  <2>4. KernelTypeOK'
    BY <1>1, <2>3 DEF TypeOK, KernelTypeOK, NvicProcessStep, NvicProcess, Evaluate
  <2>5. sig.active \in ExceptIds
    BY DEF TypeOK, Signals
  <2>6. NvicTypeOK'
    BY <1>1, <2>1, <2>5 DEF TypeOK, NvicTypeOK, NvicProcessStep, NvicProcess
  <2>7. HistoryTypeOK'
    BY <1>1 DEF TypeOK, HistoryTypeOK, NvicProcessStep
  <2>8. UsedTypeOK' /\ TickTypeOK' /\ GpioTypeOK' /\ CpuTypeOK'
    BY <1>1 DEF TypeOK, UsedTypeOK, TickTypeOK, GpioTypeOK, CpuTypeOK, NvicProcessStep,
           tickVars, gpioVars, cpuVars
  <2>. QED  BY <2>4, <2>6, <2>7, <2>8 DEF TypeOK, KernelTypeOK, UsedTypeOK, HistoryTypeOK
<1>2. CASE NvicResetStep
  <2>1. KernelTypeOK'
    BY <1>2 DEF TypeOK, KernelTypeOK, NvicResetStep, NvicReset, Evaluate, Events
  <2>2. NvicTypeOK' /\ HistoryTypeOK'
    BY <1>2, PriosAssumption
       DEF TypeOK, NvicTypeOK, HistoryTypeOK, NvicResetStep, NvicReset
  <2>3. UsedTypeOK' /\ TickTypeOK' /\ GpioTypeOK' /\ CpuTypeOK'
    BY <1>2 DEF TypeOK, UsedTypeOK, TickTypeOK, GpioTypeOK, CpuTypeOK, NvicResetStep,
           tickVars, gpioVars, cpuVars
  <2>. QED  BY <2>1, <2>2, <2>3 DEF TypeOK, KernelTypeOK, UsedTypeOK, HistoryTypeOK
<1>. QED  BY <1>1, <1>2

\* SysTick::process, irqControl and reset.
LEMMA TypesTick ==
    ASSUME TypeOK, TickProcessStep \/ TickIrqControlStep \/ TickResetStep PROVE TypeOK'
<1>0. ASSUME NEW v \in BOOLEAN PROVE [nxt EXCEPT !.tickIrq = v] \in Signals
  BY DEF TypeOK, Signals
<1>1. KernelTypeOK'
  <2>1. nxt' \in Signals
    BY <1>0 DEF TypeOK, TickProcessStep, TickProcess, TickIrqControlStep, TickIrqControl,
           TickResetStep, TickReset
  <2>2. sig' = sig /\ run' \subseteq run /\ delta' \subseteq delta \cup {"tickUpdateIrq"}
    BY DEF TypeOK, TickProcessStep, TickProcess, TickIrqControlStep, TickIrqControl,
           TickResetStep, TickReset, Evaluate
  <2>. QED  BY <2>1, <2>2 DEF TypeOK, KernelTypeOK, Events
<1>2. TickTypeOK' /\ HistoryTypeOK'
  BY DEF TypeOK, TickTypeOK, HistoryTypeOK, TickProcessStep, TickProcess, TickIrqControlStep,
         TickIrqControl, TickResetStep, TickReset, historyVars
<1>3. UsedTypeOK' /\ NvicTypeOK' /\ GpioTypeOK' /\ CpuTypeOK'
  BY DEF TypeOK, UsedTypeOK, NvicTypeOK, GpioTypeOK, CpuTypeOK, TickProcessStep,
         TickIrqControlStep, TickResetStep, nvicVars, gpioVars, cpuVars
<1>. QED  BY <1>1, <1>2, <1>3 DEF TypeOK, KernelTypeOK, UsedTypeOK, HistoryTypeOK

\* Gpio::process, irqControl and reset.
LEMMA TypesGpio ==
    ASSUME TypeOK, GpioProcessStep \/ GpioIrqControlStep \/ GpioResetStep PROVE TypeOK'
<1>0. ASSUME NEW v \in BOOLEAN PROVE [nxt EXCEPT !.irq[GpioIrq] = v] \in Signals
  BY DEF TypeOK, Signals
<1>1. KernelTypeOK'
  <2>1. nxt' \in Signals
    BY <1>0 DEF TypeOK, GpioProcessStep, GpioProcess, GpioIrqControlStep, GpioIrqControl,
           GpioResetStep, GpioReset
  <2>2. sig' = sig /\ run' \subseteq run /\ delta' \subseteq delta \cup {"gpioUpdateIrq"}
    BY DEF TypeOK, GpioProcessStep, GpioProcess, GpioIrqControlStep, GpioIrqControl,
           GpioResetStep, GpioReset, Evaluate
  <2>. QED  BY <2>1, <2>2 DEF TypeOK, KernelTypeOK, Events
<1>2. GpioTypeOK' /\ HistoryTypeOK'
  BY DEF TypeOK, GpioTypeOK, HistoryTypeOK, GpioProcessStep, GpioProcess, GpioIrqControlStep,
         GpioIrqControl, GpioResetStep, GpioReset, historyVars, Posedges
<1>3. UsedTypeOK' /\ NvicTypeOK' /\ TickTypeOK' /\ CpuTypeOK'
  BY DEF TypeOK, UsedTypeOK, NvicTypeOK, TickTypeOK, CpuTypeOK, GpioProcessStep,
         GpioIrqControlStep, GpioResetStep, nvicVars, tickVars, cpuVars
<1>. QED  BY <1>1, <1>2, <1>3 DEF TypeOK, KernelTypeOK, UsedTypeOK, HistoryTypeOK

\* A step that ends a turn of the loop of CortexM0Cpu::process, whatever it executed.
EndsTurn(slp, bub, scheduled) ==
    /\ phase \in {"reset", "sleep", "fetch", "store", "return"} /\ Evaluate("cpu")
    /\ NextTurn(slp, bub, ipsr, scheduled)
    /\ UNCHANGED <<sig, delta, nvicVars, tickVars, gpioVars, used, owed, tickOwed>>
    /\ phase = "return" => scheduled = [nxt EXCEPT !.active = 0]
    /\ requested' = IF TakesException
                    THEN {i \in requested : NVIC_EXCEPT_ID_BASE + i # entering'}
                    ELSE requested
    /\ ticked' = (ticked /\ ~(TakesException /\ entering' = SYST_EXCEPT_ID))

\* A step of the CPU starts the reset, starts a handler, stores, begins a return, or
\* ends a turn of the loop of CortexM0Cpu::process.
LEMMA CpuSteps ==
    ASSUME TypeOK, CpuStep
    PROVE  \/ CpuOnly(CpuStartReset) \/ StartHandler \/ Store \/ Return
           \/ \E slp \in BOOLEAN, bub \in 0..(PipelineStages - 1),
                 scheduled \in {nxt, [nxt EXCEPT !.active = 0]} : EndsTurn(slp, bub, scheduled)
<1>. DEFINE Turns == \E slp \in BOOLEAN, bub \in 0..(PipelineStages - 1),
                       scheduled \in {nxt, [nxt EXCEPT !.active = 0]} :
                       EndsTurn(slp, bub, scheduled)
<1>1. ASSUME NEW slp \in BOOLEAN, NEW bub \in 0..(PipelineStages - 1),
             NEW scheduled \in {nxt, [nxt EXCEPT !.active = 0]}, EndsTurn(slp, bub, scheduled)
      PROVE  Turns
  BY <1>1
<1>. HIDE DEF Turns
<1>2. Drained(bubbles) \in 0..(PipelineStages - 1) /\ Flushed \in 0..(PipelineStages - 1)
      /\ bubbles \in 0..(PipelineStages - 1) /\ sleeping \in BOOLEAN
  BY DrainedType DEF TypeOK, CpuTypeOK
<1>3. ticked \in BOOLEAN
  BY DEF TypeOK
<1>4. CASE CpuTurn(CpuFinishReset)
  <2>1. EndsTurn(sleeping, Flushed, nxt)
    BY <1>3, <1>4 DEF CpuTurn, CpuFinishReset, EndsTurn
  <2>. QED  BY <1>1, <1>2, <2>1 DEF Turns
<1>5. CASE CpuTurn(CpuWake)
  <2>1. EndsTurn(sleeping, bubbles, nxt)
    BY <1>3, <1>5 DEF CpuTurn, CpuWake, EndsTurn
  <2>. QED  BY <1>1, <1>2, <2>1 DEF Turns
<1>6. CASE CpuTurn(CpuExecPlain)
  <2>1. EndsTurn(FALSE, Drained(bubbles), nxt)
    BY <1>3, <1>6 DEF CpuTurn, CpuExecPlain, Executing, EndsTurn
  <2>. QED  BY <1>1, <1>2, <2>1 DEF Turns
<1>7. CASE CpuTurn(CpuExecBranch)
  <2>1. EndsTurn(FALSE, Flushed, nxt)
    BY <1>3, <1>7 DEF CpuTurn, CpuExecBranch, Executing, EndsTurn
  <2>. QED  BY <1>1, <1>2, <2>1 DEF Turns
<1>8. CASE Wfi
  <2>1. EndsTurn(TRUE, bubbles, nxt)
    BY <1>3, <1>8 DEF Wfi, CpuTurn, CpuExecWfi, Executing, EndsTurn
  <2>. QED  BY <1>1, <1>2, <2>1 DEF Turns
<1>9. CASE CpuTurn(CpuFinishStore)
  <2>1. EndsTurn(FALSE, Drained(bubbles), nxt)
    BY <1>3, <1>9 DEF CpuTurn, CpuFinishStore, EndsTurn
  <2>. QED  BY <1>1, <1>2, <2>1 DEF Turns
<1>10. CASE CpuTurn(CpuFinishReturn)
  <2>1. EndsTurn(FALSE, Flushed, [nxt EXCEPT !.active = 0])
    BY <1>3, <1>10 DEF CpuTurn, CpuFinishReturn, EndsTurn
  <2>. QED  BY <1>1, <1>2, <2>1 DEF Turns
<1>. QED  BY <1>4, <1>5, <1>6, <1>7, <1>8, <1>9, <1>10 DEF CpuStep, Turns

\* Every step of CortexM0Cpu::process keeps the types.
LEMMA TypesCpu == ASSUME TypeOK, CpuStep PROVE TypeOK'
<1>0. ASSUME NEW e \in ExceptIds
      PROVE  /\ [nxt EXCEPT !.active = e] \in Signals
             /\ [nxt EXCEPT !.returning = e] \in Signals
             /\ [nxt EXCEPT !.active = e, !.returning = 0] \in Signals
  BY ExceptionIds DEF TypeOK, Signals
<1>1. CASE CpuOnly(CpuStartReset)
  <2>1. KernelTypeOK' /\ CpuTypeOK'
    BY <1>1, ExceptionIds DEF TypeOK, KernelTypeOK, CpuTypeOK, CpuOnly, CpuStartReset, Evaluate,
           Phases, TimedPhases
  <2>2. NvicTypeOK' /\ TickTypeOK' /\ GpioTypeOK' /\ UsedTypeOK' /\ HistoryTypeOK'
    BY <1>1 DEF TypeOK, CpuOnly, NvicTypeOK, TickTypeOK, GpioTypeOK, UsedTypeOK, HistoryTypeOK,
           nvicVars, tickVars, gpioVars, historyVars
  <2>. QED  BY <2>1, <2>2 DEF TypeOK, KernelTypeOK, UsedTypeOK, HistoryTypeOK
<1>2. CASE StartHandler
  <2>1. entering \in ExceptIds
    BY DEF TypeOK, CpuTypeOK
  <2>2. KernelTypeOK'
    BY <1>0, <1>2, <2>1 DEF TypeOK, KernelTypeOK, StartHandler, CpuEnterException, Evaluate
  <2>3. CpuTypeOK'
    BY <1>2, <2>1, DrainedType, ExceptionIds, StagesAssumption
       DEF TypeOK, CpuTypeOK, StartHandler, CpuEnterException, Phases, TimedPhases, Flushed
  <2>4. NvicTypeOK' /\ TickTypeOK' /\ GpioTypeOK' /\ UsedTypeOK' /\ HistoryTypeOK'
    BY <1>2 DEF TypeOK, StartHandler, NvicTypeOK, TickTypeOK, GpioTypeOK, UsedTypeOK,
           HistoryTypeOK, nvicVars, tickVars, gpioVars
  <2>. QED  BY <2>2, <2>3, <2>4 DEF TypeOK, KernelTypeOK, UsedTypeOK, HistoryTypeOK
<1>3. CASE Store
  <2>1. KernelTypeOK' /\ CpuTypeOK'
    BY <1>3 DEF TypeOK, KernelTypeOK, CpuTypeOK, Store, CpuExecStore, Executing, Evaluate,
           Phases, TimedPhases
  <2>2. UsedTypeOK'
    <3>1. used.stores + 1 \in 0..MaxStores
      BY <1>3, BoundsAssumption DEF TypeOK, Store
    <3>2. ASSUME NEW n \in 0..MaxStores
          PROVE  [used EXCEPT !.stores = n] \in [edges : 0..MaxEdges, ticks : 0..MaxTicks,
                                                 stores : 0..MaxStores, power : 0..MaxPower]
      BY DEF TypeOK
    <3>. QED  BY <1>3, <3>1, <3>2 DEF Store, UsedTypeOK
  <2>3. NvicTypeOK' /\ TickTypeOK' /\ GpioTypeOK'
    <3>1. CASE StoreNvic
      <4>1. TickTypeOK' /\ GpioTypeOK'
        BY <3>1 DEF TypeOK, StoreNvic, TickTypeOK, GpioTypeOK, tickVars, gpioVars
      <4>2. NvicTypeOK'
        BY <3>1 DEF TypeOK, NvicTypeOK, StoreNvic, NvicWrite, WriteISER, WriteICER, WriteISPR,
               WriteICPR, WriteIPR
      <4>. QED  BY <4>1, <4>2
    <3>2. CASE StoreCSR
      BY <3>2 DEF TypeOK, StoreCSR, WriteCSR, NvicTypeOK, TickTypeOK, GpioTypeOK, nvicVars,
             gpioVars
    <3>3. CASE StoreIE
      BY <3>3 DEF TypeOK, StoreIE, WriteIE, NvicTypeOK, TickTypeOK, GpioTypeOK, nvicVars,
             tickVars
    <3>. QED  BY <1>3, <3>1, <3>2, <3>3 DEF Store
  <2>4. HistoryTypeOK'
    BY <1>3 DEF TypeOK, Store, HistoryTypeOK, historyVars
  <2>. QED  BY <2>1, <2>2, <2>3, <2>4 DEF TypeOK, KernelTypeOK, UsedTypeOK, HistoryTypeOK
<1>4. CASE Return
  <2>1. ipsr \in ExceptIds
    BY DEF TypeOK, CpuTypeOK
  <2>2. KernelTypeOK' /\ CpuTypeOK'
    BY <1>0, <1>4, <2>1, ExceptionIds DEF TypeOK, KernelTypeOK, CpuTypeOK, Return, CpuOnly,
           CpuExecReturn, Executing, Evaluate, Phases, TimedPhases
  <2>3. NvicTypeOK' /\ TickTypeOK' /\ GpioTypeOK' /\ UsedTypeOK' /\ HistoryTypeOK'
    BY <1>4 DEF TypeOK, Return, CpuOnly, NvicTypeOK, TickTypeOK, GpioTypeOK, UsedTypeOK,
           HistoryTypeOK, nvicVars, tickVars, gpioVars, historyVars
  <2>. QED  BY <2>2, <2>3 DEF TypeOK, KernelTypeOK, UsedTypeOK, HistoryTypeOK
<1>5. ASSUME NEW slp \in BOOLEAN, NEW bub \in 0..(PipelineStages - 1),
             NEW scheduled \in {nxt, [nxt EXCEPT !.active = 0]}, EndsTurn(slp, bub, scheduled)
      PROVE  TypeOK'
  <2>1. scheduled \in Signals /\ ipsr \in ExceptIds
    BY <1>0, ExceptionIds DEF TypeOK, CpuTypeOK
  <2>2. NextTurn(slp, bub, ipsr, scheduled)
    BY <1>5 DEF EndsTurn
  <2>3. nxt' \in Signals /\ CpuTypeOK'
    BY <2>1, <2>2, NextTurnTypes
  <2>4. KernelTypeOK'
    BY <1>5, <2>3 DEF TypeOK, KernelTypeOK, EndsTurn, Evaluate
  <2>5. NvicTypeOK' /\ TickTypeOK' /\ GpioTypeOK' /\ UsedTypeOK' /\ HistoryTypeOK'
    BY <1>5 DEF TypeOK, EndsTurn, NvicTypeOK, TickTypeOK, GpioTypeOK, UsedTypeOK,
           HistoryTypeOK, nvicVars, tickVars, gpioVars
  <2>. QED  BY <2>3, <2>4, <2>5 DEF TypeOK, KernelTypeOK, UsedTypeOK, HistoryTypeOK
<1>. QED  BY <1>1, <1>2, <1>3, <1>4, <1>5, CpuSteps

\* Nothing changes, no type changes.
LEMMA TypesStutter == ASSUME TypeOK, UNCHANGED vars PROVE TypeOK'
BY DEF TypeOK, NvicTypeOK, TickTypeOK, GpioTypeOK, CpuTypeOK, vars, kernelVars, nvicVars,
       tickVars, gpioVars, cpuVars, historyVars

\* In every behaviour signals and registers hold values of their types: nvic_pending is
\* a line in use, -1 or 0 (Nvic::process), the CPU's exception numbers are those of
\* lines in use (exceptionCheck), and the bubbles fit the pipeline (flushPipeline).
THEOREM Cm0TypeCorrect == Spec => []TypeOK
<1>1. TypeOK /\ [Next]_vars => TypeOK'
  BY TypesDelta, TypesTime, TypesNvic, TypesTick, TypesGpio, TypesCpu, TypesStutter
     DEF Next, PeripheralStep
<1>. QED  BY TypesInitially, <1>1, PTL DEF Spec

-----------------------------------------------------------------------------
(* What a delta cycle and a step of the CPU do *)

\* The CPU's turn at the start of an instant, after a timed wait.
CpuTimed == "cpu" \in run /\ phase \in TimedPhases

\* What the update phase makes runnable, by the sensitivity lists of
\* Nvic.cpp:45, SysTick.cpp:17 and Gpio.cpp:39.
LEMMA DeltaWakes ==
    ASSUME DeltaCycle
    PROVE  /\ run = {} /\ sig' = nxt /\ nxt' = nxt /\ delta' = {} /\ ~CpuTimed'
           /\ "tickProcess" \notin run'
           /\ "tickIrqControl" \in run' <=>
                 nxt.returning # sig.returning \/ "tickUpdateIrq" \in delta
           /\ "nvicProcess" \in run' <=>
                 \/ nxt.active # sig.active \/ nxt.returning # sig.returning
                 \/ nxt.irq # sig.irq \/ "nvicResetEvent" \in delta
           /\ "gpioIrqControl" \in run' <=>
                 nxt.active # sig.active \/ "gpioUpdateIrq" \in delta
           /\ "nvicReset" \in run' <=> nxt.pwrOn # sig.pwrOn
           /\ "gpioReset" \in run' <=> nxt.pwrOn # sig.pwrOn
           /\ "tickReset" \in run' <=> nxt.pwrOn # sig.pwrOn
           /\ "gpioProcess" \in run' <=> nxt.pwrOn # sig.pwrOn /\ nxt.pwrOn
           /\ "cpu" \in run' <=> CpuTriggered
<1>1. run = {} /\ sig' = nxt /\ nxt' = nxt /\ delta' = {}
  BY DEF DeltaCycle, Update
<1>2. run' = StaticallyTriggered \cup (IF CpuTriggered THEN {"cpu"} ELSE {})
  BY DEF DeltaCycle, Update
<1>3. "cpu" \notin StaticallyTriggered /\ "tickProcess" \notin StaticallyTriggered
  BY DEF StaticallyTriggered
<1>4. CpuTriggered => phase \notin TimedPhases
  BY DEF CpuTriggered, TimedPhases
<1>5. phase' = phase
  BY DEF DeltaCycle, cpuVars
<1>6. ASSUME NEW p \in Processes \ {"cpu"} PROVE p \in run' <=> p \in StaticallyTriggered
  BY <1>2, <1>6
<1>7. /\ "tickIrqControl" \in run' <=>
                 nxt.returning # sig.returning \/ "tickUpdateIrq" \in delta
      /\ "nvicProcess" \in run' <=>
                 \/ nxt.active # sig.active \/ nxt.returning # sig.returning
                 \/ nxt.irq # sig.irq \/ "nvicResetEvent" \in delta
      /\ "gpioIrqControl" \in run' <=>
                 nxt.active # sig.active \/ "gpioUpdateIrq" \in delta
      /\ "nvicReset" \in run' <=> nxt.pwrOn # sig.pwrOn
      /\ "gpioReset" \in run' <=> nxt.pwrOn # sig.pwrOn
      /\ "tickReset" \in run' <=> nxt.pwrOn # sig.pwrOn
      /\ "gpioProcess" \in run' <=> nxt.pwrOn # sig.pwrOn /\ nxt.pwrOn
  BY <1>6 DEF StaticallyTriggered, Changed, Processes
<1>. QED  BY <1>1, <1>2, <1>3, <1>4, <1>5, <1>7 DEF CpuTimed

\* What no step of CortexM0Cpu::process changes: the interrupt lines, and what the
\* peripherals have noted.
CpuKeeps ==
    /\ "cpu" \in run /\ run' = run \ {"cpu"} /\ sig' = sig /\ delta' = delta
    /\ nxt'.pwrOn = nxt.pwrOn /\ nxt'.irq = nxt.irq /\ nxt'.pending = nxt.pending
    /\ nxt'.tickIrq = nxt.tickIrq
    /\ UNCHANGED <<ispr, prevIrq, prevActive, tickSetIrq, pinsHigh, lastState, gpioIfg,
                   gpioSetIrq, owed>>
    /\ ~CpuTimed'

\* Every step of the CPU keeps them: its stores reach registers only.
LEMMA CpuKeepsAll == ASSUME TypeOK, CpuStep PROVE CpuKeeps
<1>0. run' = run \ {"cpu"} => ~CpuTimed'
  BY DEF CpuTimed
<1>1. CASE CpuOnly(CpuStartReset)
  BY <1>0, <1>1 DEF CpuKeeps, CpuOnly, CpuStartReset, Evaluate, nvicVars, tickVars, gpioVars,
         historyVars
<1>2. CASE StartHandler
  <2>1. nxt' = [nxt EXCEPT !.active = entering, !.returning = 0]
    BY <1>2 DEF StartHandler, CpuEnterException
  <2>2. nxt'.pwrOn = nxt.pwrOn /\ nxt'.irq = nxt.irq /\ nxt'.pending = nxt.pending
        /\ nxt'.tickIrq = nxt.tickIrq
    BY <2>1 DEF TypeOK, Signals
  <2>. QED  BY <1>0, <1>2, <2>2 DEF CpuKeeps, StartHandler, CpuEnterException, Evaluate,
              nvicVars, tickVars, gpioVars
<1>3. CASE Store
  <2>1. UNCHANGED <<ispr, prevIrq, prevActive, tickSetIrq, pinsHigh, lastState, gpioIfg,
                    gpioSetIrq>>
    BY <1>3 DEF Store, StoreNvic, StoreCSR, StoreIE, NvicWrite, WriteISER, WriteICER, WriteISPR,
           WriteICPR, WriteIPR, WriteCSR, WriteIE, nvicVars, tickVars, gpioVars
  <2>. QED  BY <1>0, <1>3, <2>1 DEF CpuKeeps, Store, CpuExecStore, Executing, Evaluate,
              historyVars
<1>4. CASE Return
  <2>1. nxt' = [nxt EXCEPT !.returning = ipsr]
    BY <1>4 DEF Return, CpuOnly, CpuExecReturn
  <2>2. nxt'.pwrOn = nxt.pwrOn /\ nxt'.irq = nxt.irq /\ nxt'.pending = nxt.pending
        /\ nxt'.tickIrq = nxt.tickIrq
    BY <2>1 DEF TypeOK, Signals
  <2>. QED  BY <1>0, <1>4, <2>2 DEF CpuKeeps, Return, CpuOnly, CpuExecReturn, Executing,
              Evaluate, nvicVars, tickVars, gpioVars, historyVars
<1>5. ASSUME NEW slp \in BOOLEAN, NEW bub \in 0..(PipelineStages - 1),
             NEW scheduled \in {nxt, [nxt EXCEPT !.active = 0]}, EndsTurn(slp, bub, scheduled)
      PROVE  CpuKeeps
  <2>1. nxt' \in {scheduled, [scheduled EXCEPT !.returning = 0]}
    BY <1>5 DEF EndsTurn, NextTurn
  <2>2. nxt'.pwrOn = nxt.pwrOn /\ nxt'.irq = nxt.irq /\ nxt'.pending = nxt.pending
        /\ nxt'.tickIrq = nxt.tickIrq
    BY <2>1 DEF TypeOK, Signals
  <2>. QED  BY <1>0, <1>5, <2>2 DEF CpuKeeps, EndsTurn, Evaluate, nvicVars, tickVars, gpioVars
<1>. QED  BY <1>1, <1>2, <1>3, <1>4, <1>5, CpuSteps

-----------------------------------------------------------------------------
(* No lost tick *)

\* SysTick::irqControl: an expiry that is owed keeps the line up or about to be raised;
\* a request and the return of the handler never meet in one run of irqControl() unless
\* the request is the newer one.
TickInv ==
    /\ tickOwed => \/ tickSetIrq /\ ("tickUpdateIrq" \in delta \/ "tickIrqControl" \in run)
                   \/ nxt.tickIrq
                   \/ phase = "enter" /\ entering = SYST_EXCEPT_ID
    /\ tickOwed => ipsr # SYST_EXCEPT_ID
    /\ "tickUpdateIrq" \in delta => tickSetIrq
    /\ "tickUpdateIrq" \in delta \/ "tickProcess" \in run \/ CpuTimed =>
           "tickIrqControl" \notin run
    /\ nxt.returning = SYST_EXCEPT_ID /\ sig.returning # SYST_EXCEPT_ID =>
           "tickIrqControl" \notin run /\ (tickOwed => tickSetIrq)
    /\ "tickIrqControl" \in run /\ sig.returning = SYST_EXCEPT_ID /\ tickOwed => tickSetIrq

\* The processes of the three peripherals.
NvicStep == NvicProcessStep \/ NvicResetStep
TickStep == TickProcessStep \/ TickIrqControlStep \/ TickResetStep
GpioStep == GpioProcessStep \/ GpioIrqControlStep \/ GpioResetStep

\* What the processes of the NVIC and the port leave alone (Nvic.cpp, Gpio.cpp).
TickFrame ==
    /\ UNCHANGED <<tickVars, cpuVars, tickOwed, sig>> /\ run' \subseteq run
    /\ nxt'.tickIrq = nxt.tickIrq /\ nxt'.returning = nxt.returning
    /\ "tickIrqControl" \in run' <=> "tickIrqControl" \in run
    /\ "tickUpdateIrq" \in delta' <=> "tickUpdateIrq" \in delta

\* No process of the NVIC and the port touches SysTick.
LEMMA OthersLeaveTick ==
    ASSUME TypeOK, NvicStep \/ GpioStep
    PROVE  /\ TickFrame /\ ticked' = ticked
           /\ \A p \in {"tickProcess", "tickReset"} : p \in run' <=> p \in run
<1>1. nxt'.tickIrq = nxt.tickIrq /\ nxt'.returning = nxt.returning
  <2>1. \E v : nxt' \in {nxt, [nxt EXCEPT !.pending = v], [nxt EXCEPT !.irq[GpioIrq] = v]}
    BY DEF NvicStep, GpioStep, NvicProcessStep, NvicProcess, NvicResetStep, NvicReset,
           GpioProcessStep, GpioProcess, GpioIrqControlStep, GpioIrqControl, GpioResetStep,
           GpioReset
  <2>. QED  BY <2>1 DEF TypeOK, Signals
<1>2. UNCHANGED <<tickVars, cpuVars, tickOwed, ticked, sig>>
  BY DEF NvicStep, GpioStep, NvicProcessStep, NvicProcess, NvicResetStep, NvicReset,
         GpioProcessStep, GpioProcess, GpioIrqControlStep, GpioIrqControl, GpioResetStep,
         GpioReset, historyVars
<1>3. \E p \in {"nvicProcess", "nvicReset", "gpioProcess", "gpioIrqControl", "gpioReset"} :
        run' = run \ {p}
  BY DEF NvicStep, GpioStep, NvicProcessStep, NvicProcess, NvicResetStep, NvicReset,
         GpioProcessStep, GpioProcess, GpioIrqControlStep, GpioIrqControl, GpioResetStep,
         GpioReset, Evaluate
<1>4. delta' \in {delta, delta \cup {"nvicResetEvent"}, delta \cup {"gpioUpdateIrq"}}
  BY DEF NvicStep, GpioStep, NvicProcessStep, NvicProcess, NvicResetStep, NvicReset,
         GpioProcessStep, GpioProcess, GpioIrqControlStep, GpioIrqControl, GpioResetStep,
         GpioReset
<1>. QED  BY <1>1, <1>2, <1>3, <1>4 DEF TickFrame

\* A step that leaves it alone keeps it.
LEMMA TickInvFrame == ASSUME TickInv, TickFrame PROVE TickInv'
BY DEF TickInv, TickFrame, CpuTimed, tickVars, cpuVars

\* At the start nothing is owed.
LEMMA TickInvInitially == Init => TickInv
BY DEF Init, KernelInit, SignalInit, TickInv, CpuTimed, SYST_EXCEPT_ID

\* Every step keeps it: process() runs before irqControl() of its own request, and the
\* line is lowered only by a return, which no expiry outside the handler precedes.
LEMMA TickInvStep == ASSUME TypeOK, TickInv, Next PROVE TickInv'
<1>1. CASE DeltaCycle
  <2>1. UNCHANGED <<tickSetIrq, phase, entering, ipsr, tickOwed>>
    BY <1>1 DEF DeltaCycle, tickVars, cpuVars
  <2>. QED  BY <1>1, <2>1, DeltaWakes DEF TickInv
<1>2. CASE TimePasses
  <2>1. PICK now \in SUBSET Due, pins \in SUBSET Pins, power \in BOOLEAN :
          Advance(now, pins, power)
    BY <1>2 DEF TimePasses
  <2>2. /\ run = {} /\ delta = {} /\ delta' = {} /\ nxt = sig /\ sig' = sig
        /\ UNCHANGED <<tickSetIrq, phase, entering, ipsr, tickOwed>>
    BY <2>1 DEF Advance, Settled, cpuVars, historyVars
  <2>3. nxt'.tickIrq = nxt.tickIrq /\ nxt'.returning = nxt.returning
    <3>1. nxt' \in {nxt, [nxt EXCEPT !.pwrOn = ~@]}
      BY <2>1 DEF Advance
    <3>. QED  BY <3>1 DEF TypeOK, Signals
  <2>4. "tickIrqControl" \notin run'
    BY <2>1 DEF Advance, Due
  <2>. QED  BY <2>2, <2>3, <2>4 DEF TickInv
<1>3. CASE NvicStep \/ GpioStep
  BY <1>3, OthersLeaveTick, TickInvFrame
<1>4. CASE TickProcessStep
  BY <1>4 DEF TickInv, TickProcessStep, TickProcess, Evaluate, CpuTimed, cpuVars
<1>5. CASE TickIrqControlStep
  <2>1. UNCHANGED <<sig, delta, phase, entering, ipsr, tickOwed>>
    BY <1>5 DEF TickIrqControlStep, TickIrqControl, cpuVars, historyVars
  <2>2. "tickIrqControl" \in run /\ run' = run \ {"tickIrqControl"}
    BY <1>5 DEF TickIrqControlStep, TickIrqControl, Evaluate
  <2>3. nxt'.returning = nxt.returning
        /\ nxt'.tickIrq = IF tickSetIrq THEN TRUE
                          ELSE IF sig.returning = SYST_EXCEPT_ID THEN FALSE ELSE nxt.tickIrq
    BY <1>5 DEF TickIrqControlStep, TickIrqControl, TypeOK, Signals
  <2>. QED  BY <2>1, <2>2, <2>3 DEF TickInv, CpuTimed
<1>6. CASE TickResetStep
  BY <1>6 DEF TickInv, TickResetStep, TickReset, Evaluate, CpuTimed, cpuVars
<1>7. CASE CpuStep
  <2>1. CpuKeeps
    BY <1>7, CpuKeepsAll
  <2>2. CASE CpuOnly(CpuStartReset)
    BY <2>1, <2>2 DEF CpuKeeps, TickInv, CpuOnly, CpuStartReset, historyVars, SYST_EXCEPT_ID
  <2>3. CASE StartHandler
    <3>1. nxt'.returning = 0
      BY <2>3 DEF StartHandler, CpuEnterException, TypeOK, Signals
    <3>2. ipsr' = entering /\ (tickOwed' <=> tickOwed /\ entering # SYST_EXCEPT_ID)
      BY <2>3 DEF StartHandler, CpuEnterException
    <3>3. SYST_EXCEPT_ID # 0
      BY DEF SYST_EXCEPT_ID
    <3>4. tickOwed' => tickOwed /\ ipsr' # SYST_EXCEPT_ID /\ entering # SYST_EXCEPT_ID
      BY <3>2
    <3>. QED  BY <2>1, <3>1, <3>3, <3>4 DEF CpuKeeps, TickInv
  <2>4. CASE Store
    BY <2>1, <2>4 DEF CpuKeeps, TickInv, Store, CpuExecStore, Executing, historyVars
  <2>5. CASE Return
    <3>1. nxt'.returning = ipsr /\ CpuTimed
      BY <2>1, <2>5 DEF CpuKeeps, Return, CpuOnly, CpuExecReturn, Executing, CpuTimed,
             TimedPhases, TypeOK, Signals
    <3>2. ipsr' = 0 /\ UNCHANGED <<entering, tickOwed>> /\ phase = "fetch"
      BY <2>5 DEF Return, CpuOnly, CpuExecReturn, Executing, historyVars
    <3>. QED  BY <2>1, <3>1, <3>2 DEF CpuKeeps, TickInv, SYST_EXCEPT_ID
  <2>6. ASSUME NEW slp \in BOOLEAN, NEW bub \in 0..(PipelineStages - 1),
               NEW scheduled \in {nxt, [nxt EXCEPT !.active = 0]}, EndsTurn(slp, bub, scheduled)
        PROVE  TickInv'
    <3>1. nxt'.returning \in {0, nxt.returning}
      <4>1. nxt' \in {scheduled, [scheduled EXCEPT !.returning = 0]}
        BY <2>6 DEF EndsTurn, NextTurn
      <4>. QED  BY <4>1 DEF TypeOK, Signals
    <3>2. ipsr' = ipsr /\ tickOwed' = tickOwed /\ phase # "enter"
      BY <2>6 DEF EndsTurn, NextTurn
    <3>. QED  BY <2>1, <3>1, <3>2 DEF CpuKeeps, TickInv, SYST_EXCEPT_ID
  <2>. QED  BY <1>7, <2>2, <2>3, <2>4, <2>5, <2>6, CpuSteps
<1>. QED  BY <1>1, <1>2, <1>3, <1>4, <1>5, <1>6, <1>7 DEF Next, PeripheralStep, NvicStep, GpioStep

\* In every behaviour an expiry outside the SysTick handler keeps the line raised, or
\* about to be, until the handler starts (SysTick::process, irqControl).
THEOREM NoTickLost == Spec => []NoLostTick
<1>1. TickInv /\ UNCHANGED vars => TickInv'
  BY DEF TickInv, CpuTimed, vars, kernelVars, tickVars, cpuVars, historyVars
<1>2. TickInv => NoLostTick
  BY DEF TickInv, NoLostTick
<1>. QED  BY Cm0TypeCorrect, TickInvInitially, TickInvStep, <1>1, <1>2, PTL DEF Spec

-----------------------------------------------------------------------------
(* The output of the NVIC, and sleep *)

\* What Nvic::process would drive on nvic_pending now.
Offered == IF sig.pwrOn THEN HighestPending(ispr) ELSE 0

\* Whatever changes ISER, IPR or the pending bits makes Nvic::process run.
FreshInv ==
    \/ "nvicProcess" \in run \/ "nvicReset" \in run \/ "nvicResetEvent" \in delta
    \/ nvicWritten
    \/ nxt.pending = Offered

\* A core asleep in thread mode has seen no exception (CortexM0Cpu::process).
SleepInv ==
    phase = "sleep" /\ ipsr = 0 /\ sig.pwrOn /\ "cpu" \notin run => PendingException = 0

\* It depends on the registers of the NVIC and on pwrOn only (Nvic.cpp:134).
LEMMA OfferedKept ==
    ASSUME UNCHANGED <<ispr, iser, ipr>>, sig'.pwrOn = sig.pwrOn
    PROVE  Offered' = Offered
BY DEF Offered, HighestPending, MoreUrgent

\* A step that leaves the registers and the output of the NVIC alone keeps it fresh.
LEMMA FreshFrame ==
    ASSUME FreshInv, UNCHANGED <<ispr, iser, ipr, nvicWritten, sig>>, nxt'.pending = nxt.pending,
           "nvicProcess" \in run => "nvicProcess" \in run',
           "nvicReset" \in run => "nvicReset" \in run',
           "nvicResetEvent" \in delta => "nvicResetEvent" \in delta'
    PROVE  FreshInv'
BY OfferedKept DEF FreshInv

\* Every step keeps it: a write notifies m_writeEvent, a reset m_resetEvent, and
\* process() itself drives the value of the registers it leaves.
LEMMA FreshInvStep == ASSUME TypeOK, FreshInv, Next PROVE FreshInv'
<1>1. CASE DeltaCycle
  <2>1. UNCHANGED <<ispr, iser, ipr, nvicWritten>>
    BY <1>1 DEF DeltaCycle, nvicVars
  <2>2. CASE nxt.pwrOn = sig.pwrOn
    <3>1. Offered' = Offered
      BY <1>1, <2>1, <2>2, DeltaWakes, OfferedKept
    <3>. QED  BY <1>1, <2>1, <3>1, DeltaWakes DEF FreshInv
  <2>3. CASE nxt.pwrOn # sig.pwrOn
    BY <1>1, <2>3, DeltaWakes DEF FreshInv
  <2>. QED  BY <2>2, <2>3
<1>2. CASE TimePasses
  <2>1. PICK now \in SUBSET Due, pins \in SUBSET Pins, power \in BOOLEAN :
          Advance(now, pins, power)
    BY <1>2 DEF TimePasses
  <2>2. run = {} /\ delta = {} /\ UNCHANGED <<sig, ispr, iser, ipr>>
    BY <2>1 DEF Advance, Settled
  <2>3. nxt'.pending = nxt.pending
    <3>1. nxt' \in {nxt, [nxt EXCEPT !.pwrOn = ~@]}
      BY <2>1 DEF Advance
    <3>. QED  BY <3>1 DEF TypeOK, Signals
  <2>4. nvicWritten => nvicWritten' \/ "nvicProcess" \in run'
    BY <2>1 DEF Advance
  <2>5. Offered' = Offered
    BY <2>2, OfferedKept
  <2>. QED  BY <2>2, <2>3, <2>4, <2>5 DEF FreshInv
<1>3. CASE NvicProcessStep
  <2>1. sig' = sig /\ UNCHANGED <<iser, ipr>>
    BY <1>3 DEF NvicProcessStep, NvicProcess
  <2>2. CASE sig.pwrOn
    <3>1. ispr' = Resolve(ispr) /\ nxt' = [nxt EXCEPT !.pending = HighestPending(Resolve(ispr))]
      BY <1>3, <2>2 DEF NvicProcessStep, NvicProcess
    <3>2. Offered' = HighestPending(Resolve(ispr))
      BY <2>1, <2>2, <3>1 DEF Offered, HighestPending, MoreUrgent
    <3>3. nxt'.pending = HighestPending(Resolve(ispr))
      BY <3>1 DEF TypeOK, Signals
    <3>. QED  BY <3>2, <3>3 DEF FreshInv
  <2>3. CASE ~sig.pwrOn
    <3>1. nxt'.pending = 0
      BY <1>3, <2>3 DEF NvicProcessStep, NvicProcess, TypeOK, Signals
    <3>2. Offered' = 0
      BY <2>1, <2>3 DEF Offered
    <3>. QED  BY <3>1, <3>2 DEF FreshInv
  <2>. QED  BY <2>2, <2>3
<1>4. CASE NvicResetStep
  BY <1>4 DEF FreshInv, NvicResetStep, NvicReset
<1>5. CASE TickProcessStep \/ TickResetStep
  BY <1>5, FreshFrame DEF TickProcessStep, TickProcess, TickResetStep, TickReset, Evaluate,
     nvicVars
<1>6. CASE TickIrqControlStep
  <2>1. nxt'.pending = nxt.pending
    BY <1>6 DEF TickIrqControlStep, TickIrqControl, TypeOK, Signals
  <2>. QED  BY <1>6, <2>1, FreshFrame DEF TickIrqControlStep, TickIrqControl, Evaluate, nvicVars
<1>7. CASE GpioProcessStep \/ GpioResetStep
  BY <1>7, FreshFrame DEF GpioProcessStep, GpioProcess, GpioResetStep, GpioReset, Evaluate,
     nvicVars
<1>8. CASE GpioIrqControlStep
  <2>1. nxt'.pending = nxt.pending
    <3>1. \E v \in BOOLEAN : nxt' \in {nxt, [nxt EXCEPT !.irq[GpioIrq] = v]}
      BY <1>8 DEF GpioIrqControlStep, GpioIrqControl
    <3>. QED  BY <3>1 DEF TypeOK, Signals
  <2>. QED  BY <1>8, <2>1, FreshFrame DEF GpioIrqControlStep, GpioIrqControl, Evaluate, nvicVars
<1>9. CASE CpuStep
  <2>1. CpuKeeps
    BY <1>9, CpuKeepsAll
  <2>2. UNCHANGED nvicVars \/ nvicWritten'
    <3>1. CASE Store
      BY <3>1 DEF Store, StoreNvic, StoreCSR, StoreIE, NvicWrite
    <3>2. CASE \E slp \in BOOLEAN, bub \in 0..(PipelineStages - 1),
                 scheduled \in {nxt, [nxt EXCEPT !.active = 0]} : EndsTurn(slp, bub, scheduled)
      BY <3>2 DEF EndsTurn
    <3>. QED  BY <1>9, <3>1, <3>2, CpuSteps DEF CpuOnly, StartHandler, Return
  <2>. QED  BY <2>1, <2>2, FreshFrame DEF CpuKeeps, FreshInv, nvicVars
<1>. QED  BY <1>1, <1>2, <1>3, <1>4, <1>5, <1>6, <1>7, <1>8, <1>9 DEF Next, PeripheralStep

\* In every behaviour, once an instant is over, the exception offered to the CPU is the
\* most urgent enabled pending line (Nvic::process and its sensitivity).
THEOREM OutputFresh == Spec => []PendingOutputFresh
<1>1. Init => FreshInv
  BY DEF Init, KernelInit, FreshInv
<1>2. FreshInv /\ UNCHANGED vars => FreshInv'
  BY FreshFrame DEF vars, kernelVars, nvicVars
<1>3. FreshInv => PendingOutputFresh
  BY DEF FreshInv, PendingOutputFresh, Settled, Offered
<1>. QED  BY Cm0TypeCorrect, FreshInvStep, <1>1, <1>2, <1>3, PTL DEF Spec

\* Every step keeps it: exceptionCheck() comes before the wait, and the wait is for every
\* signal exceptionCheck() reads.
LEMMA SleepInvStep == ASSUME TypeOK, SleepInv, Next PROVE SleepInv'
<1>1. CASE DeltaCycle
  <2>1. UNCHANGED <<phase, ipsr>>
    BY <1>1 DEF DeltaCycle, cpuVars
  <2>2. phase = "sleep" /\ "cpu" \notin run' =>
          nxt.pwrOn = sig.pwrOn /\ nxt.tickIrq = sig.tickIrq /\ nxt.pending = sig.pending
    BY <1>1, DeltaWakes DEF CpuTriggered, Changed
  <2>. QED  BY <1>1, <2>1, <2>2, DeltaWakes DEF SleepInv, PendingException
<1>2. CASE TimePasses
  BY <1>2 DEF TimePasses, Advance, Settled, SleepInv, PendingException, cpuVars
<1>3. CASE PeripheralStep
  <2>1. UNCHANGED <<sig, phase, ipsr>> /\ ("cpu" \in run => "cpu" \in run')
    BY <1>3 DEF PeripheralStep, NvicProcessStep, NvicProcess, NvicResetStep, NvicReset,
       TickProcessStep, TickProcess, TickIrqControlStep, TickIrqControl, TickResetStep, TickReset,
       GpioProcessStep, GpioProcess, GpioIrqControlStep, GpioIrqControl, GpioResetStep, GpioReset,
       Evaluate, cpuVars
  <2>. QED  BY <2>1 DEF SleepInv, PendingException
<1>4. CASE CpuStep
  <2>1. phase' = "sleep" =>
          \E slp \in BOOLEAN, bub \in 0..(PipelineStages - 1),
             scheduled \in {nxt, [nxt EXCEPT !.active = 0]} : EndsTurn(slp, bub, scheduled)
    BY <1>4, CpuSteps DEF CpuOnly, CpuStartReset, StartHandler, CpuEnterException, Store,
       CpuExecStore, Return, CpuExecReturn
  <2>2. ASSUME NEW slp \in BOOLEAN, NEW bub \in 0..(PipelineStages - 1),
               NEW scheduled \in {nxt, [nxt EXCEPT !.active = 0]}, EndsTurn(slp, bub, scheduled),
               phase' = "sleep"
        PROVE  sig' = sig /\ (ipsr' = 0 => PendingException = 0)
    BY <2>2 DEF EndsTurn, NextTurn
  <2>3. phase' = "sleep" => sig' = sig /\ (ipsr' = 0 => PendingException = 0)
    BY <2>1, <2>2
  <2>. QED  BY <2>3 DEF SleepInv, PendingException
<1>. QED  BY <1>1, <1>2, <1>3, <1>4 DEF Next

\* In every behaviour a core asleep in thread mode has no exception to take
\* (CortexM0Cpu::process, the wait of a sleeping core).
THEOREM SleepsRightly == Spec => []NoSleepOverException
<1>1. Init => SleepInv
  BY DEF Init, CpuInit, SleepInv
<1>2. SleepInv /\ UNCHANGED vars => SleepInv'
  BY DEF SleepInv, PendingException, vars, kernelVars, cpuVars
<1>3. SleepInv => NoSleepOverException
  BY DEF SleepInv, NoSleepOverException, Settled
<1>. QED  BY Cm0TypeCorrect, SleepInvStep, <1>1, <1>2, <1>3, PTL DEF Spec

-----------------------------------------------------------------------------
(* No lost edge *)

\* The lines that are up, what m_prevIrq is compared with.
LinesUp == {i \in Irqs : sig.irq[i]}
\* Nvic::process has yet to run, at the latest after a reset.
Awaited == "nvicProcess" \in run \/ "nvicReset" \in run \/ "nvicResetEvent" \in delta

\* The first evaluation phase of an instant: nothing is on its way, and the NVIC has
\* seen every line and the active exception (Nvic::process).
FirstPhase ==
    /\ run \subseteq {"cpu", "gpioProcess", "tickProcess", "nvicProcess"}
    /\ nxt.irq = sig.irq /\ "nvicResetEvent" \notin delta
    /\ sig.pwrOn => prevActive = sig.active /\ prevIrq = LinesUp

\* Who runs with whom: Gpio::process with interrupts enabled and the CPU after a timed
\* wait run in the first phase only; the NVIC looks at every change; the two resets come
\* together.
PhaseInv ==
    /\ "gpioProcess" \in run /\ "gpioReset" \notin run /\ gpioIe # {} => FirstPhase
    /\ CpuTimed => FirstPhase
    /\ sig.pwrOn /\ ~(prevActive = sig.active /\ prevIrq = LinesUp) => Awaited
    /\ "nvicReset" \in run \/ "nvicResetEvent" \in delta =>
         "gpioUpdateIrq" \in delta \/ "gpioReset" \in run

\* Around a change of power: the port's line is low when power returns, and an edge that
\* Gpio::process noted before its own reset is on its way when the NVIC forgets.
PowerInv ==
    /\ owed /\ ~sig.pwrOn => "gpioReset" \in run /\ ~nxt.pwrOn
    /\ ~sig.pwrOn =>
         /\ nxt.irq[GpioIrq] => \/ "gpioReset" \in run \/ "gpioUpdateIrq" \in delta
                                \/ "gpioIrqControl" \in run
         /\ GpioIrq \in prevIrq => "nvicReset" \in run
         /\ nxt.pwrOn => ~nxt.irq[GpioIrq] /\ GpioIrq \notin prevIrq
    /\ sig.pwrOn /\ ("gpioReset" \in run \/ "nvicReset" \in run) =>
         ~sig.irq[GpioIrq] /\ GpioIrq \notin prevIrq
    /\ sig.pwrOn /\ "gpioReset" \in run /\ owed =>
         (gpioSetIrq /\ "gpioUpdateIrq" \in delta) \/ nxt.irq[GpioIrq]
    /\ ("nvicReset" \in run \/ "nvicResetEvent" \in delta) /\ sig.pwrOn /\ owed =>
         "gpioReset" \in run

\* The port's request and its line (Gpio::irqControl): a line about to rise is new to
\* the NVIC, and no request is noted while the line is about to fall.
LineInv ==
    /\ sig.pwrOn /\ (gpioSetIrq \/ nxt.irq[GpioIrq]) /\ ~sig.irq[GpioIrq] =>
         GpioIrq \notin prevIrq
    /\ sig.pwrOn /\ sig.irq[GpioIrq] /\ ~nxt.irq[GpioIrq] => ~gpioSetIrq
    /\ nxt.irq[GpioIrq] # sig.irq[GpioIrq] => "gpioIrqControl" \notin run
    /\ /\ sig.pwrOn /\ owed /\ "gpioUpdateIrq" \in delta
       /\ "gpioIrqControl" \in run \/ nxt.irq[GpioIrq] # sig.irq[GpioIrq]
       => "gpioReset" \in run

\* The start of the port's handler (exceptionEnter, then Gpio::irqControl and
\* Nvic::process in the same delta cycle): an edge owed then came with a reset, and a
\* line the NVIC has seen up is pending unless its handler is just starting.
HandlerInv ==
    /\ sig.pwrOn /\ sig.active = GpioId =>
         /\ owed /\ prevActive # GpioId => "gpioReset" \in run
         /\ sig.irq[GpioIrq] /\ prevActive # GpioId =>
               "gpioIrqControl" \in run \/ ~nxt.irq[GpioIrq]
         /\ sig.irq[GpioIrq] /\ "gpioIrqControl" \in run /\ owed => GpioIrq \in ispr
    /\ /\ sig.pwrOn /\ sig.irq[GpioIrq] /\ nxt.irq[GpioIrq] /\ GpioIrq \in prevIrq
       /\ sig.active # GpioId \/ (prevActive = GpioId /\ "gpioIrqControl" \notin run)
       => GpioIrq \in ispr

\* An edge is on its way to the CPU, with what that rests on (Gpio.cpp, Nvic.cpp).
EdgeInv == PhaseInv /\ PowerInv /\ LineInv /\ HandlerInv /\ NoLostEdge

\* A step that leaves port, line, NVIC and power alone keeps it.
LEMMA EdgeFrame ==
    ASSUME EdgeInv,
           UNCHANGED <<sig, ispr, prevIrq, prevActive, gpioSetIrq, owed>>,
           \A e \in {"nvicResetEvent", "gpioUpdateIrq"} : e \in delta' <=> e \in delta,
           nxt'.irq = nxt.irq, nxt'.pwrOn = nxt.pwrOn,
           run' \subseteq run, CpuTimed' => CpuTimed,
           gpioIe' # {} => gpioIe # {} \/ CpuTimed,
           \A p \in {"nvicProcess", "nvicReset", "gpioReset", "gpioIrqControl"} :
               p \in run => p \in run'
    PROVE  EdgeInv'
<1>1. LinesUp' = LinesUp
  BY DEF LinesUp
<1>2. Awaited' = Awaited
  BY DEF Awaited
<1>3. FirstPhase => FirstPhase'
  BY <1>1 DEF FirstPhase
<1>4. PhaseInv'
  BY <1>1, <1>2, <1>3 DEF EdgeInv, PhaseInv
<1>5. PowerInv' /\ LineInv'
  BY DEF EdgeInv, PowerInv, LineInv
<1>6. HandlerInv' /\ NoLostEdge'
  BY DEF EdgeInv, HandlerInv, NoLostEdge
<1>. QED  BY <1>4, <1>5, <1>6 DEF EdgeInv

\* The steps of CortexM0Cpu::process keep it: a store to IE comes in the first phase.
LEMMA EdgeCpu == ASSUME TypeOK, EdgeInv, CpuStep PROVE EdgeInv'
<1>1. CpuKeeps
  BY CpuKeepsAll
<1>2. gpioIe' # {} => gpioIe # {} \/ CpuTimed
  <2>1. CASE Store
    BY <2>1 DEF Store, CpuExecStore, Executing, Evaluate, CpuTimed, TimedPhases
  <2>2. CASE ~Store
    <3>1. UNCHANGED gpioVars
      BY <2>2, CpuSteps DEF CpuOnly, StartHandler, Return, EndsTurn
    <3>. QED  BY <3>1 DEF gpioVars
  <2>. QED  BY <2>1, <2>2
<1>. QED  BY <1>1, <1>2, EdgeFrame DEF CpuKeeps

\* SysTick's processes keep it.
LEMMA EdgeTick ==
    ASSUME TypeOK, EdgeInv, TickProcessStep \/ TickIrqControlStep \/ TickResetStep
    PROVE  EdgeInv'
<1>1. nxt'.irq = nxt.irq /\ nxt'.pwrOn = nxt.pwrOn
  BY DEF TickProcessStep, TickProcess, TickIrqControlStep, TickIrqControl, TickResetStep,
     TickReset, TypeOK, Signals
<1>2. \A e \in {"nvicResetEvent", "gpioUpdateIrq"} : e \in delta' <=> e \in delta
  BY DEF TickProcessStep, TickProcess, TickIrqControlStep, TickIrqControl, TickResetStep,
     TickReset
<1>3. \E p \in {"tickProcess", "tickIrqControl", "tickReset"} : run' = run \ {p}
  BY DEF TickProcessStep, TickProcess, TickIrqControlStep, TickIrqControl, TickResetStep,
     TickReset,
     Evaluate
<1>4. UNCHANGED <<sig, ispr, prevIrq, prevActive, gpioSetIrq, gpioIe, owed, phase>>
  BY DEF TickProcessStep, TickProcess, TickIrqControlStep, TickIrqControl, TickResetStep,
     TickReset,
     nvicVars, gpioVars, cpuVars, historyVars
<1>. QED  BY <1>1, <1>2, <1>3, <1>4, EdgeFrame DEF CpuTimed

\* An instant begins with everything at rest.
LEMMA EdgeTime == ASSUME TypeOK, EdgeInv, TimePasses PROVE EdgeInv'
<1>1. PICK now \in SUBSET Due, pins \in SUBSET Pins, power \in BOOLEAN :
        Advance(now, pins, power)
  BY DEF TimePasses
<1>2. /\ run = {} /\ delta = {} /\ delta' = {} /\ nxt = sig
      /\ UNCHANGED <<sig, ispr, prevIrq, prevActive, gpioSetIrq, gpioIe, owed>>
  BY <1>1 DEF Advance, Settled, historyVars
<1>3. nxt'.irq = nxt.irq
  <2>1. nxt' \in {nxt, [nxt EXCEPT !.pwrOn = ~@]}
    BY <1>1 DEF Advance
  <2>. QED  BY <2>1 DEF TypeOK, Signals
<1>4. run' \subseteq {"cpu", "gpioProcess", "tickProcess", "nvicProcess"}
  BY <1>1 DEF Advance, Due
<1>5. LinesUp' = LinesUp
  BY <1>2 DEF LinesUp
<1>6. FirstPhase'
  BY <1>2, <1>3, <1>4, <1>5 DEF FirstPhase, EdgeInv, PhaseInv, Awaited
<1>7. PhaseInv'
  BY <1>2, <1>6 DEF PhaseInv, FirstPhase
<1>8. PowerInv' /\ LineInv'
  BY <1>2, <1>3, <1>4 DEF EdgeInv, PowerInv, LineInv
<1>9. HandlerInv' /\ NoLostEdge'
  BY <1>2, <1>3, <1>4 DEF EdgeInv, HandlerInv, NoLostEdge
<1>. QED  BY <1>7, <1>8, <1>9 DEF EdgeInv

\* The update phase keeps it: a change of a line or of the active exception wakes
\* Nvic::process, a change of power both resets.
LEMMA EdgeDelta == ASSUME TypeOK, EdgeInv, DeltaCycle PROVE EdgeInv'
<1>1. /\ run = {} /\ sig' = nxt /\ nxt' = nxt /\ delta' = {} /\ ~CpuTimed'
      /\ "nvicProcess" \in run' <=>
            \/ nxt.active # sig.active \/ nxt.returning # sig.returning
            \/ nxt.irq # sig.irq \/ "nvicResetEvent" \in delta
      /\ "gpioIrqControl" \in run' <=> nxt.active # sig.active \/ "gpioUpdateIrq" \in delta
      /\ "nvicReset" \in run' <=> nxt.pwrOn # sig.pwrOn
      /\ "gpioReset" \in run' <=> nxt.pwrOn # sig.pwrOn
      /\ "gpioProcess" \in run' <=> nxt.pwrOn # sig.pwrOn /\ nxt.pwrOn
  BY DeltaWakes
<1>2. UNCHANGED <<ispr, prevIrq, prevActive, gpioSetIrq, gpioIe>>
  BY DEF DeltaCycle, nvicVars, gpioVars
<1>3. owed' <=> owed /\ ~(nxt.active # sig.active /\ nxt.active = GpioId)
  BY DEF DeltaCycle, Changed
<1>4. /\ sig.pwrOn \in BOOLEAN /\ nxt.pwrOn \in BOOLEAN /\ gpioSetIrq \in BOOLEAN
      /\ sig.irq[GpioIrq] \in BOOLEAN /\ nxt.irq[GpioIrq] \in BOOLEAN
  BY GpioAssumption DEF TypeOK, Signals, GpioTypeOK
<1>5. sig.irq[GpioIrq] # nxt.irq[GpioIrq] => "nvicProcess" \in run'
  BY <1>1
<1>6. PhaseInv'
  <2>1. sig'.pwrOn /\ ~Awaited' => prevActive' = sig'.active /\ prevIrq' = LinesUp'
    BY <1>1, <1>2, <1>4 DEF EdgeInv, PhaseInv, Awaited, LinesUp
  <2>. QED  BY <1>1, <2>1 DEF PhaseInv
<1>7. PowerInv'
  BY <1>1, <1>2, <1>3, <1>4 DEF EdgeInv, PowerInv
<1>8. LineInv'
  BY <1>1, <1>2, <1>3, <1>4, GpioAssumption
     DEF EdgeInv, LineInv, PhaseInv, PowerInv, LinesUp, Awaited
<1>9. HandlerInv'
  BY <1>1, <1>2, <1>3, <1>4, GpioAssumption
     DEF EdgeInv, HandlerInv, LineInv, PhaseInv, PowerInv, LinesUp, Awaited, NoLostEdge
<1>10. NoLostEdge'
  BY <1>1, <1>2, <1>3, <1>4 DEF EdgeInv, PowerInv, NoLostEdge
<1>. QED  BY <1>6, <1>7, <1>8, <1>9, <1>10 DEF EdgeInv

\* Nvic::process pends a line it sees rise and clears one whose handler starts, which
\* has just stopped being owed.
LEMMA EdgeNvicProcess == ASSUME TypeOK, EdgeInv, NvicProcessStep PROVE EdgeInv'
<1>1. /\ "nvicProcess" \in run /\ run' = run \ {"nvicProcess"}
      /\ UNCHANGED <<sig, delta, gpioSetIrq, gpioIe, phase>>
  BY DEF NvicProcessStep, NvicProcess, Evaluate, gpioVars, cpuVars
<1>2. nxt'.irq = nxt.irq /\ nxt'.pwrOn = nxt.pwrOn
  <2>1. \E p : nxt' = [nxt EXCEPT !.pending = p]
    BY DEF NvicProcessStep, NvicProcess
  <2>. QED  BY <2>1 DEF TypeOK, Signals
<1>3. LinesUp' = LinesUp /\ (CpuTimed' => CpuTimed)
  BY <1>1 DEF LinesUp, CpuTimed
<1>4. CASE sig.pwrOn
  <2>1. prevActive' = sig.active /\ prevIrq' = LinesUp /\ ispr' = Resolve(ispr)
    BY <1>4 DEF NvicProcessStep, NvicProcess, LinesUp
  <2>2. owed' <=> owed /\ GpioIrq \notin swClearPending
    BY <1>4 DEF NvicProcessStep
  <2>3. GpioIrq \in LinesUp <=> sig.irq[GpioIrq]
    BY GpioAssumption DEF LinesUp
  <2>4. /\ sig.irq[GpioIrq] /\ GpioIrq \notin prevIrq => GpioIrq \in ispr'
        /\ /\ GpioIrq \in ispr /\ ~(sig.active = GpioId /\ sig.active # prevActive)
           /\ sig.irq[GpioIrq] \/ GpioIrq \notin swClearPending
           => GpioIrq \in ispr'
    BY <2>1, GpioAssumption, ExceptionIds
       DEF Resolve, SetPend, ClearPend, GpioId, NVIC_EXCEPT_ID_BASE
  <2>5. PhaseInv'
    BY <1>1, <1>2, <1>3, <2>1 DEF EdgeInv, PhaseInv, FirstPhase, Awaited
  <2>6. PowerInv'
    BY <1>1, <1>2, <1>4, <2>1, <2>2, <2>3 DEF EdgeInv, PowerInv
  <2>7. LineInv'
    BY <1>1, <1>2, <1>4, <2>1, <2>2, <2>3 DEF EdgeInv, LineInv
  <2>8. HandlerInv'
    BY <1>1, <1>2, <1>4, <2>1, <2>2, <2>3, <2>4 DEF EdgeInv, HandlerInv, PowerInv
  <2>9. NoLostEdge'
    BY <1>1, <1>2, <1>4, <2>1, <2>2, <2>3, <2>4 DEF EdgeInv, HandlerInv, PowerInv, NoLostEdge
  <2>. QED  BY <2>5, <2>6, <2>7, <2>8, <2>9 DEF EdgeInv
<1>5. CASE ~sig.pwrOn
  <2>1. UNCHANGED <<ispr, prevIrq, prevActive>> /\ (owed' <=> owed)
    BY <1>5 DEF NvicProcessStep, NvicProcess
  <2>2. PhaseInv'
    BY <1>1, <1>2, <1>3, <1>5, <2>1 DEF EdgeInv, PhaseInv, FirstPhase
  <2>3. PowerInv' /\ LineInv'
    BY <1>1, <1>2, <1>5, <2>1 DEF EdgeInv, PowerInv, LineInv
  <2>4. HandlerInv' /\ NoLostEdge'
    BY <1>1, <1>2, <1>5, <2>1 DEF HandlerInv, NoLostEdge
  <2>. QED  BY <2>2, <2>3, <2>4 DEF EdgeInv
<1>. QED  BY <1>4, <1>5

\* Nvic::reset forgets, but what is owed then is still in the port or on the line.
LEMMA EdgeNvicReset == ASSUME TypeOK, EdgeInv, NvicResetStep PROVE EdgeInv'
<1>1. /\ "nvicReset" \in run /\ run' = run \ {"nvicReset"}
      /\ delta' = delta \cup {"nvicResetEvent"} /\ ispr' = {} /\ prevIrq' = {} /\ prevActive' = -1
      /\ UNCHANGED <<sig, nxt, gpioSetIrq, gpioIe, phase, owed>>
  BY DEF NvicResetStep, NvicReset, Evaluate, gpioVars, cpuVars
<1>2. LinesUp' = LinesUp /\ (CpuTimed' => CpuTimed)
  BY <1>1 DEF LinesUp, CpuTimed
<1>3. PhaseInv'
  BY <1>1, <1>2 DEF EdgeInv, PhaseInv, FirstPhase, Awaited
<1>4. PowerInv'
  BY <1>1 DEF EdgeInv, PowerInv
<1>5. LineInv'
  BY <1>1 DEF EdgeInv, LineInv
<1>6. HandlerInv'
  BY <1>1 DEF EdgeInv, HandlerInv, PowerInv
<1>7. NoLostEdge'
  BY <1>1 DEF EdgeInv, PowerInv, NoLostEdge
<1>. QED  BY <1>3, <1>4, <1>5, <1>6, <1>7 DEF EdgeInv

\* Gpio::process notes the edge and has irqControl() run.
LEMMA EdgeGpioProcess == ASSUME TypeOK, EdgeInv, GpioProcessStep PROVE EdgeInv'
<1>1. /\ "gpioProcess" \in run /\ run' = run \ {"gpioProcess"}
      /\ UNCHANGED <<sig, nxt, gpioIe, phase, ispr, prevIrq, prevActive>>
  BY DEF GpioProcessStep, GpioProcess, Evaluate, nvicVars, cpuVars
<1>2. LinesUp' = LinesUp /\ (CpuTimed' => CpuTimed)
  BY <1>1 DEF LinesUp, CpuTimed
<1>3. CASE ~(sig.pwrOn /\ Posedges # {})
  <2>1. UNCHANGED gpioSetIrq /\ (owed' <=> owed)
        /\ ("gpioUpdateIrq" \in delta' <=> "gpioUpdateIrq" \in delta)
        /\ ("nvicResetEvent" \in delta' <=> "nvicResetEvent" \in delta)
    BY <1>3 DEF GpioProcessStep, GpioProcess, TypeOK, GpioTypeOK
  <2>2. PhaseInv'
    BY <1>1, <1>2, <2>1 DEF EdgeInv, PhaseInv, FirstPhase, Awaited
  <2>3. PowerInv' /\ LineInv'
    BY <1>1, <2>1 DEF EdgeInv, PowerInv, LineInv
  <2>4. HandlerInv' /\ NoLostEdge'
    BY <1>1, <2>1 DEF EdgeInv, HandlerInv, NoLostEdge
  <2>. QED  BY <2>2, <2>3, <2>4 DEF EdgeInv
<1>4. CASE sig.pwrOn /\ Posedges # {}
  <2>1. /\ gpioSetIrq' /\ owed' /\ delta' = delta \cup {"gpioUpdateIrq"} /\ gpioIe # {}
    BY <1>4 DEF GpioProcessStep, GpioProcess, Posedges
  <2>2. GpioIrq \in LinesUp <=> sig.irq[GpioIrq]
    BY GpioAssumption DEF LinesUp
  <2>3. FirstPhase \/ ("gpioReset" \in run /\ ~sig.irq[GpioIrq] /\ GpioIrq \notin prevIrq)
    BY <1>1, <1>4, <2>1 DEF EdgeInv, PhaseInv, PowerInv
  <2>4. PhaseInv'
    BY <1>1, <1>2, <2>1 DEF EdgeInv, PhaseInv, FirstPhase, Awaited
  <2>5. PowerInv'
    BY <1>1, <1>4, <2>1, <2>3 DEF EdgeInv, PowerInv, FirstPhase
  <2>6. LineInv'
    BY <1>1, <1>4, <2>1, <2>2, <2>3 DEF EdgeInv, LineInv, FirstPhase
  <2>7. HandlerInv' /\ NoLostEdge'
    BY <1>1, <1>4, <2>1, <2>2, <2>3 DEF EdgeInv, HandlerInv, NoLostEdge, FirstPhase
  <2>. QED  BY <2>4, <2>5, <2>6, <2>7 DEF EdgeInv
<1>. QED  BY <1>3, <1>4

\* Gpio::reset ends what is owed.
LEMMA EdgeGpioReset == ASSUME TypeOK, EdgeInv, GpioResetStep PROVE EdgeInv'
<1>1. /\ "gpioReset" \in run /\ run' = run \ {"gpioReset"}
      /\ delta' = delta \cup {"gpioUpdateIrq"} /\ gpioSetIrq' = FALSE /\ gpioIe' = {}
      /\ owed' = FALSE
      /\ UNCHANGED <<sig, nxt, phase, ispr, prevIrq, prevActive>>
  BY DEF GpioResetStep, GpioReset, Evaluate, nvicVars, cpuVars
<1>2. LinesUp' = LinesUp /\ (CpuTimed' => CpuTimed)
  BY <1>1 DEF LinesUp, CpuTimed
<1>3. PhaseInv'
  BY <1>1, <1>2 DEF EdgeInv, PhaseInv, FirstPhase, Awaited
<1>4. PowerInv' /\ LineInv'
  BY <1>1 DEF EdgeInv, PowerInv, LineInv
<1>5. HandlerInv' /\ NoLostEdge'
  BY <1>1 DEF EdgeInv, HandlerInv, NoLostEdge
<1>. QED  BY <1>3, <1>4, <1>5 DEF EdgeInv

\* Gpio::irqControl raises a line that is new to the NVIC and lowers it only when the
\* handler starts, with the NVIC already holding the next request.
LEMMA EdgeGpioIrqControl == ASSUME TypeOK, EdgeInv, GpioIrqControlStep PROVE EdgeInv'
<1>1. /\ "gpioIrqControl" \in run /\ run' = run \ {"gpioIrqControl"} /\ gpioSetIrq' = FALSE
      /\ UNCHANGED <<sig, delta, gpioIe, phase, ispr, prevIrq, prevActive, owed>>
  BY DEF GpioIrqControlStep, GpioIrqControl, Evaluate, nvicVars, cpuVars, historyVars
<1>2. LinesUp' = LinesUp /\ (CpuTimed' => CpuTimed)
  BY <1>1 DEF LinesUp, CpuTimed
<1>3. nxt'.pwrOn = nxt.pwrOn
      /\ nxt'.irq[GpioIrq] = IF ~sig.pwrOn THEN FALSE
                             ELSE IF gpioSetIrq /\ ~sig.irq[GpioIrq] THEN TRUE
                             ELSE IF sig.active = GpioId THEN FALSE ELSE nxt.irq[GpioIrq]
  <2>1. ASSUME NEW v \in BOOLEAN
        PROVE  /\ [nxt EXCEPT !.irq[GpioIrq] = v].pwrOn = nxt.pwrOn
               /\ [nxt EXCEPT !.irq[GpioIrq] = v].irq[GpioIrq] = v
    BY GpioAssumption DEF TypeOK, Signals
  <2>2. sig.active - 16 = GpioIrq <=> sig.active = GpioId
    <3>1. sig.active \in ExceptIds
      BY DEF TypeOK, Signals
    <3>2. sig.active \in Int
      BY <3>1, ExceptionIds
    <3>3. GpioIrq \in Int /\ GpioId = 16 + GpioIrq
      BY IrqsAssumption, GpioAssumption DEF GpioId, NVIC_EXCEPT_ID_BASE
    <3>. QED  BY <3>2, <3>3
  <2>. QED  BY <2>1, <2>2 DEF GpioIrqControlStep, GpioIrqControl
<1>4. nxt.irq[GpioIrq] = sig.irq[GpioIrq] /\ nxt.irq[GpioIrq] \in BOOLEAN /\ ~FirstPhase
  BY <1>1, GpioAssumption DEF EdgeInv, LineInv, FirstPhase, TypeOK, Signals
<1>5. PhaseInv'
  BY <1>1, <1>2, <1>4 DEF EdgeInv, PhaseInv, Awaited
<1>6. PowerInv'
  BY <1>1, <1>3, <1>4 DEF EdgeInv, PowerInv, LineInv, HandlerInv
<1>7. LineInv'
  BY <1>1, <1>3, <1>4 DEF EdgeInv, LineInv
<1>8. HandlerInv'
  BY <1>1, <1>3, <1>4 DEF EdgeInv, HandlerInv
<1>9. NoLostEdge'
  BY <1>1, <1>3, <1>4 DEF EdgeInv, LineInv, HandlerInv, PowerInv, NoLostEdge
<1>. QED  BY <1>5, <1>6, <1>7, <1>8, <1>9 DEF EdgeInv

\* At the start nothing is owed and no line is up.
LEMMA EdgeInitially == Init => EdgeInv
<1>. SUFFICES ASSUME Init PROVE EdgeInv
  OBVIOUS
<1>1. /\ run = {"nvicProcess", "gpioProcess", "gpioReset"} /\ delta = {} /\ ~owed /\ ~sig.pwrOn
      /\ nxt = sig /\ ~nxt.irq[GpioIrq] /\ prevIrq = {} /\ ~CpuTimed
  BY GpioAssumption DEF Init, KernelInit, SignalInit, NvicInit, CpuInit, CpuTimed
<1>. QED  BY <1>1 DEF EdgeInv, PhaseInv, PowerInv, LineInv, HandlerInv, NoLostEdge

\* Nothing changes, nothing is lost.
LEMMA EdgeStutter == ASSUME EdgeInv, UNCHANGED vars PROVE EdgeInv'
BY EdgeFrame DEF vars, kernelVars, nvicVars, gpioVars, cpuVars, historyVars, CpuTimed

\* In every behaviour, across power failures and glitches, an enabled rising edge that no
\* handler start has followed is still held somewhere between the port and the CPU
\* (Gpio::process, Gpio::irqControl, Nvic::process, exceptionEnter).
THEOREM NoEdgeLost == Spec => []NoLostEdge
<1>1. TypeOK /\ EdgeInv /\ [Next]_vars => EdgeInv'
  BY EdgeDelta, EdgeTime, EdgeCpu, EdgeTick, EdgeNvicProcess, EdgeNvicReset, EdgeGpioProcess,
     EdgeGpioIrqControl, EdgeGpioReset, EdgeStutter DEF Next, PeripheralStep
<1>2. EdgeInv => NoLostEdge
  BY DEF EdgeInv
<1>. QED  BY Cm0TypeCorrect, EdgeInitially, <1>1, <1>2, PTL DEF Spec


-----------------------------------------------------------------------------
(* Every entry is asked for, within one power cycle *)

\* What the bound on the supply means: it comes, and goes at most once.
Cycle ==
    /\ used.power = 0 => ~nxt.pwrOn /\ ~sig.pwrOn
    /\ used.power = 1 => nxt.pwrOn
    /\ used.power = 2 => ~nxt.pwrOn
    /\ used.power <= 2

\* The power has not come yet.
Before == ~sig.pwrOn /\ used.power <= 1

\* SysTick and NVIC have nothing to offer.
TickStill ==
    /\ ~tickSetIrq /\ ~nxt.tickIrq /\ ~sig.tickIrq
    /\ ~expiryQueued /\ "tickProcess" \notin run
NvicStill ==
    /\ ispr = {} /\ nxt.pending = 0 /\ sig.pending = 0

\* Before the power comes the CPU waits for it and all signals are low; in the phase in
\* which everybody is reset the CPU begins its own reset (Cm0Microcontroller.cpp).
StartsStill ==
    /\ Before => /\ phase = "waitPwr" /\ "cpu" \notin run /\ TickStill /\ NvicStill
                 /\ nxt.active = 0 /\ sig.active = 0
                 /\ nxt.returning = 0 /\ sig.returning = 0
                 /\ nxt.irq = sig.irq /\ ~nxt.irq[GpioIrq]
                 /\ "nvicResetEvent" \notin delta /\ "nvicReset" \notin run
    /\ sig.pwrOn /\ "tickReset" \in run => TickStill
    /\ sig.pwrOn /\ "nvicReset" \in run => NvicStill /\ "nvicProcess" \notin run
    /\ sig.pwrOn /\ ("tickReset" \in run \/ "nvicReset" \in run) =>
           phase \in {"waitPwr", "reset"} /\ ~CpuTimed
    /\ sig.pwrOn /\ phase = "waitPwr" =>
           "cpu" \in run /\ TickStill /\ nxt.active = 0 /\ nxt.returning = 0

\* The CPU is on its way into the handler, or in it.
Entering(id) == phase = "enter" /\ entering = id
Handling(id) == Entering(id) \/ ipsr = id

\* The signals by which the CPU announces what it does (exceptionEnter,
\* exceptionReturn): up in the handler, and at rest when an instant begins.
Announced ==
    /\ phase \in {"enter", "return"} => ipsr = 0
    /\ phase \in {"fetch", "store", "sleep"} => nxt.returning = 0
    /\ nxt.active # 0 => ipsr = nxt.active \/ phase = "return"
    /\ CpuTimed => nxt.active = sig.active /\ nxt.returning = sig.returning

\* The return from the handler is about to lower the line of SysTick.
Lowering ==
    /\ phase = "return" /\ nxt.returning = SYST_EXCEPT_ID
    /\ sig.returning = SYST_EXCEPT_ID => "tickIrqControl" \in run

\* SysTick's request and line are those of an expiry since its exception was last taken,
\* or of the one that is being handled.
TicksRequested ==
    /\ tickSetIrq => /\ ticked \/ Handling(SYST_EXCEPT_ID)
                     /\ "tickUpdateIrq" \in delta \/ "tickIrqControl" \in run
                     /\ CpuTimed => ticked
    /\ nxt.tickIrq => ticked \/ Handling(SYST_EXCEPT_ID) \/ Lowering
    /\ sig.tickIrq => ticked \/ Handling(SYST_EXCEPT_ID) \/ (phase = "return" /\ ~CpuTimed)

\* The NVIC has yet to see that the handler of line i has started.
Starting(i) ==
    /\ phase = "fetch" /\ nxt.active = NVIC_EXCEPT_ID_BASE + i
    /\ prevActive # nxt.active
    /\ sig.active = nxt.active => "nvicProcess" \in run

\* A line that is pending or offered was pended since the CPU last took it, or is the one
\* being taken.
LinesRequested ==
    \A i \in Irqs :
        /\ i \in ispr \/ nxt.pending = NVIC_EXCEPT_ID_BASE + i =>
               i \in requested \/ Entering(NVIC_EXCEPT_ID_BASE + i) \/ Starting(i)
        /\ sig.pending = NVIC_EXCEPT_ID_BASE + i =>
               \/ i \in requested \/ Entering(NVIC_EXCEPT_ID_BASE + i)
               \/ phase = "fetch" /\ ~CpuTimed

OneCycleInv ==
    /\ Cycle /\ StartsStill
    /\ sig.pwrOn => Announced /\ TicksRequested /\ LinesRequested

\* The processes of the peripherals leave the CPU and its signals alone.
LEMMA PeripheralKeeps ==
    ASSUME TypeOK, PeripheralStep
    PROVE  /\ UNCHANGED <<sig, cpuVars, used>>
           /\ run' \subseteq run /\ ("cpu" \in run' <=> "cpu" \in run)
           /\ nxt'.pwrOn = nxt.pwrOn /\ nxt'.active = nxt.active
           /\ nxt'.returning = nxt.returning
           /\ CpuTimed' <=> CpuTimed
<1>1. PICK v : nxt' \in {nxt, [nxt EXCEPT !.pending = v], [nxt EXCEPT !.tickIrq = v],
                         [nxt EXCEPT !.irq[GpioIrq] = v]}
  BY DEF PeripheralStep, NvicProcessStep, NvicProcess, NvicResetStep, NvicReset,
         TickProcessStep, TickProcess, TickIrqControlStep, TickIrqControl, TickResetStep,
         TickReset, GpioProcessStep, GpioProcess, GpioIrqControlStep, GpioIrqControl,
         GpioResetStep, GpioReset
<1>2. nxt'.pwrOn = nxt.pwrOn /\ nxt'.active = nxt.active /\ nxt'.returning = nxt.returning
  BY <1>1 DEF TypeOK, Signals
<1>3. UNCHANGED <<sig, cpuVars, used>>
  BY DEF PeripheralStep, NvicProcessStep, NvicProcess, NvicResetStep, NvicReset,
         TickProcessStep, TickProcess, TickIrqControlStep, TickIrqControl, TickResetStep,
         TickReset, GpioProcessStep, GpioProcess, GpioIrqControlStep, GpioIrqControl,
         GpioResetStep, GpioReset
<1>4. \E p \in Processes \ {"cpu"} : run' = run \ {p}
  BY DEF PeripheralStep, NvicProcessStep, NvicProcess, NvicResetStep, NvicReset,
         TickProcessStep, TickProcess, TickIrqControlStep, TickIrqControl, TickResetStep,
         TickReset, GpioProcessStep, GpioProcess, GpioIrqControlStep, GpioIrqControl,
         GpioResetStep, GpioReset, Evaluate, Processes
<1>. QED  BY <1>2, <1>3, <1>4 DEF CpuTimed, cpuVars

\* Those of SysTick and the port leave the NVIC alone.
LEMMA OthersLeaveNvic ==
    ASSUME TypeOK, TickStep \/ GpioStep
    PROVE  /\ UNCHANGED <<nvicVars, requested>> /\ nxt'.pending = nxt.pending
           /\ \A p \in {"nvicProcess", "nvicReset"} : p \in run' <=> p \in run
           /\ "nvicResetEvent" \in delta' <=> "nvicResetEvent" \in delta
<1>1. nxt'.pending = nxt.pending
  <2>1. \E v : nxt' \in {nxt, [nxt EXCEPT !.tickIrq = v], [nxt EXCEPT !.irq[GpioIrq] = v]}
    BY DEF TickStep, GpioStep, TickProcessStep, TickProcess, TickIrqControlStep, TickIrqControl,
           TickResetStep, TickReset, GpioProcessStep, GpioProcess, GpioIrqControlStep,
           GpioIrqControl, GpioResetStep, GpioReset
  <2>. QED  BY <2>1 DEF TypeOK, Signals
<1>2. UNCHANGED <<nvicVars, requested>>
  BY DEF TickStep, GpioStep, TickProcessStep, TickIrqControlStep, TickResetStep,
         GpioProcessStep, GpioIrqControlStep, GpioResetStep, historyVars
<1>3. \E p \in {"tickProcess", "tickIrqControl", "tickReset", "gpioProcess", "gpioIrqControl",
                "gpioReset"} : run' = run \ {p}
  BY DEF TickStep, GpioStep, TickProcessStep, TickProcess, TickIrqControlStep, TickIrqControl,
         TickResetStep, TickReset, GpioProcessStep, GpioProcess, GpioIrqControlStep,
         GpioIrqControl, GpioResetStep, GpioReset, Evaluate
<1>4. delta' \in {delta, delta \cup {"tickUpdateIrq"}, delta \cup {"gpioUpdateIrq"},
                  delta \ {"tickUpdateIrq"}}
  BY DEF TickStep, GpioStep, TickProcessStep, TickProcess, TickIrqControlStep, TickIrqControl,
         TickResetStep, TickReset, GpioProcessStep, GpioProcess, GpioIrqControlStep,
         GpioIrqControl, GpioResetStep, GpioReset
<1>. QED  BY <1>1, <1>2, <1>3, <1>4

\* The supply comes and goes at most once.
LEMMA CycleStep == ASSUME MaxPower <= 2, TypeOK, Cycle, Next PROVE Cycle'
<1>1. nxt.pwrOn \in BOOLEAN /\ used.power \in 0..MaxPower /\ MaxPower \in Nat
  BY BoundsAssumption DEF TypeOK, Signals
<1>2. CASE DeltaCycle
  BY <1>2, DeltaWakes DEF Cycle, DeltaCycle
<1>3. CASE TimePasses
  <2>1. PICK now \in SUBSET Due, pins \in SUBSET Pins, power \in BOOLEAN :
          /\ power => SupplyMayChange
          /\ Advance(now, pins, power)
    BY <1>3 DEF TimePasses
  <2>2. /\ nxt'.pwrOn = IF power THEN ~nxt.pwrOn ELSE nxt.pwrOn
        /\ used'.power = IF power THEN used.power + 1 ELSE used.power
        /\ sig' = sig /\ nxt = sig
    BY <2>1 DEF Advance, Settled, TypeOK, Signals
  <2>3. CASE power
    <3>1. used.power \in {0, 1} /\ used'.power = used.power + 1 /\ (nxt'.pwrOn <=> ~nxt.pwrOn)
      <4>1. used.power < MaxPower
        BY <2>1, <2>3 DEF SupplyMayChange
      <4>2. used'.power = used.power + 1 /\ nxt'.pwrOn = ~nxt.pwrOn
        BY <2>2, <2>3
      <4>3. used.power \in {0, 1}
        BY <1>1, <4>1
      <4>. QED  BY <4>2, <4>3
    <3>2. sig'.pwrOn = nxt.pwrOn
      BY <2>2
    <3>. QED  BY <1>1, <3>1, <3>2 DEF Cycle
  <2>4. CASE ~power
    BY <2>2, <2>4 DEF Cycle
  <2>. QED  BY <2>3, <2>4
<1>4. CASE PeripheralStep
  BY <1>4, PeripheralKeeps DEF Cycle
<1>5. CASE CpuStep
  <2>1. used'.power = used.power
    <3>1. used' = used \/ used' = [used EXCEPT !.stores = @ + 1]
      BY <1>5, CpuSteps DEF CpuOnly, StartHandler, Return, Store, EndsTurn
    <3>. QED  BY <3>1 DEF TypeOK
  <2>. QED  BY <1>5, <2>1, CpuKeepsAll DEF CpuKeeps, Cycle
<1>. QED  BY <1>2, <1>3, <1>4, <1>5 DEF Next

\* Power comes to a system at rest: only the resets and the CPU see it.
LEMMA StillDelta ==
    ASSUME TypeOK, Cycle, StartsStill, DeltaCycle
    PROVE  StartsStill' /\ (sig'.pwrOn /\ ~sig.pwrOn => Before)
<1>1. /\ sig.pwrOn \in BOOLEAN /\ nxt.pwrOn \in BOOLEAN
      /\ used.power \in Nat
  BY BoundsAssumption DEF TypeOK, Signals
<1>2. UNCHANGED <<phase, ispr, tickSetIrq, expiryQueued, used>>
  BY DEF DeltaCycle, cpuVars, nvicVars, tickVars
<1>3. nxt.pwrOn => used.power <= 1
  BY <1>1 DEF Cycle
<1>4. Before' => Before
  BY <1>1, <1>2, DeltaWakes DEF Before, Cycle
<1>5. CASE Before
  <2>1. /\ phase = "waitPwr" /\ TickStill /\ NvicStill /\ nxt.active = 0 /\ sig.active = 0
        /\ nxt.returning = 0 /\ sig.returning = 0 /\ nxt.irq = sig.irq /\ ~nxt.irq[GpioIrq]
        /\ "nvicResetEvent" \notin delta
    BY <1>5 DEF StartsStill
  <2>2. "nvicProcess" \notin run'
    BY <2>1, DeltaWakes
  <2>3. TickStill' /\ NvicStill' /\ ~CpuTimed'
    BY <1>2, <2>1, DeltaWakes DEF TickStill, NvicStill
  <2>4. "cpu" \in run' <=> nxt.pwrOn # sig.pwrOn
    BY <2>1, DeltaWakes DEF CpuTriggered, Changed
  <2>5. nxt'.active = 0 /\ sig'.active = 0 /\ nxt'.returning = 0 /\ sig'.returning = 0
        /\ nxt'.irq = sig'.irq /\ ~nxt'.irq[GpioIrq] /\ "nvicResetEvent" \notin delta'
        /\ ("nvicReset" \in run' <=> nxt.pwrOn # sig.pwrOn) /\ sig'.pwrOn = nxt.pwrOn
    BY <2>1, DeltaWakes
  <2>. QED  BY <1>1, <1>2, <1>5, <2>1, <2>2, <2>3, <2>4, <2>5 DEF StartsStill, Before
<1>6. CASE ~Before
  <2>1. sig'.pwrOn => sig.pwrOn
    BY <1>3, <1>6, DeltaWakes DEF Before
  <2>2. sig'.pwrOn => "tickReset" \notin run' /\ "nvicReset" \notin run'
    BY <2>1, DeltaWakes
  <2>3. sig'.pwrOn => phase # "waitPwr"
    BY <2>1, DeltaWakes DEF StartsStill
  <2>. QED  BY <1>2, <1>4, <1>6, <2>1, <2>2, <2>3 DEF StartsStill
<1>. QED  BY <1>5, <1>6

\* Time passes without the CPU and SysTick before that.
LEMMA StillTime == ASSUME TypeOK, Cycle, StartsStill, TimePasses PROVE StartsStill'
<1>1. PICK now \in SUBSET Due, pins \in SUBSET Pins, power \in BOOLEAN :
        Advance(now, pins, power)
  BY DEF TimePasses
<1>2. /\ run = {} /\ delta = {} /\ delta' = {} /\ nxt = sig /\ sig' = sig
      /\ UNCHANGED <<ispr, tickSetIrq, phase>>
      /\ run' = now \cup (IF "cpu" \in now /\ nvicWritten THEN {"nvicProcess"} ELSE {})
      /\ expiryQueued' = (expiryQueued /\ "tickProcess" \notin now)
  BY <1>1 DEF Advance, Settled, cpuVars
<1>3. /\ nxt'.tickIrq = nxt.tickIrq /\ nxt'.returning = nxt.returning
      /\ nxt'.active = nxt.active /\ nxt'.pending = nxt.pending /\ nxt'.irq = nxt.irq
      /\ used.power <= used'.power
  <2>1. nxt' \in {nxt, [nxt EXCEPT !.pwrOn = ~@]}
    BY <1>1 DEF Advance
  <2>2. used.power \in Nat /\ used'.power \in {used.power, used.power + 1}
    BY <1>1, BoundsAssumption DEF Advance, TypeOK
  <2>3. used.power <= used'.power
    BY <2>2
  <2>. QED  BY <2>1, <2>3 DEF TypeOK, Signals
<1>4. used.power \in Nat /\ used'.power \in Nat
  BY <1>1, BoundsAssumption DEF Advance, TypeOK
<1>5. /\ "tickReset" \notin run' /\ "nvicReset" \notin run'
      /\ phase = "waitPwr" => "cpu" \notin now
      /\ ~expiryQueued => "tickProcess" \notin now
  BY <1>2 DEF Due, TimedPhases
<1>6. sig.pwrOn => phase # "waitPwr"
  BY <1>2 DEF StartsStill
<1>7. CASE Before
  <2>1. TickStill' /\ NvicStill'
    BY <1>2, <1>3, <1>5, <1>7 DEF StartsStill, TickStill, NvicStill
  <2>. QED  BY <1>2, <1>3, <1>5, <1>7, <2>1 DEF StartsStill, Before
<1>8. CASE ~Before
  <2>1. ~Before'
    BY <1>2, <1>3, <1>4, <1>8 DEF Before
  <2>. QED  BY <1>2, <1>5, <1>6, <2>1 DEF StartsStill
<1>. QED  BY <1>7, <1>8

\* No process of a peripheral disturbs it: they have nothing to do, or no power.
LEMMA StillPeripherals == ASSUME TypeOK, StartsStill, PeripheralStep PROVE StartsStill'
<1>1. /\ UNCHANGED <<sig, phase, used>> /\ run' \subseteq run
      /\ ("cpu" \in run' <=> "cpu" \in run) /\ (CpuTimed' <=> CpuTimed)
      /\ nxt'.active = nxt.active /\ nxt'.returning = nxt.returning
      /\ (Before' <=> Before)
  BY PeripheralKeeps DEF cpuVars, Before
<1>2. TickStill => TickStill'
  <2>1. CASE TickProcessStep
    BY <2>1 DEF TickProcessStep, TickProcess, Evaluate, TickStill
  <2>2. CASE TickIrqControlStep
    <3>1. nxt' \in {nxt, [nxt EXCEPT !.tickIrq = FALSE]} \/ tickSetIrq
      BY <2>2 DEF TickIrqControlStep, TickIrqControl
    <3>2. ~nxt.tickIrq /\ ~tickSetIrq => ~nxt'.tickIrq
      BY <3>1 DEF TypeOK, Signals
    <3>. QED  BY <1>1, <2>2, <3>2 DEF TickIrqControlStep, TickIrqControl, TickStill
  <2>3. CASE TickResetStep
    BY <1>1, <2>3 DEF TickResetStep, TickReset, TickStill
  <2>4. CASE NvicStep \/ GpioStep
    BY <2>4, OthersLeaveTick DEF TickFrame, TickStill, tickVars
  <2>. QED  BY <2>1, <2>2, <2>3, <2>4 DEF PeripheralStep, NvicStep, GpioStep
<1>3. NvicStill /\ (Before \/ "nvicProcess" \notin run) => NvicStill'
  <2>1. CASE NvicProcessStep
    <3>1. "nvicProcess" \in run /\ (~sig.pwrOn => nxt'.pending = 0 /\ ispr' = ispr)
      BY <2>1 DEF NvicProcessStep, NvicProcess, Evaluate, TypeOK, Signals
    <3>. QED  BY <1>1, <3>1 DEF NvicStill, Before
  <2>2. CASE NvicResetStep
    BY <1>1, <2>2 DEF NvicResetStep, NvicReset, NvicStill
  <2>3. CASE TickStep \/ GpioStep
    BY <1>1, <2>3, OthersLeaveNvic DEF NvicStill, nvicVars
  <2>. QED  BY <2>1, <2>2, <2>3 DEF PeripheralStep, TickStep, GpioStep
<1>4. Before /\ nxt.irq = sig.irq /\ ~nxt.irq[GpioIrq] => nxt'.irq = nxt.irq
  <2>1. CASE GpioIrqControlStep
    <3>1. Before => nxt' = [nxt EXCEPT !.irq[GpioIrq] = FALSE]
      BY <2>1 DEF GpioIrqControlStep, GpioIrqControl, Before
    <3>2. nxt.irq \in [Irqs -> BOOLEAN]
      BY DEF TypeOK, Signals
    <3>3. ~nxt.irq[GpioIrq] => [nxt.irq EXCEPT ![GpioIrq] = FALSE] = nxt.irq
      BY <3>2, GpioAssumption
    <3>4. Before => nxt'.irq = [nxt.irq EXCEPT ![GpioIrq] = FALSE]
      BY <3>1 DEF TypeOK, Signals
    <3>. QED  BY <3>3, <3>4
  <2>2. CASE ~GpioIrqControlStep
    <3>1. \E v : nxt' \in {nxt, [nxt EXCEPT !.pending = v], [nxt EXCEPT !.tickIrq = v]}
      BY <2>2 DEF PeripheralStep, NvicProcessStep, NvicProcess, NvicResetStep, NvicReset,
             TickProcessStep, TickProcess, TickIrqControlStep, TickIrqControl, TickResetStep,
             TickReset, GpioProcessStep, GpioProcess, GpioResetStep, GpioReset
    <3>. QED  BY <3>1 DEF TypeOK, Signals
  <2>. QED  BY <2>1, <2>2
<1>5. "nvicReset" \notin run => ("nvicResetEvent" \in delta' => "nvicResetEvent" \in delta)
  <2>1. CASE NvicStep
    BY <2>1 DEF NvicStep, NvicProcessStep, NvicProcess, NvicResetStep, NvicReset, Evaluate
  <2>2. CASE TickStep \/ GpioStep
    BY <2>2, OthersLeaveNvic
  <2>. QED  BY <2>1, <2>2 DEF PeripheralStep, NvicStep, TickStep, GpioStep
<1>6. Before => /\ TickStill' /\ NvicStill' /\ nxt'.irq = sig'.irq /\ ~nxt'.irq[GpioIrq]
                /\ "nvicResetEvent" \notin delta'
  BY <1>1, <1>2, <1>3, <1>4, <1>5 DEF StartsStill
<1>. QED  BY <1>1, <1>2, <1>3, <1>6 DEF StartsStill

\* With power the CPU begins its reset, and does no more in that phase.
LEMMA StillCpu == ASSUME TypeOK, StartsStill, CpuStep PROVE StartsStill'
<1>1. CpuKeeps
  BY CpuKeepsAll
<1>2. used'.power = used.power
  <2>1. used' = used \/ used' = [used EXCEPT !.stores = @ + 1]
    BY CpuSteps DEF CpuOnly, StartHandler, Return, Store, EndsTurn
  <2>. QED  BY <2>1 DEF TypeOK
<1>3. ~Before /\ ~Before'
  BY <1>1, <1>2 DEF StartsStill, Before, CpuKeeps
<1>4. sig'.pwrOn => phase' # "waitPwr"
  BY <1>1, CpuSteps DEF CpuOnly, CpuStartReset, StartHandler, CpuEnterException, Store,
     CpuExecStore, Return, CpuExecReturn, EndsTurn, NextTurn, CpuKeeps
<1>5. ASSUME sig.pwrOn, "tickReset" \in run \/ "nvicReset" \in run
      PROVE  CpuOnly(CpuStartReset)
  <2>1. phase = "waitPwr"
    BY <1>1, <1>5 DEF StartsStill, CpuKeeps, CpuTimed, TimedPhases
  <2>. QED  BY <2>1, CpuSteps DEF StartHandler, CpuEnterException, Store, CpuExecStore,
            Executing, Return, CpuOnly, CpuExecReturn, EndsTurn
<1>6. CASE CpuOnly(CpuStartReset)
  <2>1. /\ nxt' = nxt /\ sig' = sig /\ phase' = "reset" /\ run' = run \ {"cpu"}
        /\ UNCHANGED <<ispr, expiryQueued, tickSetIrq>>
    BY <1>6 DEF CpuOnly, CpuStartReset, Evaluate, nvicVars, tickVars
  <2>. QED  BY <1>1, <1>3, <2>1 DEF StartsStill, TickStill, NvicStill, CpuKeeps
<1>7. CASE ~CpuOnly(CpuStartReset)
  BY <1>1, <1>3, <1>4, <1>5, <1>7 DEF StartsStill, CpuKeeps
<1>. QED  BY <1>6, <1>7


\* The signals of the CPU follow what it does; the peripherals drive none of them.
LEMMA AnnouncedStep ==
    ASSUME TypeOK, Cycle, StartsStill, sig.pwrOn => Announced, Next
    PROVE  sig'.pwrOn => Announced'
<1>1. CASE DeltaCycle
  <2>1. UNCHANGED <<phase, ipsr>>
    BY <1>1 DEF DeltaCycle, cpuVars
  <2>2. CASE sig.pwrOn
    BY <1>1, <2>1, <2>2, DeltaWakes DEF Announced
  <2>3. CASE sig'.pwrOn /\ ~sig.pwrOn
    <3>1. phase = "waitPwr" /\ nxt.active = 0
      BY <1>1, <2>3, StillDelta DEF StartsStill
    <3>. QED  BY <1>1, <2>1, <3>1, DeltaWakes DEF Announced
  <2>. QED  BY <2>2, <2>3
<1>2. CASE TimePasses
  <2>1. PICK now \in SUBSET Due, pins \in SUBSET Pins, power \in BOOLEAN :
          Advance(now, pins, power)
    BY <1>2 DEF TimePasses
  <2>2. nxt' \in {nxt, [nxt EXCEPT !.pwrOn = ~@]} /\ nxt = sig /\ UNCHANGED <<sig, phase, ipsr>>
    BY <2>1 DEF Advance, Settled, cpuVars
  <2>3. nxt'.active = sig.active /\ nxt'.returning = sig.returning
    BY <2>2 DEF TypeOK, Signals
  <2>. QED  BY <2>2, <2>3 DEF Announced
<1>3. CASE PeripheralStep
  BY <1>3, PeripheralKeeps DEF Announced, cpuVars
<1>4. CASE CpuStep
  <2>1. CpuKeeps
    BY <1>4, CpuKeepsAll
  <2>. SUFFICES ASSUME sig.pwrOn, Announced PROVE Announced'
    BY <2>1 DEF CpuKeeps
  <2>2. CASE CpuOnly(CpuStartReset)
    <3>1. phase' = "reset" /\ nxt.active = 0 /\ nxt' = nxt
      BY <2>2 DEF CpuOnly, CpuStartReset, StartsStill
    <3>. QED  BY <2>1, <3>1 DEF Announced, CpuKeeps
  <2>3. CASE StartHandler
    <3>1. phase' = "fetch" /\ ipsr' = entering /\ nxt'.active = entering /\ nxt'.returning = 0
      BY <2>3 DEF StartHandler, CpuEnterException, TypeOK, Signals
    <3>. QED  BY <2>1, <3>1 DEF Announced, CpuKeeps
  <2>4. CASE Store
    <3>1. phase = "fetch" /\ phase' = "store" /\ UNCHANGED <<nxt, ipsr>>
      BY <2>4 DEF Store, CpuExecStore, Executing
    <3>. QED  BY <2>1, <3>1 DEF Announced, CpuKeeps
  <2>5. CASE Return
    <3>1. phase' = "return" /\ ipsr' = 0
      BY <2>5 DEF Return, CpuOnly, CpuExecReturn
    <3>. QED  BY <2>1, <3>1 DEF Announced, CpuKeeps
  <2>6. ASSUME NEW slp \in BOOLEAN, NEW bub \in 0..(PipelineStages - 1),
               NEW scheduled \in {nxt, [nxt EXCEPT !.active = 0]}, EndsTurn(slp, bub, scheduled)
        PROVE  Announced'
    <3>1. ipsr' = ipsr /\ phase # "enter" /\ phase' \in {"enter", "sleep", "fetch"}
          /\ (phase' = "enter" => ipsr = 0 /\ nxt' = scheduled)
          /\ (phase' # "enter" => nxt' = [scheduled EXCEPT !.returning = 0])
      BY <2>6 DEF EndsTurn, NextTurn
    <3>2. nxt'.active \in {0, nxt.active} /\ (phase = "return" => nxt'.active = 0)
          /\ (phase' # "enter" => nxt'.returning = 0)
      BY <2>6, <3>1 DEF EndsTurn, TypeOK, Signals
    <3>. QED  BY <2>1, <3>1, <3>2 DEF Announced, CpuKeeps
  <2>. QED  BY <1>4, <2>2, <2>3, <2>4, <2>5, <2>6, CpuSteps
<1>. QED  BY <1>1, <1>2, <1>3, <1>4 DEF Next

\* SysTick's line stands for an expiry: a request is made before irqControl() raises the
\* line, and the return lowers it before the CPU looks again.
LEMMA TicksRequestedStep ==
    ASSUME TypeOK, TickInv, Cycle, StartsStill, Next,
           sig.pwrOn => Announced /\ TicksRequested
    PROVE  sig'.pwrOn => TicksRequested'
<1>0. /\ ticked \in BOOLEAN /\ tickSetIrq \in BOOLEAN /\ nxt.tickIrq \in BOOLEAN
      /\ sig.tickIrq \in BOOLEAN /\ SYST_EXCEPT_ID # 0
  BY DEF TypeOK, TickTypeOK, Signals, SYST_EXCEPT_ID
<1>1. CASE DeltaCycle
  <2>1. UNCHANGED <<phase, ipsr, entering, tickSetIrq, ticked>>
    BY <1>1 DEF DeltaCycle, cpuVars, tickVars
  <2>2. CASE sig.pwrOn
    <3>1. Handling(SYST_EXCEPT_ID)' <=> Handling(SYST_EXCEPT_ID)
      BY <2>1 DEF Handling, Entering
    <3>2. Lowering => Lowering' /\ phase = "return"
      BY <1>1, <2>1, DeltaWakes DEF Lowering
    <3>. QED  BY <1>1, <2>1, <2>2, <3>1, <3>2, DeltaWakes DEF TicksRequested
  <2>3. CASE sig'.pwrOn /\ ~sig.pwrOn
    <3>1. ~tickSetIrq /\ ~nxt.tickIrq
      BY <1>1, <2>3, StillDelta DEF StartsStill, TickStill
    <3>. QED  BY <1>1, <2>1, <3>1, DeltaWakes DEF TicksRequested
  <2>. QED  BY <2>2, <2>3
<1>2. CASE TimePasses
  <2>1. PICK now \in SUBSET Due, pins \in SUBSET Pins, power \in BOOLEAN :
          Advance(now, pins, power)
    BY <1>2 DEF TimePasses
  <2>2. /\ run = {} /\ delta = {} /\ nxt' \in {nxt, [nxt EXCEPT !.pwrOn = ~@]} /\ nxt = sig
        /\ UNCHANGED <<sig, phase, ipsr, entering, tickSetIrq, ticked>>
    BY <2>1 DEF Advance, Settled, cpuVars, historyVars
  <2>3. nxt'.tickIrq = sig.tickIrq
    BY <2>2 DEF TypeOK, Signals
  <2>4. sig.pwrOn => ~tickSetIrq /\ ~Lowering
    BY <2>2 DEF TicksRequested, Lowering
  <2>5. Handling(SYST_EXCEPT_ID)' <=> Handling(SYST_EXCEPT_ID)
    BY <2>2 DEF Handling, Entering
  <2>. QED  BY <2>2, <2>3, <2>4, <2>5 DEF TicksRequested
<1>3. CASE PeripheralStep
  <2>1. /\ UNCHANGED <<sig, phase, ipsr, entering>> /\ nxt'.returning = nxt.returning
        /\ (CpuTimed' <=> CpuTimed)
    BY <1>3, PeripheralKeeps DEF cpuVars
  <2>2. Handling(SYST_EXCEPT_ID)' <=> Handling(SYST_EXCEPT_ID)
    BY <2>1 DEF Handling, Entering
  <2>3. CASE TickProcessStep
    <3>1. /\ nxt' = nxt /\ (tickSetIrq' <=> csrTickint \/ tickSetIrq)
          /\ (ticked' <=> ticked \/ csrTickint) /\ run' = run \ {"tickProcess"}
          /\ delta' = IF csrTickint THEN delta \cup {"tickUpdateIrq"} ELSE delta
      BY <2>3 DEF TickProcessStep, TickProcess, Evaluate
    <3>2. Lowering' <=> Lowering
      BY <2>1, <3>1 DEF Lowering
    <3>. QED  BY <2>1, <2>2, <3>1, <3>2 DEF TicksRequested
  <2>4. CASE TickIrqControlStep
    <3>1. /\ ticked' = ticked /\ tickSetIrq' = FALSE /\ sig' = sig
          /\ nxt'.tickIrq = IF tickSetIrq THEN TRUE
                            ELSE IF sig.returning = SYST_EXCEPT_ID THEN FALSE ELSE nxt.tickIrq
      BY <2>4 DEF TickIrqControlStep, TickIrqControl, TypeOK, Signals, historyVars
    <3>2. Lowering /\ sig.returning # SYST_EXCEPT_ID => Lowering'
      BY <2>1 DEF Lowering
    <3>. QED  BY <2>1, <2>2, <3>1, <3>2 DEF TicksRequested
  <2>5. CASE TickResetStep
    <3>1. /\ "tickReset" \in run /\ tickSetIrq' = FALSE /\ nxt' = nxt
      BY <2>5 DEF TickResetStep, TickReset, Evaluate
    <3>. QED  BY <2>1, <3>1 DEF TicksRequested, StartsStill, TickStill
  <2>6. CASE NvicStep \/ GpioStep
    <3>1. TickFrame /\ ticked' = ticked
      BY <2>6, OthersLeaveTick
    <3>2. Lowering' <=> Lowering
      BY <2>1, <3>1 DEF Lowering, TickFrame
    <3>. QED  BY <2>1, <2>2, <3>1, <3>2 DEF TicksRequested, TickFrame, tickVars
  <2>. QED  BY <1>3, <2>3, <2>4, <2>5, <2>6 DEF PeripheralStep, NvicStep, GpioStep
<1>4. CASE CpuStep
  <2>1. CpuKeeps
    BY <1>4, CpuKeepsAll
  <2>. SUFFICES ASSUME sig.pwrOn, Announced, TicksRequested PROVE TicksRequested'
    BY <2>1 DEF CpuKeeps
  <2>2. /\ "cpu" \in run /\ sig' = sig /\ delta' = delta /\ run' = run \ {"cpu"} /\ ~CpuTimed'
        /\ nxt'.tickIrq = nxt.tickIrq /\ tickSetIrq' = tickSetIrq
    BY <2>1 DEF CpuKeeps
  <2>3. Handling(SYST_EXCEPT_ID)' \/ ticked' => TicksRequested'
    BY <2>2 DEF TicksRequested
  <2>4. ~tickSetIrq /\ ~nxt.tickIrq /\ ~sig.tickIrq => TicksRequested'
    BY <2>2 DEF TicksRequested
  <2>5. CASE CpuOnly(CpuStartReset)
    BY <2>2, <2>4, <2>5 DEF CpuOnly, CpuStartReset, StartsStill, TickStill
  <2>6. CASE StartHandler
    <3>1. phase = "enter" /\ ipsr = 0 /\ ipsr' = entering /\ ticked' = ticked
      BY <2>6 DEF StartHandler, CpuEnterException, Announced
    <3>. QED  BY <1>0, <2>3, <2>4, <3>1 DEF TicksRequested, Handling, Entering, Lowering
  <2>7. CASE Store
    <3>1. phase = "fetch" /\ ipsr' = ipsr /\ ticked' = ticked
      BY <2>7 DEF Store, CpuExecStore, Executing, historyVars
    <3>. QED  BY <1>0, <2>3, <2>4, <3>1 DEF TicksRequested, Handling, Entering, Lowering
  <2>8. CASE Return
    <3>1. /\ phase = "fetch" /\ CpuTimed /\ phase' = "return" /\ ipsr' = 0 /\ ticked' = ticked
          /\ nxt'.returning = ipsr
      BY <2>8 DEF Return, CpuOnly, CpuExecReturn, Executing, Evaluate, CpuTimed, TimedPhases,
             TypeOK, Signals, historyVars
    <3>2. sig.returning = 0
      BY <3>1 DEF Announced
    <3>3. ipsr = SYST_EXCEPT_ID => Lowering'
      BY <1>0, <2>2, <3>1, <3>2 DEF Lowering
    <3>. QED  BY <1>0, <2>2, <2>3, <3>1, <3>3 DEF TicksRequested, Handling, Entering, Lowering
  <2>9. ASSUME NEW slp \in BOOLEAN, NEW bub \in 0..(PipelineStages - 1),
               NEW scheduled \in {nxt, [nxt EXCEPT !.active = 0]}, EndsTurn(slp, bub, scheduled)
        PROVE  TicksRequested'
    <3>1. /\ phase \in {"reset", "sleep", "fetch", "store", "return"} /\ ipsr' = ipsr
          /\ (phase = "return" => CpuTimed)
      BY <2>9 DEF EndsTurn, NextTurn, Evaluate, CpuTimed, TimedPhases
    <3>2. ~Lowering
      BY <3>1 DEF Lowering, Announced, TickInv
    <3>3. tickSetIrq \/ nxt.tickIrq \/ sig.tickIrq => ticked \/ ipsr = SYST_EXCEPT_ID
      BY <3>1, <3>2 DEF TicksRequested, Handling, Entering
    <3>4. ticked' = ticked \/ (phase' = "enter" /\ entering' = SYST_EXCEPT_ID)
      BY <1>0, <2>9 DEF EndsTurn, TakesException
    <3>. QED  BY <2>3, <2>4, <3>1, <3>3, <3>4 DEF Handling, Entering
  <2>. QED  BY <1>4, <2>5, <2>6, <2>7, <2>8, <2>9, CpuSteps
<1>. QED  BY <1>1, <1>2, <1>3, <1>4 DEF Next


\* What the NVIC offers is a line that is enabled and pending (Nvic.cpp:186).
LEMMA OffersPending ==
    ASSUME ipr \in [Irqs -> Prios], NEW pend \in SUBSET Irqs, NEW i \in Irqs,
           HighestPending(pend) = NVIC_EXCEPT_ID_BASE + i
    PROVE  i \in pend
<1>. DEFINE ready == pend \cap iser
            first == CHOOSE j \in ready : \A k \in ready : MoreUrgent(j, k)
<1>1. i \in 0..31 /\ NVIC_EXCEPT_ID_BASE = 16
  BY ExceptionIds DEF NVIC_EXCEPT_ID_BASE
<1>2. ready # {}
  <2>. SUFFICES ASSUME ready = {} PROVE FALSE
    OBVIOUS
  <2>1. HighestPending(pend) = -1
    BY DEF HighestPending
  <2>. QED  BY <1>1, <2>1
<1>3. first \in ready
  <2>1. \E j \in ready : \A k \in ready : MoreUrgent(j, k)
    BY <1>2, MostUrgent
  <2>. QED  BY <2>1
<1>4. HighestPending(pend) = NVIC_EXCEPT_ID_BASE + first
  BY <1>2 DEF HighestPending
<1>. HIDE DEF first
<1>5. first \in 0..31
  BY <1>3, ExceptionIds
<1>. QED  BY <1>1, <1>3, <1>4, <1>5

\* Nvic::process pends what asks for it; of the lines that were pending it clears the one
\* whose handler has started, which is the one that need not have asked again.
LEMMA LinesNvicProcess ==
    ASSUME TypeOK, sig.pwrOn, LinesRequested, NvicProcessStep
    PROVE  LinesRequested'
<1>1. /\ run' = run \ {"nvicProcess"} /\ ispr' = Resolve(ispr) /\ prevActive' = sig.active
      /\ requested' = requested \cup {i \in Irqs : SetPend(i)}
      /\ nxt' = [nxt EXCEPT !.pending = HighestPending(Resolve(ispr))]
      /\ UNCHANGED <<sig, phase, entering>>
  BY DEF NvicProcessStep, NvicProcess, Evaluate, cpuVars
<1>2. nxt'.pending = HighestPending(Resolve(ispr)) /\ nxt'.active = nxt.active
  BY <1>1 DEF TypeOK, Signals
<1>3. Resolve(ispr) \in SUBSET Irqs /\ ipr \in [Irqs -> Prios]
  BY DEF Resolve, TypeOK, NvicTypeOK
<1>4. CpuTimed' <=> CpuTimed
  BY <1>1 DEF CpuTimed
<1>. SUFFICES ASSUME NEW i \in Irqs
              PROVE  /\ i \in ispr' \/ nxt'.pending = NVIC_EXCEPT_ID_BASE + i =>
                           \/ i \in requested' \/ Entering(NVIC_EXCEPT_ID_BASE + i)'
                           \/ Starting(i)'
                     /\ sig'.pending = NVIC_EXCEPT_ID_BASE + i =>
                           \/ i \in requested' \/ Entering(NVIC_EXCEPT_ID_BASE + i)'
                           \/ phase' = "fetch" /\ ~CpuTimed'
  BY DEF LinesRequested
<1>5. Entering(NVIC_EXCEPT_ID_BASE + i)' <=> Entering(NVIC_EXCEPT_ID_BASE + i)
  BY <1>1 DEF Entering
<1>6. ASSUME i \in Resolve(ispr) PROVE \/ i \in requested' \/ Starting(i)'
                                       \/ Entering(NVIC_EXCEPT_ID_BASE + i)
  <2>1. CASE SetPend(i)
    BY <1>1, <2>1
  <2>2. CASE i \in ispr /\ ~ClearPend(i)
    <3>1. i \in requested \/ Entering(NVIC_EXCEPT_ID_BASE + i) \/ Starting(i)
      BY <2>2 DEF LinesRequested
    <3>2. ASSUME Starting(i) PROVE Starting(i)'
      <4>1. sig.active # NVIC_EXCEPT_ID_BASE + i
        BY <2>2, <3>2, ExceptionIds DEF ClearPend, Starting, NVIC_EXCEPT_ID_BASE
      <4>. QED  BY <1>1, <1>2, <3>2, <4>1 DEF Starting
    <3>. QED  BY <1>1, <3>1, <3>2
  <2>. QED  BY <1>6, <2>1, <2>2 DEF Resolve
<1>7. nxt'.pending = NVIC_EXCEPT_ID_BASE + i => i \in Resolve(ispr)
  BY <1>2, <1>3, OffersPending
<1>8. sig.pending = NVIC_EXCEPT_ID_BASE + i =>
        \/ i \in requested \/ Entering(NVIC_EXCEPT_ID_BASE + i)
        \/ phase = "fetch" /\ ~CpuTimed
  BY DEF LinesRequested
<1>. QED  BY <1>1, <1>4, <1>5, <1>6, <1>7, <1>8

\* Whatever the NVIC holds or offers was asked for since it was last taken, or is being
\* taken: the pending bit falls in the first process() that sees the handler start, and
\* the CPU looks at the offer only after that.
LEMMA LinesRequestedStep ==
    ASSUME TypeOK, EdgeInv, Cycle, StartsStill, Next,
           sig.pwrOn => Announced /\ LinesRequested
    PROVE  sig'.pwrOn => LinesRequested'
<1>0. \A i \in Irqs : NVIC_EXCEPT_ID_BASE + i # 0
  BY ExceptionIds
<1>1. CASE DeltaCycle
  <2>1. UNCHANGED <<phase, entering, ispr, prevActive, requested>>
    BY <1>1 DEF DeltaCycle, cpuVars, nvicVars
  <2>2. CASE sig.pwrOn
    <3>1. ASSUME NEW i \in Irqs
          PROVE  /\ Starting(i) => Starting(i)' /\ phase = "fetch"
                 /\ Entering(NVIC_EXCEPT_ID_BASE + i)' <=> Entering(NVIC_EXCEPT_ID_BASE + i)
      BY <1>1, <2>1, DeltaWakes DEF Starting, Entering
    <3>. QED  BY <1>1, <2>1, <2>2, <3>1, DeltaWakes DEF LinesRequested
  <2>3. CASE sig'.pwrOn /\ ~sig.pwrOn
    <3>1. ispr = {} /\ nxt.pending = 0
      BY <1>1, <2>3, StillDelta DEF StartsStill, NvicStill
    <3>. QED  BY <1>0, <1>1, <2>1, <3>1, DeltaWakes DEF LinesRequested
  <2>. QED  BY <2>2, <2>3
<1>2. CASE TimePasses
  <2>1. PICK now \in SUBSET Due, pins \in SUBSET Pins, power \in BOOLEAN :
          Advance(now, pins, power)
    BY <1>2 DEF TimePasses
  <2>2. /\ run = {} /\ nxt' \in {nxt, [nxt EXCEPT !.pwrOn = ~@]} /\ nxt = sig
        /\ UNCHANGED <<sig, phase, entering, ispr, prevActive, requested>>
    BY <2>1 DEF Advance, Settled, cpuVars, historyVars
  <2>3. nxt'.pending = sig.pending
    BY <2>2 DEF TypeOK, Signals
  <2>4. \A i \in Irqs : ~Starting(i)
    BY <2>2 DEF Starting
  <2>5. \A i \in Irqs : Entering(NVIC_EXCEPT_ID_BASE + i)' <=> Entering(NVIC_EXCEPT_ID_BASE + i)
    BY <2>2 DEF Entering
  <2>. QED  BY <2>2, <2>3, <2>4, <2>5 DEF LinesRequested
<1>3. CASE PeripheralStep
  <2>1. /\ UNCHANGED <<sig, phase, entering>> /\ nxt'.active = nxt.active
        /\ (CpuTimed' <=> CpuTimed)
    BY <1>3, PeripheralKeeps DEF cpuVars
  <2>2. CASE NvicProcessStep
    BY <2>1, <2>2, LinesNvicProcess
  <2>3. CASE NvicResetStep
    <3>1. "nvicReset" \in run /\ ispr' = {} /\ nxt' = nxt
      BY <2>3 DEF NvicResetStep, NvicReset, Evaluate
    <3>2. sig.pwrOn => nxt.pending = 0 /\ sig.pending = 0
      BY <3>1 DEF StartsStill, NvicStill
    <3>. QED  BY <1>0, <2>1, <3>1, <3>2 DEF LinesRequested
  <2>4. CASE TickStep \/ GpioStep
    <3>1. UNCHANGED <<ispr, prevActive, requested>> /\ nxt'.pending = nxt.pending
          /\ ("nvicProcess" \in run' <=> "nvicProcess" \in run)
      BY <2>4, OthersLeaveNvic DEF nvicVars
    <3>2. ASSUME NEW i \in Irqs
          PROVE  /\ Starting(i)' <=> Starting(i)
                 /\ Entering(NVIC_EXCEPT_ID_BASE + i)' <=> Entering(NVIC_EXCEPT_ID_BASE + i)
      BY <2>1, <3>1 DEF Starting, Entering
    <3>. QED  BY <2>1, <3>1, <3>2 DEF LinesRequested
  <2>. QED  BY <1>3, <2>2, <2>3, <2>4 DEF PeripheralStep, TickStep, GpioStep
<1>4. CASE CpuStep
  <2>1. CpuKeeps
    BY <1>4, CpuKeepsAll
  <2>. SUFFICES ASSUME sig.pwrOn, Announced, LinesRequested PROVE LinesRequested'
    BY <2>1 DEF CpuKeeps
  <2>2. /\ "cpu" \in run /\ sig' = sig /\ run' = run \ {"cpu"} /\ ~CpuTimed'
        /\ nxt'.pending = nxt.pending /\ UNCHANGED <<ispr, prevActive>>
    BY <2>1 DEF CpuKeeps
  <2>3. ASSUME phase # "enter" PROVE
          \A i \in Irqs : /\ ~Entering(NVIC_EXCEPT_ID_BASE + i) /\ ~Starting(i)
                          /\ ~(phase = "fetch" /\ ~CpuTimed)
    BY <2>2, <2>3 DEF Entering, Starting, CpuTimed, TimedPhases, Announced, EdgeInv, PhaseInv,
           FirstPhase
  <2>4. ASSUME phase # "enter",
               \A i \in Irqs : i \in requested =>
                   i \in requested' \/ Entering(NVIC_EXCEPT_ID_BASE + i)'
        PROVE  LinesRequested'
    BY <2>2, <2>3, <2>4 DEF LinesRequested
  <2>5. CASE CpuOnly(CpuStartReset)
    BY <2>4, <2>5 DEF CpuOnly, CpuStartReset, historyVars
  <2>6. CASE StartHandler
    <3>1. /\ phase = "enter" /\ phase' = "fetch" /\ requested' = requested
          /\ nxt'.active = entering /\ CpuTimed
      BY <2>6 DEF StartHandler, CpuEnterException, Evaluate, CpuTimed, TimedPhases, TypeOK,
             Signals
    <3>2. sig.active = 0 /\ prevActive = 0
      BY <3>1 DEF Announced, EdgeInv, PhaseInv, FirstPhase
    <3>3. ASSUME NEW i \in Irqs, Entering(NVIC_EXCEPT_ID_BASE + i) PROVE Starting(i)'
      BY <1>0, <2>2, <3>1, <3>2, <3>3 DEF Starting, Entering
    <3>4. \A i \in Irqs : ~Starting(i)
      BY <3>1 DEF Starting
    <3>. QED  BY <2>2, <3>1, <3>3, <3>4 DEF LinesRequested
  <2>7. CASE Store
    BY <2>4, <2>7 DEF Store, CpuExecStore, Executing, historyVars
  <2>8. CASE Return
    BY <2>4, <2>8 DEF Return, CpuOnly, CpuExecReturn, Executing, historyVars
  <2>9. ASSUME NEW slp \in BOOLEAN, NEW bub \in 0..(PipelineStages - 1),
               NEW scheduled \in {nxt, [nxt EXCEPT !.active = 0]}, EndsTurn(slp, bub, scheduled)
        PROVE  LinesRequested'
    <3>1. phase # "enter"
      BY <2>9 DEF EndsTurn
    <3>2. ASSUME NEW i \in Irqs, i \in requested
          PROVE  i \in requested' \/ Entering(NVIC_EXCEPT_ID_BASE + i)'
      BY <2>9, <3>2 DEF EndsTurn, TakesException, Entering
    <3>. QED  BY <2>4, <3>1, <3>2
  <2>. QED  BY <1>4, <2>5, <2>6, <2>7, <2>8, <2>9, CpuSteps
<1>. QED  BY <1>1, <1>2, <1>3, <1>4 DEF Next

\* The invariant of one power cycle, with what it rests on.
EntriesInv == TypeOK /\ TickInv /\ EdgeInv /\ OneCycleInv

LEMMA OneCycleInitially == Init => OneCycleInv
<1>. SUFFICES ASSUME Init PROVE OneCycleInv
  OBVIOUS
<1>1. /\ run = {"nvicProcess", "gpioProcess", "gpioReset"} /\ delta = {} /\ nxt = sig
      /\ ~sig.pwrOn /\ sig.active = 0 /\ sig.returning = 0 /\ sig.pending = 0 /\ ~sig.tickIrq
      /\ ~sig.irq[GpioIrq] /\ phase = "waitPwr" /\ ispr = {} /\ ~tickSetIrq /\ ~expiryQueued
      /\ used.power = 0
  BY GpioAssumption DEF Init, KernelInit, SignalInit, NvicInit, TickInit, CpuInit
<1>. QED  BY <1>1 DEF OneCycleInv, Cycle, StartsStill, Before, TickStill, NvicStill

LEMMA OneCycleStep ==
    ASSUME MaxPower <= 2, EntriesInv, Next PROVE OneCycleInv'
<1>1. Cycle' /\ StartsStill'
  BY CycleStep, StillDelta, StillTime, StillPeripherals, StillCpu
     DEF EntriesInv, OneCycleInv, Next
<1>2. sig'.pwrOn => Announced' /\ TicksRequested' /\ LinesRequested'
  BY AnnouncedStep, TicksRequestedStep, LinesRequestedStep DEF EntriesInv, OneCycleInv
<1>. QED  BY <1>1, <1>2 DEF OneCycleInv

LEMMA OneCycleStutter == ASSUME OneCycleInv, UNCHANGED vars PROVE OneCycleInv'
<1>1. UNCHANGED <<sig, nxt, run, delta, ispr, prevActive, tickSetIrq, expiryQueued, phase,
                  ipsr, entering, used, requested, ticked>>
  BY DEF vars, kernelVars, nvicVars, tickVars, cpuVars, historyVars
<1>2. Cycle' /\ StartsStill'
  BY <1>1 DEF OneCycleInv, Cycle, StartsStill, Before, TickStill, NvicStill, CpuTimed
<1>3. sig.pwrOn => Announced' /\ TicksRequested' /\ LinesRequested'
  BY <1>1 DEF OneCycleInv, Announced, TicksRequested, Handling, Entering, Lowering,
              LinesRequested, Starting, CpuTimed
<1>. QED  BY <1>1, <1>2, <1>3 DEF OneCycleInv

LEMMA EntriesInvHolds == ASSUME MaxPower <= 2 PROVE Spec => []EntriesInv
<1>1. TypeOK /\ TickInv /\ EdgeInv /\ OneCycleInv /\ TypeOK' /\ [Next]_vars => EntriesInv'
  <2>. SUFFICES ASSUME EntriesInv, TypeOK', [Next]_vars PROVE EntriesInv'
    BY DEF EntriesInv
  <2>1. TickInv'
    BY TickInvStep DEF EntriesInv, TickInv, CpuTimed, vars, kernelVars, tickVars, cpuVars,
       historyVars
  <2>2. EdgeInv'
    BY EdgeDelta, EdgeTime, EdgeCpu, EdgeTick, EdgeNvicProcess, EdgeNvicReset, EdgeGpioProcess,
       EdgeGpioIrqControl, EdgeGpioReset, EdgeStutter DEF EntriesInv, Next, PeripheralStep
  <2>3. OneCycleInv'
    BY OneCycleStep, OneCycleStutter DEF EntriesInv
  <2>. QED  BY <2>1, <2>2, <2>3 DEF EntriesInv
<1>2. Init => TickInv /\ EdgeInv /\ OneCycleInv
  BY TickInvInitially, EdgeInitially, OneCycleInitially
<1>. QED  BY Cm0TypeCorrect, TypesInitially, <1>1, <1>2, PTL DEF Spec, EntriesInv

\* The CPU takes an exception only at the end of a turn, with power, after a wait.
LEMMA TakesAtEndOfTurn ==
    ASSUME TypeOK, Next, phase # "enter", phase' = "enter"
    PROVE  /\ sig.pwrOn /\ ipsr = 0 /\ entering' = PendingException /\ PendingException # 0
           /\ "cpu" \in run /\ phase \in {"reset", "sleep", "fetch", "store", "return"}
<1>1. CpuStep
  <2>1. DeltaCycle => phase' = phase
    BY DEF DeltaCycle, cpuVars
  <2>2. TimePasses => phase' = phase
    BY DEF TimePasses, Advance, cpuVars
  <2>. QED  BY <2>1, <2>2, PeripheralKeeps DEF Next, cpuVars
<1>2. PICK slp \in BOOLEAN, bub \in 0..(PipelineStages - 1),
           scheduled \in {nxt, [nxt EXCEPT !.active = 0]} : EndsTurn(slp, bub, scheduled)
  BY <1>1, CpuSteps DEF CpuOnly, CpuStartReset, StartHandler, CpuEnterException, Store,
     CpuExecStore, Return, CpuExecReturn
<1>. QED  BY <1>2 DEF EndsTurn, NextTurn, Evaluate

\* Within one power cycle the CPU takes an NVIC exception only if the line was pended
\* since it was last taken (exceptionCheck, Nvic::process).
THEOREM NvicEntriesAreAsked ==
    ASSUME MaxPower <= 2 PROVE Spec => NvicEntriesRequested
<1>1. ASSUME EntriesInv, [Next]_vars, phase # "enter", phase' = "enter",
             entering' # SYST_EXCEPT_ID
      PROVE  \E i \in requested : entering' = NVIC_EXCEPT_ID_BASE + i
  <2>0. Next
    BY <1>1 DEF vars, cpuVars
  <2>1. /\ sig.pwrOn /\ entering' = PendingException /\ PendingException # 0 /\ "cpu" \in run
    BY <1>1, <2>0, TakesAtEndOfTurn DEF EntriesInv
  <2>2. entering' = sig.pending /\ sig.pending \in NvicIds
    BY <1>1, <2>1 DEF PendingException, EntriesInv, TypeOK, Signals
  <2>3. PICK i \in Irqs : sig.pending = NVIC_EXCEPT_ID_BASE + i
    BY <2>2 DEF NvicIds
  <2>4. i \in requested
    BY <1>1, <2>1, <2>3 DEF EntriesInv, OneCycleInv, LinesRequested, Entering, CpuTimed,
       TimedPhases
  <2>. QED  BY <2>2, <2>3, <2>4
<1>. QED  BY <1>1, EntriesInvHolds, PTL DEF Spec, NvicEntriesRequested

\* Within one power cycle the CPU takes a SysTick exception only if the timer asked for
\* it since it was last taken (exceptionCheck, SysTick::irqControl).
THEOREM TickEntriesAreAsked ==
    ASSUME MaxPower <= 2 PROVE Spec => TickEntriesRequested
<1>1. ASSUME EntriesInv, [Next]_vars, phase # "enter", phase' = "enter",
             entering' = SYST_EXCEPT_ID
      PROVE  ticked
  <2>0. Next
    BY <1>1 DEF vars, cpuVars
  <2>1. /\ sig.pwrOn /\ ipsr = 0 /\ entering' = PendingException /\ "cpu" \in run
        /\ phase \in {"reset", "sleep", "fetch", "store", "return"}
    BY <1>1, <2>0, TakesAtEndOfTurn DEF EntriesInv
  <2>2. sig.tickIrq
    <3>1. sig.pending \in NvicIds \cup {-1, 0}
      BY <1>1 DEF EntriesInv, TypeOK, Signals
    <3>2. SYST_EXCEPT_ID \notin NvicIds /\ SYST_EXCEPT_ID = 15
      BY ExceptionIds
    <3>3. PendingException = SYST_EXCEPT_ID
      BY <1>1, <2>1
    <3>4. ~sig.tickIrq => PendingException \in NvicIds \cup {0}
      BY <3>1 DEF PendingException
    <3>. QED  BY <3>2, <3>3, <3>4
  <2>3. ticked \/ Handling(SYST_EXCEPT_ID) \/ (phase = "return" /\ ~CpuTimed)
    BY <1>1, <2>1, <2>2 DEF EntriesInv, OneCycleInv, TicksRequested
  <2>4. ~Handling(SYST_EXCEPT_ID)
    BY <2>1 DEF Handling, Entering, SYST_EXCEPT_ID
  <2>. QED  BY <2>1, <2>3, <2>4 DEF CpuTimed, TimedPhases
<1>. QED  BY <1>1, EntriesInvHolds, PTL DEF Spec, TickEntriesRequested

-----------------------------------------------------------------------------
(* The CPU takes the most urgent line *)

\* When the CPU looks at the output, no reset of the NVIC is under way, and the output is
\* that of the registers, unless process() has just changed it.  A sleeping core has
\* power, and the registers are written only by a store.
LooksInv ==
    /\ nvicWritten => phase = "store" /\ "cpu" \notin run
    /\ phase = "sleep" /\ "cpu" \notin run => sig.pwrOn
    /\ phase # "waitPwr" /\ sig.pwrOn /\ ("cpu" \in run \/ phase = "sleep") =>
           "nvicReset" \notin run /\ "nvicResetEvent" \notin delta
    /\ "cpu" \in run /\ phase \notin {"store", "waitPwr"} /\ sig.pwrOn =>
           nxt.pending # sig.pending \/ sig.pending = Offered

\* Steps of the peripherals: process() itself drives what it finds.
LEMMA LooksPeripherals ==
    ASSUME TypeOK, LooksInv, PeripheralStep PROVE LooksInv'
<1>1. UNCHANGED cpuVars /\ ("cpu" \in run' <=> "cpu" \in run) /\ sig' = sig
      /\ nvicWritten' = nvicWritten
  BY DEF PeripheralStep, NvicProcessStep, NvicProcess, NvicResetStep, NvicReset,
     TickProcessStep, TickProcess, TickIrqControlStep, TickIrqControl, TickResetStep, TickReset,
     GpioProcessStep, GpioProcess, GpioIrqControlStep, GpioIrqControl, GpioResetStep, GpioReset,
     Evaluate, cpuVars, nvicVars
<1>2. CASE NvicResetStep
  <2>1. "nvicReset" \in run
    BY <1>2 DEF NvicResetStep, NvicReset, Evaluate
  <2>. QED  BY <1>1, <2>1 DEF LooksInv, cpuVars
<1>3. CASE NvicProcessStep
  <2>1. delta' = delta /\ run' \subseteq run
    BY <1>3 DEF NvicProcessStep, NvicProcess, Evaluate
  <2>2. sig.pwrOn => nxt'.pending = Offered'
    <3>1. ASSUME sig.pwrOn PROVE nxt'.pending = Offered'
      <4>1. /\ ispr' = Resolve(ispr) /\ UNCHANGED <<iser, ipr>>
            /\ nxt' = [nxt EXCEPT !.pending = HighestPending(Resolve(ispr))]
        BY <1>3, <3>1 DEF NvicProcessStep, NvicProcess
      <4>2. Offered' = HighestPending(Resolve(ispr))
        BY <1>1, <3>1, <4>1 DEF Offered, HighestPending, MoreUrgent
      <4>3. nxt'.pending = HighestPending(Resolve(ispr))
        BY <4>1 DEF TypeOK, Signals
      <4>. QED  BY <4>2, <4>3
    <3>. QED  BY <3>1
  <2>. QED  BY <1>1, <2>1, <2>2 DEF LooksInv, cpuVars
<1>4. CASE TickStep \/ GpioStep
  <2>1. nxt'.pending = nxt.pending /\ UNCHANGED <<ispr, iser, ipr>>
    <3>1. \E v : nxt' \in {nxt, [nxt EXCEPT !.tickIrq = v], [nxt EXCEPT !.irq[GpioIrq] = v]}
      BY <1>4 DEF TickStep, GpioStep, TickProcessStep, TickProcess, TickIrqControlStep,
         TickIrqControl, TickResetStep, TickReset, GpioProcessStep, GpioProcess,
         GpioIrqControlStep, GpioIrqControl, GpioResetStep, GpioReset
    <3>2. UNCHANGED <<ispr, iser, ipr>>
      BY <1>4 DEF TickStep, GpioStep, TickProcessStep, TickIrqControlStep, TickResetStep,
         GpioProcessStep, GpioIrqControlStep, GpioResetStep, nvicVars
    <3>. QED  BY <3>1, <3>2 DEF TypeOK, Signals
  <2>2. run' \subseteq run /\ ("nvicResetEvent" \in delta' => "nvicResetEvent" \in delta)
    BY <1>4 DEF TickStep, GpioStep, TickProcessStep, TickProcess, TickIrqControlStep,
       TickIrqControl, TickResetStep, TickReset, GpioProcessStep, GpioProcess,
       GpioIrqControlStep, GpioIrqControl, GpioResetStep, GpioReset, Evaluate
  <2>3. Offered' = Offered
    BY <1>1, <2>1, OfferedKept
  <2>. QED  BY <1>1, <2>1, <2>2, <2>3 DEF LooksInv, cpuVars
<1>. QED  BY <1>2, <1>3, <1>4 DEF PeripheralStep, TickStep, GpioStep

\* Every step keeps it.  A wake-up finds the output as process() left it, because nothing
\* but a store or a reset changes the registers after it.
LEMMA LooksInvStep ==
    ASSUME TypeOK, FreshInv, LooksInv, Next PROVE LooksInv'
<1>1. CASE DeltaCycle
  <2>1. UNCHANGED <<phase, nvicWritten, ispr, iser, ipr>> /\ run = {}
    BY <1>1 DEF DeltaCycle, Update, cpuVars, nvicVars
  <2>2. /\ sig' = nxt /\ nxt' = nxt /\ delta' = {}
        /\ "nvicReset" \in run' <=> nxt.pwrOn # sig.pwrOn
        /\ "cpu" \in run' <=> CpuTriggered
    BY <1>1, DeltaWakes
  <2>3. CpuTriggered => phase \in {"sleep", "waitPwr"}
    BY DEF CpuTriggered
  <2>4. phase = "sleep" => sig.pwrOn /\ "nvicResetEvent" \notin delta /\ ~nvicWritten
    BY <2>1 DEF LooksInv
  <2>5. phase = "sleep" => nxt.pending = Offered
    BY <2>1, <2>4 DEF FreshInv
  <2>6. phase = "sleep" /\ nxt.pwrOn => Offered' = Offered
    BY <2>1, <2>2, <2>4, OfferedKept
  <2>7. phase = "sleep" /\ "cpu" \notin run' => nxt.pwrOn = sig.pwrOn
    BY <2>2 DEF CpuTriggered, Changed
  <2>8. nvicWritten => phase = "store"
    BY DEF LooksInv
  <2>9. phase = "sleep" /\ sig'.pwrOn => "nvicReset" \notin run'
    BY <2>2, <2>4 DEF TypeOK, Signals
  <2>. QED  BY <2>1, <2>2, <2>3, <2>4, <2>5, <2>6, <2>7, <2>8, <2>9 DEF LooksInv
<1>2. CASE TimePasses
  <2>1. PICK now \in SUBSET Due, pins \in SUBSET Pins, power \in BOOLEAN :
          Advance(now, pins, power)
    BY <1>2 DEF TimePasses
  <2>2. /\ run = {} /\ delta = {} /\ delta' = {} /\ nxt = sig
        /\ UNCHANGED <<sig, ispr, iser, ipr, phase>>
    BY <2>1 DEF Advance, Settled, cpuVars
  <2>3. nxt'.pending = nxt.pending
    <3>1. nxt' \in {nxt, [nxt EXCEPT !.pwrOn = ~@]}
      BY <2>1 DEF Advance
    <3>. QED  BY <3>1 DEF TypeOK, Signals
  <2>4. "nvicReset" \notin run' /\ ("cpu" \in run' <=> "cpu" \in now)
        /\ (nvicWritten' <=> nvicWritten /\ "cpu" \notin now)
        /\ ("cpu" \in now => phase \in TimedPhases)
    BY <2>1 DEF Advance, Due
  <2>5. Offered' = Offered
    BY <2>2, OfferedKept
  <2>6. phase # "store" => nxt.pending = Offered
    BY <2>2 DEF LooksInv, FreshInv
  <2>. QED  BY <2>2, <2>3, <2>4, <2>5, <2>6 DEF LooksInv
<1>3. CASE PeripheralStep
  BY <1>3, LooksPeripherals
<1>4. CASE CpuStep
  <2>1. CpuKeeps /\ "cpu" \notin run'
    BY <1>4, CpuKeepsAll DEF CpuKeeps
  <2>2. "cpu" \in run /\ ~nvicWritten
    BY <2>1 DEF CpuKeeps, LooksInv
  <2>3. CASE Store
    BY <2>1, <2>3 DEF LooksInv, Store, CpuExecStore, CpuKeeps
  <2>4. CASE ~Store
    <3>1. nvicWritten' = nvicWritten
      BY <1>4, <2>4 DEF CpuStep, CpuOnly, CpuTurn, StartHandler, Wfi, Return, nvicVars
    <3>2. ASSUME phase' = "sleep"
          PROVE  sig.pwrOn /\ phase # "waitPwr"
      <4>1. \E slp \in BOOLEAN, bub \in 0..(PipelineStages - 1),
               scheduled \in {nxt, [nxt EXCEPT !.active = 0]} : EndsTurn(slp, bub, scheduled)
        BY <1>4, <3>2, CpuSteps DEF CpuOnly, CpuStartReset, StartHandler, CpuEnterException,
           Store, CpuExecStore, Return, CpuExecReturn
      <4>. QED  BY <3>2, <4>1 DEF EndsTurn, NextTurn
    <3>3. ASSUME phase' = "sleep"
          PROVE  "nvicReset" \notin run' /\ "nvicResetEvent" \notin delta' /\ sig'.pwrOn
      BY <2>1, <2>2, <3>2, <3>3 DEF LooksInv, CpuKeeps
    <3>. QED  BY <2>1, <2>2, <3>1, <3>3 DEF LooksInv
  <2>. QED  BY <2>3, <2>4
<1>. QED  BY <1>1, <1>2, <1>3, <1>4 DEF Next

\* In every behaviour, across power failures and resets of the NVIC, the CPU takes the most
\* urgent enabled pending line, although it reads the offer a delta cycle late
\* (CortexM0Cpu::exceptionCheck, Nvic::process, m_resetEvent).
THEOREM MostUrgentIsTaken == Spec => TakesMostUrgent
<1>1. Init => FreshInv /\ LooksInv
  BY DEF Init, KernelInit, NvicInit, CpuInit, FreshInv, LooksInv
<1>2. FreshInv /\ LooksInv /\ UNCHANGED vars => FreshInv' /\ LooksInv'
  BY FreshFrame, OfferedKept DEF LooksInv, vars, kernelVars, nvicVars, cpuVars
<1>3. ASSUME TypeOK, LooksInv, [Next]_vars, phase \notin {"enter", "store"}, phase' = "enter",
             entering' # SYST_EXCEPT_ID, nxt.pending = sig.pending
      PROVE  entering' = HighestPending(ispr)
  <2>0. Next
    BY <1>3 DEF vars, cpuVars
  <2>1. /\ sig.pwrOn /\ entering' = PendingException /\ PendingException # 0 /\ "cpu" \in run
        /\ phase # "waitPwr"
    BY <1>3, <2>0, TakesAtEndOfTurn
  <2>2. entering' = sig.pending
    BY <1>3, <2>1 DEF PendingException
  <2>3. sig.pending = Offered
    BY <1>3, <2>1 DEF LooksInv
  <2>. QED  BY <2>1, <2>2, <2>3 DEF Offered
<1>. QED  BY Cm0TypeCorrect, FreshInvStep, LooksInvStep, <1>1, <1>2, <1>3, PTL
         DEF Spec, TakesMostUrgent
=============================================================================
