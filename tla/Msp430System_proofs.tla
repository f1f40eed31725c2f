------------------------ MODULE Msp430System_proofs ------------------------
(***************************************************************************)
(* The MSP430 interrupt path is correct for every set of pins and timer    *)
(* modes, every width of the counter, every depth of nesting and any       *)
(* number of supply changes, edges and stores.                             *)
(***************************************************************************)
EXTENDS Msp430System, SequenceTheorems, TLAPS

-----------------------------------------------------------------------------
(* Type correctness *)

\* The program nests handlers no deeper than it may, stacks with GIE set only, and
\* returns from handlers only (Msp430Cpu::processInterrupt, RETI).
Nesting ==
    /\ gie /\ phase # "ack" => Len(stack) < MaxNesting
    /\ phase = "stack" => gie
    /\ phase = "reti" => stack # <<>>

\* The arbiter's scan ends at a line that is up, InterruptArbiter.hpp:82.
LEMMA ChosenPending ==
    ASSUME sig \in Signals, Pending # {}
    PROVE  Chosen \in Pending /\ Chosen \in Lines
<1>1. Pending \subseteq {PMM, TIMA, PORT1}
  BY DEF Pending, Lines
<1>2. \E l \in Pending : \A k \in Pending : k <= l
  <2>1. CASE PORT1 \in Pending
    BY <1>1, <2>1 DEF PMM, TIMA, PORT1
  <2>2. CASE PORT1 \notin Pending /\ TIMA \in Pending
    BY <1>1, <2>2 DEF PMM, TIMA, PORT1
  <2>3. CASE PORT1 \notin Pending /\ TIMA \notin Pending
    <3>1. Pending = {PMM}
      BY <1>1, <2>3
    <3>. QED  BY <3>1 DEF PMM
  <2>. QED  BY <2>1, <2>2, <2>3
<1>3. Chosen \in Pending
  BY <1>2 DEF Chosen
<1>. QED  BY <1>3 DEF Pending

\* InterruptArbiter::process leaves signals of their types.
LEMMA ArbiterTypes ==
    ASSUME sig \in Signals, nxt \in Signals, run \subseteq Processes, ArbiterProcess
    PROVE  nxt' \in Signals /\ run' \subseteq Processes
<1>1. \A v \in BOOLEAN : Acknowledge(v) \in [Acknowledged -> BOOLEAN]
  BY DEF Acknowledge, Signals
<1>2. CASE Forward
  <2>1. sig.irqIn[sig.idx] \in BOOLEAN
    BY DEF Signals
  <2>2. Acknowledge(TRUE) \in [Acknowledged -> BOOLEAN]
    BY <1>1
  <2>. QED  BY <1>2, <2>1, <2>2 DEF Forward, Signals, ArbiterProcess, Evaluate
<1>3. CASE Choose
  <2>1. Acknowledge(FALSE) \in [Acknowledged -> BOOLEAN]
    BY <1>1
  <2>2. (IF Pending # {} THEN Chosen ELSE nxt.idx) \in Lines
    BY ChosenPending DEF Signals
  <2>3. (Pending # {}) \in BOOLEAN
    OBVIOUS
  <2>. QED  BY <1>3, <2>1, <2>2, <2>3 DEF Choose, Signals, ArbiterProcess, Evaluate
<1>. QED  BY <1>2, <1>3 DEF ArbiterProcess

\* PowerManagementModule::process leaves signals of their types.
LEMMA PmmTypes ==
    ASSUME sig \in Signals, nxt \in Signals, run \subseteq Processes, PmmTypeOK, PmmProcess
    PROVE  nxt' \in Signals /\ run' \subseteq Processes /\ PmmTypeOK'
<1>1. ASSUME NEW on \in BOOLEAN, NEW irq \in BOOLEAN, PmmDrive(on, irq)
      PROVE  nxt' \in Signals
  <2>1. Lowered(irq) \in BOOLEAN
    BY DEF Lowered
  <2>. QED  BY <1>1, <2>1 DEF PmmDrive, Signals
<1>2. CASE PmmWatch
  <2>1. (isOn /\ sig.vcc # "low") \in BOOLEAN /\ nxt.irqIn[PMM] \in BOOLEAN
    BY DEF Signals, Lines, PMM
  <2>2. CASE ~isOn /\ sig.vcc = "high"
    BY <1>2, <2>2 DEF PmmWatch, Evaluate, PmmTypeOK
  <2>3. CASE ~(~isOn /\ sig.vcc = "high")
    <3>1. PmmDrive(isOn', nxt.irqIn[PMM]) /\ isOn' \in BOOLEAN
      BY <1>2, <2>1, <2>3 DEF PmmWatch
    <3>2. nxt' \in Signals
      BY <1>1, <2>1, <3>1
    <3>. QED  BY <1>2, <2>3, <3>1, <3>2 DEF PmmWatch, Evaluate, PmmTypeOK
  <2>. QED  BY <2>2, <2>3
<1>3. CASE PmmBooted
  <2>1. nxt' \in Signals
    BY <1>1, <1>3 DEF PmmBooted
  <2>. QED  BY <1>3, <2>1 DEF PmmBooted, Evaluate, PmmTypeOK
<1>. QED  BY <1>2, <1>3 DEF PmmProcess

\* Counting keeps TA1R within its width in every mode, TimerA.cpp:90 to 133.
LEMMA CountedType ==
    ASSUME NEW t \in TimerRegisters
    PROVE  Counted(t) \in TimerRegisters
<1>1. /\ t.mode \in Modes \cup {0} /\ t.count \in 0..CountMax /\ t.ccr0 \in Ccr0Values
      /\ t.taifg \in BOOLEAN /\ t.direction \in BOOLEAN
  BY DEF TimerRegisters
<1>2. t.mode \in 0..3 /\ t.ccr0 \in 0..CountMax /\ CountMax \in Nat
  <2>1. CountMax \in Nat
    BY TimerAssumption
  <2>2. t.ccr0 \in 0..CountMax
    BY <1>1, TimerAssumption
  <2>3. Modes \subseteq 0..3 /\ 0 \in 0..3
    BY TimerAssumption
  <2>4. t.mode \in 0..3
    BY <1>1, <2>3
  <2>. QED  BY <2>1, <2>2, <2>4
<1>3. ASSUME NEW u \in TimerRegisters, NEW c \in 0..CountMax, NEW d \in BOOLEAN
      PROVE  [u EXCEPT !.count = c, !.direction = d] \in TimerRegisters
  BY DEF TimerRegisters
<1>4. ASSUME NEW u \in TimerRegisters, NEW c \in 0..CountMax, NEW f \in BOOLEAN
      PROVE  /\ [u EXCEPT !.count = c] \in TimerRegisters
             /\ [u EXCEPT !.taifg = f] \in TimerRegisters
             /\ [u EXCEPT !.count = c, !.taifg = f] \in TimerRegisters
  BY DEF TimerRegisters
<1>5. ASSUME NEW top \in 0..CountMax PROVE CountsTo(t, top) \in TimerRegisters
  <2>1. CASE t.count < top
    <3>1. t.count + 1 \in 0..CountMax
      BY <1>1, <1>2, <2>1
    <3>2. CountsTo(t, top) = [t EXCEPT !.count = t.count + 1]
      BY <2>1 DEF CountsTo
    <3>. QED  BY <1>4, <3>1, <3>2
  <2>2. CASE ~(t.count < top)
    <3>1. CountsTo(t, top) = [t EXCEPT !.count = 0, !.taifg = TRUE]
      BY <2>2 DEF CountsTo
    <3>2. 0 \in 0..CountMax
      BY <1>2
    <3>. QED  BY <1>4, <3>1, <3>2
  <2>. QED  BY <2>1, <2>2
<1>6. Swing(t) \in TimerRegisters
  <2>1. CASE t.direction /\ t.count < t.ccr0
    <3>. DEFINE d == ~(t.count + 1 < t.ccr0)
    <3>1. t.count + 1 \in 0..CountMax /\ d \in BOOLEAN
      BY <1>1, <1>2, <2>1
    <3>2. Swing(t) = [t EXCEPT !.count = t.count + 1, !.direction = d]
      BY <2>1 DEF Swing
    <3>. HIDE DEF d
    <3>. QED  BY <1>3, <3>1, <3>2, ZenonT(40)
  <2>2. CASE ~(t.direction /\ t.count < t.ccr0) /\ t.count > 0 /\ ~t.direction
    <3>. DEFINE d == (t.count - 1 = 0)
    <3>1. t.count - 1 \in 0..CountMax /\ d \in BOOLEAN
      BY <1>1, <1>2, <2>2
    <3>2. Swing(t) = [t EXCEPT !.count = t.count - 1, !.direction = d]
      BY <2>2 DEF Swing
    <3>. HIDE DEF d
    <3>. QED  BY <1>3, <3>1, <3>2, ZenonT(40)
  <2>3. CASE ~(t.direction /\ t.count < t.ccr0) /\ ~(t.count > 0 /\ ~t.direction)
    BY <2>3 DEF Swing
  <2>. QED  BY <2>1, <2>2, <2>3
<1>7. CountsUpDown(t) \in TimerRegisters
  BY <1>2, <1>4, <1>6 DEF CountsUpDown
<1>8. CASE t.mode = 0
  BY <1>8 DEF Counted
<1>9. CASE t.mode = 1
  BY <1>2, <1>5, <1>9 DEF Counted
<1>10. CASE t.mode = 2
  BY <1>2, <1>5, <1>10 DEF Counted
<1>11. CASE t.mode = 3
  BY <1>7, <1>11 DEF Counted
<1>. QED  BY <1>2, <1>8, <1>9, <1>10, <1>11

\* TimerA::process leaves registers and signals of their types.
LEMMA TimerTypes ==
    ASSUME sig \in Signals, nxt \in Signals, run \subseteq Processes, TimerTypeOK, TimerProcess
    PROVE  nxt' \in Signals /\ run' \subseteq Processes /\ TimerTypeOK'
<1>1. CASE sig.pwrOn
  <2>. DEFINE c == Counted(tima)
              t == Cleared(c)
  <2>1. c \in TimerRegisters
    BY CountedType DEF TimerTypeOK
  <2>. HIDE DEF c
  <2>2. t \in TimerRegisters
    BY <2>1 DEF Cleared, TimerRegisters
  <2>. HIDE DEF t
  <2>3. Flagged(t) \in BOOLEAN
    BY DEF Flagged
  <2>4. TimerLine(t, nxt.irqIn[TIMA]) \in BOOLEAN
    BY <2>2 DEF TimerLine, TimerRegisters, Signals, Lines
  <2>5. /\ tima' = [t EXCEPT !.taifg = Flagged(t)]
        /\ nxt' = [nxt EXCEPT !.irqIn[TIMA] = TimerLine(t, nxt.irqIn[TIMA])]
        /\ timaWait' \in {"edge", "write"}
    BY <1>1 DEF TimerProcess, t, c
  <2>6. tima' \in TimerRegisters
    BY <2>2, <2>3, <2>5 DEF TimerRegisters
  <2>7. nxt' \in Signals
    BY <2>4, <2>5 DEF Signals
  <2>. QED  BY <2>5, <2>6, <2>7 DEF TimerTypeOK, TimerProcess, Evaluate
<1>2. CASE ~sig.pwrOn
  BY <1>2 DEF TimerProcess, TimerTypeOK, Evaluate
<1>. QED  BY <1>1, <1>2

\* TimerA::reset gives every register a value it can have.
LEMMA TimerResetTypes ==
    ASSUME run \subseteq Processes, TimerTypeOK, TimerReset
    PROVE  run' \subseteq Processes /\ TimerTypeOK'
<1>1. tima' \in TimerRegisters
  BY TimerAssumption DEF TimerReset, TimerTypeOK, TimerRegisters
<1>. QED  BY <1>1 DEF TimerReset, TimerTypeOK, Evaluate

\* DigitalIo::process and reset keep to the pins of the port.
LEMMA PortTypes ==
    ASSUME sig \in Signals, nxt \in Signals, run \subseteq Processes, PortTypeOK,
           PortProcess \/ PortReset
    PROVE  nxt' \in Signals /\ run' \subseteq Processes /\ PortTypeOK'
<1>1. CASE PortProcess
  <2>1. FlaggedEdges \subseteq Pins
    BY DEF FlaggedEdges, PortTypeOK
  <2>2. PortTypeOK'
    BY <1>1, <2>1 DEF PortProcess, PortTypeOK
  <2>3. (paifg' # {}) \in BOOLEAN
    OBVIOUS
  <2>4. nxt' \in Signals
    <3>1. CASE sig.pwrOn
      <4>. DEFINE up == (paifg' # {})
      <4>1. nxt' = [nxt EXCEPT !.irqIn[PORT1] = up]
        BY <1>1, <3>1 DEF PortProcess
      <4>. HIDE DEF up
      <4>. QED  BY <2>3, <4>1 DEF Signals, up
    <3>2. CASE ~sig.pwrOn
      BY <1>1, <3>2 DEF PortProcess
    <3>. QED  BY <3>1, <3>2
  <2>. QED  BY <1>1, <2>2, <2>4 DEF PortProcess, Evaluate
<1>2. CASE PortReset
  BY <1>2 DEF PortReset, PortTypeOK, Evaluate
<1>. QED  BY <1>1, <1>2

\* The top of the loop, for an SR that is one.
LEMMA NextTurnTypes ==
    ASSUME sig \in Signals, nxt \in Signals, vector \in Lines,
           NEW enabled \in BOOLEAN, NEW off \in BOOLEAN, NextTurn(enabled, off, nxt)
    PROVE  /\ nxt' \in Signals /\ vector' \in Lines
           /\ gie' = enabled /\ cpuoff' = off
           /\ phase' \in {"waitPwr", "ack", "stack", "sleep", "fetch"}
           /\ phase' = "stack" => enabled
           /\ phase' = "sleep" => off
           /\ phase' = "ack" => vector' = PMM
<1>1. nxt' \in Signals
  BY DEF NextTurn, Signals
<1>2. vector' \in Lines
  BY DEF NextTurn, Lines
<1>3. TakesInterrupt(enabled) => enabled
  BY DEF TakesInterrupt, Signals, Lines, PMM, TIMA, PORT1
<1>4. CASE ~sig.pwrOn
  <2>1. phase' = "waitPwr"
    BY <1>4 DEF NextTurn, TakesReset, TakesInterrupt
  <2>. QED  BY <1>1, <1>2, <2>1 DEF NextTurn
<1>5. CASE sig.pwrOn /\ TakesReset
  <2>1. phase' = "ack" /\ vector' = PMM
    BY <1>5 DEF NextTurn, TakesReset, TakesInterrupt
  <2>. QED  BY <1>1, <1>2, <2>1 DEF NextTurn
<1>6. CASE sig.pwrOn /\ ~TakesReset /\ TakesInterrupt(enabled)
  <2>1. phase' = "stack"
    BY <1>6 DEF NextTurn
  <2>. QED  BY <1>1, <1>2, <1>3, <1>6, <2>1 DEF NextTurn
<1>7. CASE sig.pwrOn /\ ~TakesReset /\ ~TakesInterrupt(enabled)
  <2>1. phase' = IF off THEN "sleep" ELSE "fetch"
    BY <1>7 DEF NextTurn
  <2>. QED  BY <1>1, <1>2, <2>1 DEF NextTurn
<1>. QED  BY <1>4, <1>5, <1>6, <1>7

\* What an instant adds to the bounds, the pins and the runnable processes.
LEMMA AdvanceTypes ==
    ASSUME TypeOK, TimePasses
    PROVE  /\ nxt' \in Signals /\ run' \subseteq Processes
           /\ pinsHigh' \subseteq Pins /\ written' \subseteq {"timer", "port"}
           /\ used' \in [supply : 0..MaxSupply, edges : 0..MaxEdges, stores : 0..MaxStores]
<1>. PICK now \in SUBSET Due, pins \in SUBSET Pins, vcc \in Supply :
         Environment(pins, vcc) /\ Advance(now, pins, vcc)
  BY DEF TimePasses
<1>1. nxt' \in Signals
  BY DEF Advance, TypeOK, Signals
<1>2. Due \subseteq Processes /\ Hears \subseteq Processes
  BY DEF Due, Hears, Processes
<1>3. run' \subseteq Processes
  BY <1>2 DEF Advance, Processes
<1>4. used' \in [supply : 0..MaxSupply, edges : 0..MaxEdges, stores : 0..MaxStores]
  <2>. DEFINE s == IF vcc # sig.vcc THEN used.supply + 1 ELSE used.supply
              e == IF pins # pinsHigh THEN used.edges + 1 ELSE used.edges
  <2>1. /\ used.supply \in 0..MaxSupply /\ used.edges \in 0..MaxEdges
        /\ used \in [supply : 0..MaxSupply, edges : 0..MaxEdges, stores : 0..MaxStores]
    BY DEF TypeOK
  <2>2. s \in 0..MaxSupply
    BY <2>1, BoundsAssumption DEF Environment
  <2>3. e \in 0..MaxEdges
    BY <2>1, BoundsAssumption DEF Environment
  <2>4. used' = [used EXCEPT !.supply = s, !.edges = e]
    BY DEF Advance
  <2>. HIDE DEF s, e
  <2>. QED  BY <2>1, <2>2, <2>3, <2>4
<1>. QED  BY <1>1, <1>3, <1>4 DEF Advance, TypeOK

\* b_transport of the timer and of the port gives registers values they can have.
LEMMA StoreTypes ==
    ASSUME TypeOK, Store
    PROVE  /\ TimerTypeOK' /\ PortTypeOK' /\ written' \subseteq {"timer", "port"}
           /\ used' \in [supply : 0..MaxSupply, edges : 0..MaxEdges, stores : 0..MaxStores]
           /\ expiryOwed' \in BOOLEAN /\ edgeOwed' \in BOOLEAN
<1>1. used' \in [supply : 0..MaxSupply, edges : 0..MaxEdges, stores : 0..MaxStores]
  <2>1. used.stores + 1 \in 0..MaxStores
    BY BoundsAssumption DEF Store, TypeOK
  <2>. QED  BY <2>1 DEF Store, TypeOK
<1>2. CASE StoreTimer
  <2>1. tima' \in TimerRegisters
    <3>1. CASE WriteTA1CTL
      BY <3>1, ZenonT(40) DEF WriteTA1CTL, TypeOK, TimerTypeOK, TimerRegisters
    <3>2. CASE WriteTA1CCTL0
      BY <3>2 DEF WriteTA1CCTL0, TypeOK, TimerTypeOK, TimerRegisters
    <3>3. CASE WriteTA1CCR0
      BY <3>3 DEF WriteTA1CCR0, TypeOK, TimerTypeOK, TimerRegisters
    <3>. QED  BY <1>2, <3>1, <3>2, <3>3 DEF StoreTimer, TimerWrite
  <2>. QED  BY <1>1, <1>2, <2>1 DEF StoreTimer, TypeOK, TimerTypeOK, PortTypeOK, portVars
<1>3. CASE StorePort
  <2>1. PortTypeOK'
    BY <1>3 DEF StorePort, PortWrite, WritePAIE, WritePAIES, WritePAIFG, TypeOK, PortTypeOK
  <2>2. expiryOwed' \in BOOLEAN /\ edgeOwed' \in BOOLEAN
    BY <1>3 DEF StorePort, TypeOK
  <2>. QED  BY <1>1, <1>3, <2>1, <2>2 DEF StorePort, TypeOK, TimerTypeOK, timaVars
<1>. QED  BY <1>2, <1>3 DEF Store

\* The CPU's own state after each of its steps.
CpuPart ==
    /\ sig' = sig /\ nxt' \in Signals /\ run' \subseteq Processes
    /\ CpuTypeOK' /\ Nesting'

\* Every turn of Msp430Cpu::process keeps the types, the depth of the stack included:
\* the push happens with GIE set and the pop in a handler.
LEMMA CpuTypes ==
    ASSUME TypeOK, Nesting,
           \/ CpuPowerUp \/ CpuSleeps \/ CpuStacked \/ CpuAcknowledged
           \/ CpuEntersHandler \/ CpuExecSetSr \/ CpuExecStore \/ CpuFinishStore
           \/ CpuExecReti \/ CpuFinishReti
    PROVE  CpuPart
<1>. USE DEF CpuPart, Evaluate
<1>1. /\ sig \in Signals /\ nxt \in Signals /\ run \subseteq Processes
      /\ phase \in TimedPhases \cup {"waitPwr"} /\ gie \in BOOLEAN /\ cpuoff \in BOOLEAN
      /\ booted \in BOOLEAN /\ vector \in Lines /\ sig.idx \in Lines
      /\ stack \in Seq(StatusRegisters) /\ Len(stack) <= MaxNesting /\ Len(stack) \in Nat
      /\ MaxNesting \in Nat \ {0}
  BY NestingAssumption, LenProperties DEF TypeOK, CpuTypeOK, Signals
\* A turn of the loop that leaves the stack as it is.
<1>2. ASSUME NEW enabled \in BOOLEAN, NEW off \in BOOLEAN, NextTurn(enabled, off, nxt),
             stack' \in Seq(StatusRegisters), Len(stack') <= MaxNesting,
             enabled => Len(stack') < MaxNesting, booted' \in BOOLEAN
      PROVE  nxt' \in Signals /\ CpuTypeOK' /\ Nesting'
  <2>1. /\ nxt' \in Signals /\ vector' \in Lines
        /\ gie' = enabled /\ cpuoff' = off
        /\ phase' \in {"waitPwr", "ack", "stack", "sleep", "fetch"}
        /\ phase' = "stack" => enabled
    BY <1>1, <1>2, NextTurnTypes
  <2>2. CpuTypeOK'
    BY <1>2, <2>1 DEF CpuTypeOK, TimedPhases
  <2>3. Nesting'
    BY <1>2, <2>1 DEF Nesting
  <2>. QED  BY <2>1, <2>2, <2>3
<1>3. CASE CpuPowerUp
  <2>1. /\ stack' = <<>> /\ booted' = FALSE /\ NextTurn(FALSE, TRUE, nxt)
        /\ sig' = sig /\ run' \subseteq Processes
    BY <1>1, <1>3 DEF CpuPowerUp
  <2>2. stack' \in Seq(StatusRegisters) /\ Len(stack') = 0
    BY <2>1, EmptySeq
  <2>3. Len(stack') <= MaxNesting /\ Len(stack') < MaxNesting
    BY <1>1, <2>2
  <2>4. nxt' \in Signals /\ CpuTypeOK' /\ Nesting'
    BY <1>2, <2>1, <2>2, <2>3
  <2>. QED  BY <2>1, <2>4
<1>4. CASE CpuSleeps
  <2>1. /\ stack' = stack /\ booted' = booted /\ NextTurn(gie, cpuoff, nxt) /\ phase = "sleep"
        /\ sig' = sig /\ run' \subseteq Processes
    BY <1>1, <1>4 DEF CpuSleeps
  <2>2. gie => Len(stack') < MaxNesting
    BY <2>1 DEF Nesting
  <2>. QED  BY <1>1, <1>2, <2>1, <2>2
<1>5. CASE CpuStacked
  <2>. DEFINE r == [gie |-> gie, cpuoff |-> cpuoff]
  <2>1. /\ stack' = Append(stack, r) /\ vector' = sig.idx /\ phase' = "ack" /\ phase = "stack"
        /\ nxt' = [nxt EXCEPT !.ira = TRUE]
        /\ UNCHANGED <<sig, gie, cpuoff, booted>> /\ run' \subseteq Processes
    BY <1>1, <1>5 DEF CpuStacked
  <2>2. r \in StatusRegisters
    BY <1>1 DEF StatusRegisters
  <2>3. Len(stack) < MaxNesting
    BY <2>1 DEF Nesting
  <2>. HIDE DEF r
  <2>4. stack' \in Seq(StatusRegisters) /\ Len(stack') = Len(stack) + 1
    BY <1>1, <2>1, <2>2, AppendProperties
  <2>5. nxt' \in Signals
    BY <1>1, <2>1 DEF Signals
  <2>6. CpuTypeOK'
    BY <1>1, <2>1, <2>3, <2>4 DEF CpuTypeOK, TimedPhases
  <2>. QED  BY <2>1, <2>5, <2>6 DEF Nesting
<1>6. CASE CpuAcknowledged
  <2>1. nxt' \in Signals
    BY <1>1, <1>6 DEF CpuAcknowledged, Signals
  <2>2. CpuTypeOK'
    BY <1>1, <1>6 DEF CpuAcknowledged, CpuTypeOK, TimedPhases
  <2>. QED  BY <1>1, <1>6, <2>1, <2>2 DEF CpuAcknowledged, Nesting
<1>7. CASE CpuEntersHandler
  <2>1. CpuTypeOK'
    BY <1>1, <1>7 DEF CpuEntersHandler, CpuTypeOK, TimedPhases
  <2>. QED  BY <1>1, <1>7, <2>1 DEF CpuEntersHandler, Nesting
<1>8. CASE CpuExecSetSr
  <2>. PICK enabled \in BOOLEAN, off \in BOOLEAN :
           (enabled => Len(stack) < MaxNesting) /\ NextTurn(enabled, off, nxt)
    BY <1>8 DEF CpuExecSetSr
  <2>. QED  BY <1>1, <1>2, <1>8 DEF CpuExecSetSr, Executing
<1>9. CASE CpuExecStore \/ CpuExecReti
  <2>1. CpuTypeOK'
    BY <1>1, <1>9 DEF CpuExecStore, CpuExecReti, Executing, CpuTypeOK, TimedPhases
  <2>. QED  BY <1>1, <1>9, <2>1 DEF CpuExecStore, CpuExecReti, Executing, Nesting
<1>10. CASE CpuFinishStore
  <2>1. /\ stack' = stack /\ booted' = booted /\ NextTurn(gie, cpuoff, nxt) /\ phase = "store"
        /\ sig' = sig /\ run' \subseteq Processes
    BY <1>1, <1>10 DEF CpuFinishStore
  <2>2. gie => Len(stack') < MaxNesting
    BY <2>1 DEF Nesting
  <2>. QED  BY <1>1, <1>2, <2>1, <2>2
<1>11. CASE CpuFinishReti
  <2>. DEFINE saved == stack[Len(stack)]
  <2>1. /\ stack' = SubSeq(stack, 1, Len(stack) - 1) /\ booted' = booted
        /\ NextTurn(saved.gie, saved.cpuoff, nxt) /\ sig' = sig /\ run' \subseteq Processes
    BY <1>1, <1>11 DEF CpuFinishReti
  <2>2. stack # <<>> /\ Len(stack) \in 1..Len(stack)
    BY <1>1, <1>11, EmptySeq DEF CpuFinishReti, Nesting
  <2>3. saved \in StatusRegisters
    BY <1>1, <2>2, ElementOfSeq
  <2>4. saved.gie \in BOOLEAN /\ saved.cpuoff \in BOOLEAN
    BY <2>3 DEF StatusRegisters
  <2>. HIDE DEF saved
  <2>5. stack' \in Seq(StatusRegisters) /\ Len(stack') = Len(stack) - 1
    <3>1. \A i \in 1..Len(stack) - 1 : stack[i] \in StatusRegisters
      BY <1>1, ElementOfSeq
    <3>2. 1 \in Int /\ Len(stack) - 1 \in Int
      BY <1>1
    <3>3. /\ SubSeq(stack, 1, Len(stack) - 1) \in Seq(StatusRegisters)
          /\ Len(SubSeq(stack, 1, Len(stack) - 1))
                = IF 1 <= Len(stack) - 1 THEN Len(stack) - 1 - 1 + 1 ELSE 0
      BY <3>1, <3>2, SubSeqProperties
    <3>4. stack' = SubSeq(stack, 1, Len(stack) - 1)
      BY <2>1
    <3>. DEFINE k == Len(stack) - 1
    <3>5. k \in Nat
      BY <1>1, <2>2
    <3>. HIDE DEF k
    <3>6. (IF 1 <= k THEN k - 1 + 1 ELSE 0) = k
      BY <3>5
    <3>7. stack' \in Seq(StatusRegisters) /\ Len(stack') = k
      BY <3>3, <3>4, <3>6 DEF k
    <3>. QED  BY <3>7 DEF k
  <2>6. Len(stack') <= MaxNesting /\ Len(stack') < MaxNesting
    BY <1>1, <2>5
  <2>7. nxt' \in Signals /\ CpuTypeOK' /\ Nesting'
    BY <1>1, <1>2, <2>1, <2>4, <2>5, <2>6
  <2>. QED  BY <2>1, <2>7
<1>. QED  BY <1>3, <1>4, <1>5, <1>6, <1>7, <1>8, <1>9, <1>10, <1>11

\* The elaborated design has the types.
LEMMA TypeInit == Init => TypeOK /\ Nesting
<1>. SUFFICES ASSUME Init PROVE TypeOK /\ Nesting
  OBVIOUS
<1>1. SignalInit \in Signals
  BY DEF SignalInit, Signals, Supply, Lines
<1>2. sig \in Signals /\ nxt \in Signals /\ run \subseteq Processes
  BY <1>1 DEF Init, KernelInit, Processes
<1>3. PmmTypeOK
  BY DEF Init, PmmInit, PmmTypeOK
<1>4. TimerTypeOK
  BY TimerAssumption DEF Init, TimerInit, TimerTypeOK, TimerRegisters
<1>5. PortTypeOK
  BY DEF Init, PortInit, PortTypeOK
<1>6. CpuTypeOK /\ Nesting
  <2>1. stack \in Seq(StatusRegisters) /\ Len(stack) = 0
    BY EmptySeq DEF Init, CpuInit
  <2>2. /\ phase = "waitPwr" /\ gie = FALSE /\ cpuoff = FALSE /\ booted = FALSE
        /\ vector \in Lines
    BY DEF Init, CpuInit, Lines
  <2>3. Len(stack) <= MaxNesting /\ Len(stack) < MaxNesting
    BY <2>1, NestingAssumption
  <2>. QED  BY <2>1, <2>2, <2>3 DEF CpuTypeOK, Nesting
<1>7. used \in [supply : 0..MaxSupply, edges : 0..MaxEdges, stores : 0..MaxStores]
  <2>1. 0 \in 0..MaxSupply /\ 0 \in 0..MaxEdges /\ 0 \in 0..MaxStores
    BY BoundsAssumption
  <2>. QED  BY <2>1 DEF Init
<1>. QED  BY <1>2, <1>3, <1>4, <1>5, <1>6, <1>7 DEF Init, TypeOK

\* Each step of the CPU is one of its thread's.
LEMMA CpuStepParts ==
    ASSUME TypeOK, Nesting, CpuStep
    PROVE  CpuPart /\ UNCHANGED pmmVars
<1>1. \/ CpuPowerUp \/ CpuSleeps \/ CpuStacked \/ CpuAcknowledged
      \/ CpuEntersHandler \/ CpuExecSetSr \/ CpuExecStore \/ CpuFinishStore
      \/ CpuExecReti \/ CpuFinishReti
  BY DEF CpuStep, CpuOnly, TakeInterrupt, Store
<1>2. UNCHANGED pmmVars
  BY DEF CpuStep, CpuOnly, TakeInterrupt, Store
<1>. QED  BY <1>1, <1>2, CpuTypes

\* Every step keeps the types.
LEMMA TypeStep == TypeOK /\ Nesting /\ [Next]_vars => TypeOK' /\ Nesting'
<1>. SUFFICES ASSUME TypeOK, Nesting, [Next]_vars PROVE TypeOK' /\ Nesting'
  OBVIOUS
<1>. USE DEF historyVars
<1>1. CASE DeltaCycle
  <2>1. Triggered \subseteq Processes
    BY DEF Triggered
  <2>2. requested' \in BOOLEAN
    BY <1>1 DEF DeltaCycle, TypeOK
  <2>3. CpuTypeOK' /\ Nesting' /\ PortTypeOK' /\ TimerTypeOK' /\ PmmTypeOK'
    BY <1>1 DEF DeltaCycle, TypeOK, CpuTypeOK, Nesting, PortTypeOK, TimerTypeOK, PmmTypeOK,
                pmmVars, timaVars, portVars, cpuVars
  <2>. QED  BY <1>1, <2>1, <2>2, <2>3 DEF DeltaCycle, Update, TypeOK
<1>2. CASE TimePasses
  <2>1. UNCHANGED <<sig, pmmVars, timaVars, paie, paies, paifg, lastState, cpuVars, historyVars>>
    BY <1>2 DEF TimePasses, Advance
  <2>2. CpuTypeOK' /\ Nesting' /\ TimerTypeOK' /\ PmmTypeOK'
    BY <2>1 DEF TypeOK, CpuTypeOK, Nesting, TimerTypeOK, PmmTypeOK, pmmVars, timaVars, cpuVars
  <2>3. PortTypeOK'
    BY <1>2, <2>1, AdvanceTypes DEF TypeOK, PortTypeOK
  <2>. QED  BY <1>2, <2>1, <2>2, <2>3, AdvanceTypes DEF TypeOK
<1>3. CASE ArbiterStep
  <2>1. nxt' \in Signals /\ run' \subseteq Processes /\ sig' = sig
    BY <1>3, ArbiterTypes DEF ArbiterStep, ArbiterProcess, TypeOK
  <2>2. CpuTypeOK' /\ Nesting' /\ PortTypeOK' /\ TimerTypeOK' /\ PmmTypeOK'
    BY <1>3 DEF ArbiterStep, TypeOK, CpuTypeOK, Nesting, PortTypeOK, TimerTypeOK, PmmTypeOK,
                pmmVars, timaVars, portVars, cpuVars
  <2>. QED  BY <1>3, <2>1, <2>2 DEF ArbiterStep, TypeOK
<1>4. CASE PmmStep
  <2>1. nxt' \in Signals /\ run' \subseteq Processes /\ PmmTypeOK' /\ sig' = sig
    BY <1>4, PmmTypes DEF PmmStep, PmmProcess, PmmWatch, PmmBooted, TypeOK
  <2>2. CpuTypeOK' /\ Nesting' /\ PortTypeOK' /\ TimerTypeOK'
    BY <1>4 DEF PmmStep, TypeOK, CpuTypeOK, Nesting, PortTypeOK, TimerTypeOK,
                timaVars, portVars, cpuVars
  <2>. QED  BY <1>4, <2>1, <2>2 DEF PmmStep, TypeOK
<1>5. CASE TimerStep \/ TimerResetStep
  <2>1. nxt' \in Signals /\ run' \subseteq Processes /\ TimerTypeOK' /\ sig' = sig
    <3>1. CASE TimerStep
      BY <3>1, TimerTypes DEF TimerStep, TimerProcess, TypeOK
    <3>2. CASE TimerResetStep
      BY <3>2, TimerResetTypes DEF TimerResetStep, TimerReset, TypeOK
    <3>. QED  BY <1>5, <3>1, <3>2
  <2>2. CpuTypeOK' /\ Nesting' /\ PortTypeOK' /\ PmmTypeOK'
    <3>1. UNCHANGED <<pmmVars, portVars, cpuVars>>
      BY <1>5 DEF TimerStep, TimerResetStep
    <3>. QED  BY <3>1 DEF TypeOK, CpuTypeOK, Nesting, PortTypeOK, PmmTypeOK, pmmVars, portVars, cpuVars
  <2>3. requested' \in BOOLEAN /\ expiryOwed' \in BOOLEAN /\ edgeOwed' \in BOOLEAN
    BY <1>5 DEF TimerStep, TimerResetStep, TypeOK
  <2>. QED  BY <1>5, <2>1, <2>2, <2>3 DEF TimerStep, TimerResetStep, TypeOK
<1>6. CASE PortStep \/ PortResetStep
  <2>1. nxt' \in Signals /\ run' \subseteq Processes /\ PortTypeOK' /\ sig' = sig
    BY <1>6, PortTypes DEF PortStep, PortResetStep, PortProcess, PortReset, TypeOK
  <2>2. CpuTypeOK' /\ Nesting' /\ TimerTypeOK' /\ PmmTypeOK'
    <3>1. UNCHANGED <<pmmVars, timaVars, cpuVars>>
      BY <1>6 DEF PortStep, PortResetStep
    <3>. QED  BY <3>1 DEF TypeOK, CpuTypeOK, Nesting, TimerTypeOK, PmmTypeOK, pmmVars, timaVars, cpuVars
  <2>3. requested' \in BOOLEAN /\ expiryOwed' \in BOOLEAN /\ edgeOwed' \in BOOLEAN
    BY <1>6 DEF PortStep, PortResetStep, TypeOK
  <2>. QED  BY <1>6, <2>1, <2>2, <2>3 DEF PortStep, PortResetStep, TypeOK
<1>7. CASE CpuStep
  <2>1. CpuPart /\ UNCHANGED pmmVars
    BY <1>7, CpuStepParts
  <2>2. CASE Store
    <3>1. UNCHANGED requested
      BY <2>2 DEF Store
    <3>. QED  BY <2>1, <2>2, <3>1, StoreTypes DEF CpuPart, TypeOK, PmmTypeOK, pmmVars
  <2>3. CASE ~Store
    <3>1. /\ UNCHANGED <<timaVars, portVars, written, used, requested>>
          /\ expiryOwed' \in BOOLEAN /\ edgeOwed' \in BOOLEAN
      BY <1>7, <2>3 DEF CpuStep, CpuOnly, TakeInterrupt, TypeOK
    <3>2. PortTypeOK' /\ TimerTypeOK' /\ PmmTypeOK'
      BY <2>1, <3>1 DEF TypeOK, PortTypeOK, TimerTypeOK, PmmTypeOK, pmmVars, timaVars, portVars
    <3>. QED  BY <2>1, <3>1, <3>2 DEF CpuPart, TypeOK
  <2>. QED  BY <2>2, <2>3
<1>8. CASE UNCHANGED vars
  BY <1>8 DEF vars, kernelVars, TypeOK, CpuTypeOK, Nesting, PortTypeOK, TimerTypeOK, PmmTypeOK,
              pmmVars, timaVars, portVars, cpuVars
<1>. QED  BY <1>1, <1>2, <1>3, <1>4, <1>5, <1>6, <1>7, <1>8 DEF Next, PeripheralStep

\* In every behaviour the signals and registers are of their types, the timer's count
\* stays within its width and the stack within its depth (Msp430Cpu::processInterrupt,
\* TimerA::process).
THEOREM Msp430TypeCorrect == Spec => []TypeOK
<1>1. Spec => [](TypeOK /\ Nesting)
  BY TypeInit, TypeStep, PTL DEF Spec
<1>. QED  BY <1>1, PTL

-----------------------------------------------------------------------------
(* Nothing is executed before the reset vector *)

\* What keeps the CPU from instructions: after power-up it sleeps with GIE clear, and
\* only the reset vector ends that (Msp430Cpu.cpp:95).
ReachesHandlers ==
    /\ phase \in {"fetch", "store", "stack", "reti"} => booted
    /\ phase = "sleep" => booted \/ (~gie /\ cpuoff)
    /\ phase \in {"ack", "vector"} => booted \/ vector = PMM

\* Without power nothing is executed.
LEMMA ReachesInit == Init => ReachesHandlers
BY DEF Init, CpuInit, ReachesHandlers

\* Every turn of the loop keeps it: with GIE clear only lines below 3 are accepted, and
\* of the lines in use that is the reset alone.
LEMMA ReachesStep == TypeOK /\ ReachesHandlers /\ [Next]_vars => ReachesHandlers'
<1>. SUFFICES ASSUME TypeOK, ReachesHandlers, [Next]_vars PROVE ReachesHandlers'
  OBVIOUS
<1>1. /\ sig \in Signals /\ nxt \in Signals /\ vector \in Lines
      /\ gie \in BOOLEAN /\ cpuoff \in BOOLEAN
  BY DEF TypeOK, CpuTypeOK
<1>2. CASE CpuPowerUp
  <2>1. NextTurn(FALSE, TRUE, nxt)
    BY <1>2 DEF CpuPowerUp
  <2>2. /\ ~gie' /\ cpuoff'
        /\ phase' \in {"waitPwr", "ack", "stack", "sleep", "fetch"}
        /\ phase' # "stack" /\ (phase' = "ack" => vector' = PMM)
    BY <1>1, <2>1, NextTurnTypes
  <2>3. phase' # "fetch"
    BY <2>1 DEF NextTurn
  <2>. QED  BY <2>2, <2>3 DEF ReachesHandlers
<1>3. CASE CpuSleeps
  <2>1. NextTurn(gie, cpuoff, nxt) /\ booted' = booted /\ phase = "sleep"
    BY <1>3 DEF CpuSleeps
  <2>2. /\ gie' = gie /\ cpuoff' = cpuoff
        /\ phase' \in {"waitPwr", "ack", "stack", "sleep", "fetch"}
        /\ (phase' = "stack" => gie) /\ (phase' = "ack" => vector' = PMM)
    BY <1>1, <2>1, NextTurnTypes
  <2>3. cpuoff => phase' # "fetch"
    BY <2>1 DEF NextTurn
  <2>. QED  BY <2>1, <2>2, <2>3 DEF ReachesHandlers
<1>4. CASE CpuStacked \/ CpuAcknowledged \/ CpuEntersHandler
  BY <1>4 DEF CpuStacked, CpuAcknowledged, CpuEntersHandler, ReachesHandlers
<1>5. CASE CpuExecSetSr \/ CpuExecStore \/ CpuFinishStore \/ CpuExecReti \/ CpuFinishReti
  <2>1. booted /\ booted' = booted
    BY <1>5 DEF CpuExecSetSr, CpuExecStore, CpuFinishStore, CpuExecReti, CpuFinishReti,
                Executing, ReachesHandlers
  <2>. QED  BY <2>1 DEF ReachesHandlers
<1>6. CASE UNCHANGED cpuVars
  BY <1>6 DEF cpuVars, ReachesHandlers
<1>7. CASE DeltaCycle \/ TimePasses \/ PeripheralStep \/ UNCHANGED vars
  <2>1. UNCHANGED cpuVars
    BY <1>7 DEF DeltaCycle, TimePasses, Advance, PeripheralStep, ArbiterStep, PmmStep, TimerStep,
                TimerResetStep, PortStep, PortResetStep, vars
  <2>. QED  BY <1>6, <2>1
<1>8. CASE CpuStep
  BY <1>2, <1>3, <1>4, <1>5, <1>8 DEF CpuStep, CpuOnly, TakeInterrupt, Store
<1>. QED  BY <1>7, <1>8 DEF Next

\* In every behaviour the first instruction after power-up is the one at the reset
\* vector, "Don't execute anything until we get the power-up NMI" (Msp430Cpu.cpp:95).
THEOREM NothingBeforeReset == Spec => []ExecutesOnlyBooted
<1>1. Spec => [](TypeOK /\ Nesting /\ ReachesHandlers)
  BY TypeInit, TypeStep, ReachesInit, ReachesStep, PTL DEF Spec
<1>2. ReachesHandlers => ExecutesOnlyBooted
  BY DEF ReachesHandlers, ExecutesOnlyBooted
<1>. QED  BY <1>1, <1>2, PTL

-----------------------------------------------------------------------------
(* The acknowledgement goes where the vector goes *)

\* The source is told of an acknowledgement, now or in the next delta cycle.
Told(l) == sig.iraOut[l] \/ nxt.iraOut[l]

\* InterruptArbiter::process: only the line on idxOut is told, only while ira is up,
\* and an interrupt announced has its line up.
ArbiterInv ==
    /\ "arbiter" \in run => nxt.idx = sig.idx
    /\ "arbiter" \notin run => (nxt.irq => sig.irqIn[nxt.idx])
    /\ \A l \in Acknowledged : nxt.iraOut[l] => l = nxt.idx /\ l = sig.idx
    /\ "arbiter" \notin run => \A l \in Acknowledged : nxt.iraOut[l] => sig.ira

\* PowerManagementModule::process: power comes with the reset interrupt, and without
\* power no other line moves.
PowerInv ==
    /\ nxt.pwrOn <=> isOn
    /\ "pmm" \in run => nxt.pwrOn = sig.pwrOn
    /\ nxt.pwrOn /\ ~sig.pwrOn => nxt.irqIn[PMM]
    /\ ~sig.pwrOn => \A l \in Lines \ {PMM} : nxt.irqIn[l] = sig.irqIn[l]
    /\ "pmm" \in run /\ pmmPhase = "boot" => ~sig.iraOut[PMM]

\* Msp430Cpu::processInterrupt: ira is up while the CPU waits with it, and until the
\* arbiter has seen it fall idxOut is the line of the vector taken.
CpuInv ==
    /\ nxt.ira <=> phase = "ack"
    /\ sig.ira => phase \in {"ack", "vector"} /\ sig.idx = vector
    /\ phase = "ack" => nxt.idx = vector /\ ("arbiter" \in run => sig.ira)
    /\ \A l \in Acknowledged : Told(l) => vector = l

\* The CPU takes its turn at the start of an instant, when the handshake has come to
\* rest; only the turn that pwrOn wakes comes between delta cycles.
TurnInv ==
    "cpu" \in run =>
        /\ phase # "waitPwr" =>
               /\ "arbiter" \notin run /\ nxt.idx = sig.idx /\ nxt.ira = sig.ira
               /\ \A l \in Acknowledged : Told(l) => sig.ira
        /\ phase = "waitPwr" /\ sig.irq /\ sig.idx = PMM =>
               /\ "arbiter" \notin run /\ nxt.idx = sig.idx
               /\ \A l \in Acknowledged : ~Told(l)

\* The handshake of CPU and arbiter, with the power that interrupts it.
Handshake == ArbiterInv /\ PowerInv /\ CpuInv /\ TurnInv

\* At the start all lines are down.
LEMMA HandshakeInit == Init => Handshake
<1>. SUFFICES ASSUME Init PROVE Handshake
  OBVIOUS
<1>1. /\ sig = SignalInit /\ nxt = SignalInit /\ run = {"arbiter", "pmm", "timer", "port"}
      /\ isOn = FALSE /\ pmmPhase = "watch" /\ phase = "waitPwr"
  BY DEF Init, KernelInit, PmmInit, CpuInit
<1>2. /\ sig.idx = nxt.idx /\ sig.ira = FALSE /\ nxt.ira = FALSE
      /\ sig.pwrOn = FALSE /\ nxt.pwrOn = FALSE /\ sig.irq = FALSE /\ nxt.irq = FALSE
      /\ sig.irqIn = nxt.irqIn /\ \A l \in Acknowledged : ~Told(l)
  BY <1>1 DEF SignalInit, Told
<1>3. ArbiterInv
  BY <1>1, <1>2 DEF ArbiterInv, Told
<1>4. PowerInv
  BY <1>1, <1>2 DEF PowerInv
<1>5. CpuInv /\ TurnInv
  BY <1>1, <1>2 DEF CpuInv, TurnInv
<1>. QED  BY <1>3, <1>4, <1>5 DEF Handshake

\* What the update phase wakes, by the sensitivity lists of the constructors.
LEMMA TriggeredFacts ==
    /\ "arbiter" \in Triggered <=> ArbiterTriggered
    /\ "pmm" \in Triggered <=> PmmTriggered
    /\ "cpu" \in Triggered <=> phase = "waitPwr" /\ Changed("pwrOn") /\ nxt.pwrOn
BY DEF Triggered, Processes

\* The update phase keeps it: a change of ira or of a line wakes the arbiter.
LEMMA HandshakeDelta ==
    ASSUME TypeOK, Handshake, DeltaCycle
    PROVE  Handshake'
<1>1. /\ run = {} /\ sig' = nxt /\ nxt' = nxt /\ run' = Triggered
      /\ UNCHANGED <<isOn, pmmPhase, phase, vector>>
  BY DEF DeltaCycle, Update, pmmVars, cpuVars
<1>2. sig \in Signals /\ nxt \in Signals
  BY DEF TypeOK
<1>3. "arbiter" \notin run' => nxt.ira = sig.ira /\ nxt.irqIn = sig.irqIn
  BY <1>1, TriggeredFacts DEF ArbiterTriggered, Changed
<1>4. ArbiterInv'
  <2>1. "arbiter" \notin run' => (nxt.irq => nxt.irqIn[nxt.idx])
    BY <1>1, <1>3 DEF Handshake, ArbiterInv
  <2>2. \A l \in Acknowledged : nxt.iraOut[l] => l = nxt.idx
    BY DEF Handshake, ArbiterInv
  <2>3. "arbiter" \notin run' => \A l \in Acknowledged : nxt.iraOut[l] => nxt.ira
    BY <1>1, <1>3 DEF Handshake, ArbiterInv
  <2>. QED  BY <1>1, <2>1, <2>2, <2>3 DEF ArbiterInv
<1>5. PowerInv'
  <2>1. "pmm" \in run' => pmmPhase # "boot"
    BY <1>1, TriggeredFacts DEF PmmTriggered
  <2>. QED  BY <1>1, <2>1 DEF Handshake, PowerInv
<1>6. CpuInv'
  <2>1. \A l \in Acknowledged : nxt.iraOut[l] => vector = l
    BY DEF Handshake, CpuInv, Told
  <2>. QED  BY <1>1, <2>1 DEF Handshake, CpuInv, Told
<1>7. TurnInv'
  <2>. SUFFICES ASSUME "cpu" \in run' PROVE TurnInv'
    BY DEF TurnInv
  <2>1. phase = "waitPwr" /\ nxt.pwrOn /\ ~sig.pwrOn
    BY <1>1, <1>2, TriggeredFacts DEF Changed, Signals
  <2>2. ~nxt.ira /\ ~sig.ira
    BY <2>1 DEF Handshake, CpuInv
  <2>3. \A l \in Acknowledged : ~nxt.iraOut[l]
    BY <1>1, <2>2 DEF Handshake, ArbiterInv
  <2>4. ASSUME nxt.irq, nxt.idx = PMM PROVE "arbiter" \notin run'
    <3>1. sig.irqIn[PMM] /\ nxt.irqIn[PMM]
      BY <1>1, <2>1, <2>4 DEF Handshake, ArbiterInv, PowerInv
    <3>2. \A l \in Lines \ {PMM} : nxt.irqIn[l] = sig.irqIn[l]
      BY <2>1 DEF Handshake, PowerInv
    <3>3. nxt.irqIn \in [Lines -> BOOLEAN] /\ sig.irqIn \in [Lines -> BOOLEAN]
      BY <1>2 DEF Signals
    <3>4. \A l \in Lines : nxt.irqIn[l] = sig.irqIn[l]
      BY <3>1, <3>2, <3>3
    <3>5. nxt.irqIn = sig.irqIn
      BY <3>3, <3>4
    <3>6. nxt.ira = sig.ira
      BY <1>2, <2>2 DEF Signals
    <3>. QED  BY <1>1, <3>5, <3>6, TriggeredFacts DEF ArbiterTriggered, Changed
  <2>. QED  BY <1>1, <2>1, <2>3, <2>4 DEF TurnInv, Told
<1>. QED  BY <1>4, <1>5, <1>6, <1>7 DEF Handshake

\* An instant begins with the handshake at rest.
LEMMA HandshakeTime ==
    ASSUME TypeOK, Handshake, TimePasses
    PROVE  Handshake'
<1>. PICK now \in SUBSET Due, pins \in SUBSET Pins, vcc \in Supply :
         Environment(pins, vcc) /\ Advance(now, pins, vcc)
  BY DEF TimePasses
<1>1. /\ run = {} /\ nxt = sig /\ sig' = sig /\ nxt' = [nxt EXCEPT !.vcc = vcc]
      /\ UNCHANGED <<isOn, pmmPhase, phase, vector>>
  BY DEF Advance, Settled, pmmVars, cpuVars
<1>2. sig \in Signals /\ nxt \in Signals
  BY DEF TypeOK
<1>3. /\ nxt'.ira = nxt.ira /\ nxt'.idx = nxt.idx /\ nxt'.irq = nxt.irq /\ nxt'.pwrOn = nxt.pwrOn
      /\ nxt'.iraOut = nxt.iraOut /\ nxt'.irqIn = nxt.irqIn
  BY <1>1, <1>2 DEF Signals
<1>4. /\ "arbiter" \notin run'
      /\ "cpu" \in run' => phase # "waitPwr"
      /\ "pmm" \in run' /\ pmmPhase = "boot" => phase = "waitPwr"
  BY <1>1 DEF Advance, Due, Hears, TimedPhases
<1>5. \A l \in Acknowledged : nxt.iraOut[l] => sig.ira
  BY <1>1 DEF Handshake, ArbiterInv
<1>6. ArbiterInv'
  BY <1>1, <1>3, <1>4 DEF Handshake, ArbiterInv
<1>7. PowerInv'
  <2>1. "pmm" \in run' /\ pmmPhase = "boot" => ~sig.iraOut[PMM]
    BY <1>1, <1>4, <1>5 DEF Handshake, CpuInv, Acknowledged
  <2>2. sig.pwrOn = nxt.pwrOn
    BY <1>1
  <2>. QED  BY <1>1, <1>3, <2>1, <2>2 DEF Handshake, PowerInv
<1>8. CpuInv'
  BY <1>1, <1>3, <1>4 DEF Handshake, CpuInv, Told
<1>9. TurnInv'
  <2>1. nxt'.ira = sig.ira /\ nxt'.idx = sig.idx /\ nxt'.iraOut = sig.iraOut
    BY <1>1, <1>3
  <2>2. \A l \in Acknowledged : sig.iraOut[l] => sig.ira
    BY <1>1, <1>5
  <2>. QED  BY <1>1, <1>4, <2>1, <2>2 DEF TurnInv, Told
<1>. QED  BY <1>6, <1>7, <1>8, <1>9 DEF Handshake

\* The arbiter tells the line on idxOut, and chooses another with ira down only.
LEMMA HandshakeArbiter ==
    ASSUME TypeOK, Handshake, ArbiterStep
    PROVE  Handshake'
<1>1. /\ "arbiter" \in run /\ run' = run \ {"arbiter"} /\ sig' = sig
      /\ UNCHANGED <<isOn, pmmPhase, phase, vector>>
  BY DEF ArbiterStep, ArbiterProcess, Evaluate, pmmVars, cpuVars
<1>2. sig \in Signals /\ nxt \in Signals /\ nxt.idx = sig.idx
  BY <1>1 DEF TypeOK, Handshake, ArbiterInv
<1>3. \A l \in Acknowledged : nxt.iraOut[l] => l = sig.idx
  BY DEF Handshake, ArbiterInv
<1>4. /\ nxt'.ira = nxt.ira /\ nxt'.pwrOn = nxt.pwrOn /\ nxt'.irqIn = nxt.irqIn
  <2>1. CASE Forward
    BY <1>2, <2>1 DEF Forward, Signals
  <2>2. CASE Choose
    BY <1>2, <2>2 DEF Choose, Signals
  <2>. QED  BY <2>1, <2>2 DEF ArbiterStep, ArbiterProcess
\* With ira up: the line on idx is told.
<1>5. CASE sig.ira
  <2>1. /\ nxt'.idx = nxt.idx /\ nxt'.irq = sig.irqIn[sig.idx]
        /\ nxt'.iraOut = Acknowledge(TRUE)
    BY <1>2, <1>5 DEF ArbiterStep, ArbiterProcess, Forward, Signals
  <2>2. \A l \in Acknowledged : nxt'.iraOut[l] => l = sig.idx
    BY <1>3, <2>1 DEF Acknowledge
  <2>3. ArbiterInv'
    BY <1>1, <1>2, <1>5, <2>1, <2>2 DEF ArbiterInv
  <2>4. sig.idx = vector
    BY <1>5 DEF Handshake, CpuInv
  <2>5. CpuInv'
    <3>1. \A l \in Acknowledged : nxt'.iraOut[l] \/ sig.iraOut[l] => vector = l
      BY <2>2, <2>4 DEF Handshake, CpuInv, Told
    <3>. QED  BY <1>1, <1>4, <1>5, <2>1, <3>1 DEF Handshake, CpuInv, Told
  <2>. QED  BY <1>1, <1>4, <2>3, <2>5 DEF Handshake, PowerInv, TurnInv
\* With ira down: nobody is told, and the next line is chosen.
<1>6. CASE ~sig.ira
  <2>1. /\ nxt'.irq = (Pending # {}) /\ nxt'.idx = (IF Pending # {} THEN Chosen ELSE nxt.idx)
        /\ nxt'.iraOut = Acknowledge(FALSE)
    BY <1>2, <1>6 DEF ArbiterStep, ArbiterProcess, Choose, Signals
  <2>2. \A l \in Acknowledged : ~nxt'.iraOut[l]
    BY <1>3, <2>1 DEF Acknowledge
  <2>3. nxt'.irq => sig.irqIn[nxt'.idx]
    BY <1>2, <2>1, ChosenPending DEF Pending
  <2>4. ArbiterInv'
    BY <1>1, <2>2, <2>3 DEF ArbiterInv
  <2>5. phase # "ack"
    BY <1>1, <1>6 DEF Handshake, CpuInv
  <2>6. CpuInv'
    <3>1. \A l \in Acknowledged : nxt'.iraOut[l] \/ sig.iraOut[l] => vector = l
      BY <2>2 DEF Handshake, CpuInv, Told
    <3>. QED  BY <1>1, <1>4, <1>6, <2>5, <3>1 DEF Handshake, CpuInv, Told
  <2>. QED  BY <1>1, <1>4, <2>4, <2>6 DEF Handshake, PowerInv, TurnInv
<1>. QED  BY <1>5, <1>6

\* The power management module raises the reset line with the power.
LEMMA HandshakePmm ==
    ASSUME TypeOK, Handshake, PmmStep
    PROVE  Handshake'
<1>1. /\ "pmm" \in run /\ run' = run \ {"pmm"} /\ sig' = sig
      /\ UNCHANGED <<phase, vector>>
  BY DEF PmmStep, PmmProcess, PmmWatch, PmmBooted, Evaluate, cpuVars
<1>2. sig \in Signals /\ nxt \in Signals /\ isOn \in BOOLEAN
  BY DEF TypeOK, PmmTypeOK
<1>3. ASSUME NEW on, NEW irq, PmmDrive(on, irq)
      PROVE  /\ nxt'.ira = nxt.ira /\ nxt'.irq = nxt.irq /\ nxt'.idx = nxt.idx
             /\ nxt'.iraOut = nxt.iraOut /\ nxt'.pwrOn = on
             /\ nxt'.irqIn[PMM] = Lowered(irq)
             /\ \A l \in Lines \ {PMM} : nxt'.irqIn[l] = nxt.irqIn[l]
  BY <1>2, <1>3 DEF PmmDrive, Signals, Lines
<1>4. /\ nxt'.ira = nxt.ira /\ nxt'.irq = nxt.irq /\ nxt'.idx = nxt.idx
      /\ nxt'.iraOut = nxt.iraOut
      /\ \A l \in Lines \ {PMM} : nxt'.irqIn[l] = nxt.irqIn[l]
  BY <1>3 DEF PmmStep, PmmProcess, PmmWatch, PmmBooted
<1>5. PowerInv'
  <2>1. CASE PmmWatch /\ ~isOn /\ sig.vcc = "high"
    BY <1>1, <2>1 DEF PmmWatch, Handshake, PowerInv
  <2>2. CASE PmmWatch /\ ~(~isOn /\ sig.vcc = "high")
    <3>1. nxt'.pwrOn = isOn' /\ (isOn' => isOn)
      BY <1>3, <2>2 DEF PmmWatch
    <3>2. isOn => sig.pwrOn
      BY <1>1 DEF Handshake, PowerInv
    <3>. QED  BY <1>1, <1>4, <3>1, <3>2 DEF Handshake, PowerInv
  <2>3. CASE PmmBooted
    <3>1. /\ nxt'.pwrOn = TRUE /\ isOn' = TRUE
          /\ nxt'.irqIn[PMM] = Lowered(TRUE) /\ pmmPhase = "boot"
      BY <1>3, <2>3 DEF PmmBooted
    <3>2. ~sig.iraOut[PMM]
      BY <1>1, <3>1 DEF Handshake, PowerInv
    <3>3. nxt'.irqIn[PMM]
      BY <3>1, <3>2 DEF Lowered
    <3>. QED  BY <1>1, <1>4, <3>1, <3>3 DEF Handshake, PowerInv
  <2>. QED  BY <2>1, <2>2, <2>3 DEF PmmStep, PmmProcess
<1>6. ArbiterInv'
  BY <1>1, <1>4 DEF Handshake, ArbiterInv
<1>7. CpuInv' /\ TurnInv'
  BY <1>1, <1>4 DEF Handshake, CpuInv, TurnInv, Told
<1>. QED  BY <1>5, <1>6, <1>7 DEF Handshake

\* Timer_A and the port write to their own line only, and only with power.
LEMMA HandshakeSources ==
    ASSUME TypeOK, Handshake, TimerStep \/ TimerResetStep \/ PortStep \/ PortResetStep
    PROVE  Handshake'
<1>1. /\ sig' = sig /\ UNCHANGED <<isOn, pmmPhase, phase, vector>>
      /\ run' \subseteq run /\ \A p \in {"arbiter", "pmm", "cpu"} : p \in run' <=> p \in run
  BY DEF TimerStep, TimerResetStep, PortStep, PortResetStep, TimerProcess, TimerReset,
         PortProcess, PortReset, Evaluate, pmmVars, cpuVars
<1>2. sig \in Signals /\ nxt \in Signals
  BY DEF TypeOK
<1>3. \/ nxt' = nxt
      \/ sig.pwrOn /\ \E l \in {TIMA, PORT1}, up \in BOOLEAN : nxt' = [nxt EXCEPT !.irqIn[l] = up]
  <2>1. CASE TimerStep
    <3>. DEFINE up == TimerLine(Cleared(Counted(tima)), nxt.irqIn[TIMA])
    <3>1. CASE sig.pwrOn
      <4>1. nxt' = [nxt EXCEPT !.irqIn[TIMA] = up]
        BY <2>1, <3>1 DEF TimerStep, TimerProcess
      <4>2. nxt' \in Signals
        BY <2>1, TimerTypes DEF TimerStep, TypeOK
      <4>. HIDE DEF up
      <4>3. up \in BOOLEAN
        <5>1. nxt'.irqIn[TIMA] = up /\ nxt'.irqIn[TIMA] \in BOOLEAN
          BY <1>2, <4>1, <4>2 DEF Signals, Lines
        <5>. QED  BY <5>1
      <4>. QED  BY <3>1, <4>1, <4>3
    <3>2. CASE ~sig.pwrOn
      BY <2>1, <3>2 DEF TimerStep, TimerProcess
    <3>. QED  BY <3>1, <3>2
  <2>2. CASE PortStep
    <3>. DEFINE up == (paifg' # {})
    <3>1. CASE sig.pwrOn
      <4>1. nxt' = [nxt EXCEPT !.irqIn[PORT1] = up] /\ up \in BOOLEAN
        BY <2>2, <3>1 DEF PortStep, PortProcess
      <4>. HIDE DEF up
      <4>. QED  BY <3>1, <4>1
    <3>2. CASE ~sig.pwrOn
      BY <2>2, <3>2 DEF PortStep, PortProcess
    <3>. QED  BY <3>1, <3>2
  <2>3. CASE TimerResetStep \/ PortResetStep
    BY <2>3 DEF TimerResetStep, PortResetStep, TimerReset, PortReset
  <2>. QED  BY <2>1, <2>2, <2>3
<1>4. /\ nxt'.ira = nxt.ira /\ nxt'.irq = nxt.irq /\ nxt'.idx = nxt.idx
      /\ nxt'.iraOut = nxt.iraOut /\ nxt'.pwrOn = nxt.pwrOn
      /\ nxt'.irqIn[PMM] = nxt.irqIn[PMM]
      /\ ~sig.pwrOn => nxt'.irqIn = nxt.irqIn
  <2>1. CASE nxt' = nxt
    BY <2>1
  <2>2. ASSUME sig.pwrOn, NEW l \in {TIMA, PORT1}, NEW up \in BOOLEAN,
               nxt' = [nxt EXCEPT !.irqIn[l] = up]
        PROVE  /\ nxt'.ira = nxt.ira /\ nxt'.irq = nxt.irq /\ nxt'.idx = nxt.idx
               /\ nxt'.iraOut = nxt.iraOut /\ nxt'.pwrOn = nxt.pwrOn
               /\ nxt'.irqIn[PMM] = nxt.irqIn[PMM]
    BY <1>2, <2>2 DEF Signals, Lines, PMM, TIMA, PORT1
  <2>. QED  BY <1>3, <2>1, <2>2
<1>5. ArbiterInv'
  BY <1>1, <1>4 DEF Handshake, ArbiterInv
<1>6. PowerInv'
  BY <1>1, <1>4 DEF Handshake, PowerInv
<1>7. CpuInv' /\ TurnInv'
  BY <1>1, <1>4 DEF Handshake, CpuInv, TurnInv, Told
<1>. QED  BY <1>5, <1>6, <1>7 DEF Handshake

\* The three things a step of Msp430Cpu::process can do to the handshake: nothing,
Idles ==
    /\ nxt' = nxt /\ vector' = vector
    /\ phase # "ack" /\ phase' \in TimedPhases \cup {"waitPwr"} /\ phase' \notin {"ack", "vector"}

\* raise ira for the line on irqIdx,
Begins ==
    /\ nxt' = [nxt EXCEPT !.ira = TRUE] /\ vector' = sig.idx /\ phase' = "ack"
    /\ phase \notin {"ack", "vector"}
    /\ phase = "waitPwr" => sig.irq /\ sig.idx = PMM

\* or lower it after its two periods.
Ends ==
    /\ nxt' = [nxt EXCEPT !.ira = FALSE] /\ vector' = vector
    /\ phase = "ack" /\ phase' = "vector"

\* A step of the CPU idles, begins an acknowledgement or ends one.
LEMMA CpuMoves ==
    ASSUME TypeOK, CpuStep
    PROVE  /\ "cpu" \in run /\ run' = run \ {"cpu"} /\ sig' = sig
           /\ UNCHANGED <<isOn, pmmPhase>>
           /\ Idles \/ Begins \/ Ends
<1>1. /\ "cpu" \in run /\ run' = run \ {"cpu"} /\ sig' = sig
      /\ UNCHANGED <<isOn, pmmPhase>>
  BY DEF CpuStep, CpuOnly, TakeInterrupt, Store, CpuPowerUp, CpuSleeps, CpuStacked,
         CpuAcknowledged, CpuEntersHandler, CpuExecSetSr, CpuExecStore, CpuFinishStore,
         CpuExecReti, CpuFinishReti, Executing, Evaluate, pmmVars
<1>2. ASSUME NEW enabled, NEW off, NextTurn(enabled, off, nxt), phase \notin {"ack", "vector"}
      PROVE  Idles \/ Begins
  <2>1. CASE TakesReset
    <3>1. nxt' = [nxt EXCEPT !.ira = TRUE] /\ vector' = PMM
      BY <1>2, <2>1 DEF NextTurn
    <3>2. phase' = "ack"
      BY <1>2, <2>1 DEF NextTurn, TakesReset, TakesInterrupt
    <3>. QED  BY <1>2, <2>1, <3>1, <3>2 DEF Begins, TakesReset
  <2>2. CASE ~TakesReset
    <3>1. nxt' = nxt /\ vector' = vector
      BY <1>2, <2>2 DEF NextTurn
    <3>2. phase' \in {"waitPwr", "stack", "sleep", "fetch"}
      <4>1. CASE ~sig.pwrOn
        BY <1>2, <2>2, <4>1 DEF NextTurn, TakesInterrupt
      <4>2. CASE sig.pwrOn /\ TakesInterrupt(enabled)
        BY <1>2, <2>2, <4>2 DEF NextTurn
      <4>3. CASE sig.pwrOn /\ ~TakesInterrupt(enabled)
        BY <1>2, <2>2, <4>3 DEF NextTurn
      <4>. QED  BY <4>1, <4>2, <4>3
    <3>. QED  BY <1>2, <3>1, <3>2 DEF Idles, TimedPhases
  <2>. QED  BY <2>1, <2>2
<1>3. Idles \/ Begins \/ Ends
  <2>1. CASE CpuPowerUp
    BY <1>2, <2>1 DEF CpuPowerUp
  <2>2. CASE CpuSleeps
    BY <1>2, <2>2 DEF CpuSleeps
  <2>3. CASE CpuStacked
    BY <2>3 DEF CpuStacked, Begins
  <2>4. CASE CpuAcknowledged
    BY <2>4 DEF CpuAcknowledged, Ends
  <2>5. CASE CpuEntersHandler \/ CpuExecStore \/ CpuExecReti
    BY <2>5 DEF CpuEntersHandler, CpuExecStore, CpuExecReti, Executing, Idles, TimedPhases
  <2>6. CASE CpuExecSetSr
    BY <1>2, <2>6 DEF CpuExecSetSr, Executing
  <2>7. CASE CpuFinishStore
    BY <1>2, <2>7 DEF CpuFinishStore
  <2>8. CASE CpuFinishReti
    BY <1>2, <2>8 DEF CpuFinishReti
  <2>. QED  BY <2>1, <2>2, <2>3, <2>4, <2>5, <2>6, <2>7, <2>8
            DEF CpuStep, CpuOnly, TakeInterrupt, Store
<1>. QED  BY <1>1, <1>3

\* The CPU raises ira with the handshake at rest, so idxOut is the line it takes.
LEMMA HandshakeCpu ==
    ASSUME TypeOK, Handshake, CpuStep
    PROVE  Handshake'
<1>1. /\ "cpu" \in run /\ run' = run \ {"cpu"} /\ sig' = sig
      /\ UNCHANGED <<isOn, pmmPhase>>
      /\ Idles \/ Begins \/ Ends
  BY CpuMoves
<1>2. sig \in Signals /\ nxt \in Signals
  BY DEF TypeOK
<1>3. /\ nxt'.irq = nxt.irq /\ nxt'.idx = nxt.idx /\ nxt'.iraOut = nxt.iraOut
      /\ nxt'.pwrOn = nxt.pwrOn /\ nxt'.irqIn = nxt.irqIn
      /\ nxt'.ira = IF Begins THEN TRUE ELSE IF Ends THEN FALSE ELSE nxt.ira
  BY <1>1, <1>2 DEF Idles, Begins, Ends, Signals
<1>4. ArbiterInv'
  BY <1>1, <1>3 DEF Handshake, ArbiterInv
<1>5. PowerInv'
  BY <1>1, <1>3 DEF Handshake, PowerInv
<1>6. TurnInv'
  BY <1>1 DEF TurnInv
<1>7. CpuInv'
  <2>1. CASE Idles
    <3>1. ~nxt.ira /\ ~sig.ira
      BY <1>1, <2>1 DEF Idles, Handshake, CpuInv, TurnInv
    <3>. QED  BY <1>1, <2>1, <3>1 DEF Idles, Handshake, CpuInv, Told
  <2>2. CASE Begins
    <3>1. nxt'.ira /\ ~sig.ira
      BY <1>3, <2>2 DEF Begins, Handshake, CpuInv
    <3>2. /\ "arbiter" \notin run /\ nxt.idx = sig.idx
          /\ \A l \in Acknowledged : ~Told(l)
      BY <1>1, <2>2, <3>1 DEF Begins, Handshake, TurnInv
    <3>. QED  BY <1>1, <1>3, <2>2, <3>1, <3>2 DEF Begins, CpuInv, Told
  <2>3. CASE Ends
    <3>1. ~nxt'.ira
      BY <1>3, <2>3 DEF Begins, Ends
    <3>. QED  BY <1>1, <1>3, <2>3, <3>1 DEF Ends, Handshake, CpuInv, Told
  <2>. QED  BY <1>1, <2>1, <2>2, <2>3
<1>. QED  BY <1>4, <1>5, <1>6, <1>7 DEF Handshake

\* Every step keeps the handshake.
LEMMA HandshakeStep == TypeOK /\ Handshake /\ [Next]_vars => Handshake'
<1>. SUFFICES ASSUME TypeOK, Handshake, [Next]_vars PROVE Handshake'
  OBVIOUS
<1>1. CASE UNCHANGED vars
  BY <1>1 DEF vars, kernelVars, pmmVars, cpuVars, Handshake, ArbiterInv, PowerInv, CpuInv,
              TurnInv, Told
<1>. QED  BY <1>1, HandshakeDelta, HandshakeTime, HandshakeArbiter, HandshakePmm,
             HandshakeSources, HandshakeCpu DEF Next, PeripheralStep

\* In every behaviour the source that is told its request was accepted is the one whose
\* vector is taken, although the CPU reads irqIdx again after the stacking
\* (Msp430Cpu.cpp:202, InterruptArbiter.hpp:67).
THEOREM AcknowledgesTheVector == Spec => []AckMatchesVector
<1>1. Spec => [](TypeOK /\ Nesting /\ Handshake)
  BY TypeInit, TypeStep, HandshakeInit, HandshakeStep, PTL DEF Spec
<1>2. Handshake => AckMatchesVector
  BY DEF Handshake, CpuInv, Told, AckMatchesVector
<1>. QED  BY <1>1, <1>2, PTL

-----------------------------------------------------------------------------
(* No expiry is lost *)

\* The arbiter changes iraOut once per change of ira, before the CPU's next turn.
Tells ==
    /\ "arbiter" \in run => nxt.iraOut = sig.iraOut
    /\ "cpu" \in run /\ phase # "waitPwr" => nxt.iraOut = sig.iraOut
    /\ sig.ira /\ phase = "vector" => "arbiter" \notin run /\ nxt.iraOut = sig.iraOut

\* An expiry that is owed has its flag set, its interrupt enabled and its line up, and
\* nobody has told the timer otherwise (TimerA.cpp:143).
KeepsExpiry ==
    expiryOwed =>
        /\ tima.taifg /\ ~tima.taclr /\ IrqEnabled(tima)
        /\ nxt.irqIn[TIMA] /\ ~Told(TIMA)
        /\ ~(phase = "ack" /\ vector = TIMA)

\* At the start nobody is told and nothing is owed.
LEMMA TellsInit == Init => Tells /\ KeepsExpiry
BY DEF Init, KernelInit, CpuInit, Tells, KeepsExpiry

\* Every step keeps the arbiter's turn before the CPU's.
LEMMA TellsStep == TypeOK /\ Handshake /\ Tells /\ [Next]_vars => Tells'
<1>. SUFFICES ASSUME TypeOK, Handshake, Tells, [Next]_vars PROVE Tells'
  OBVIOUS
<1>1. sig \in Signals /\ nxt \in Signals
  BY DEF TypeOK
<1>2. CASE DeltaCycle
  <2>1. sig' = nxt /\ nxt' = nxt /\ phase' = phase
    BY <1>2 DEF DeltaCycle, Update, cpuVars
  <2>2. nxt.ira => phase # "vector"
    BY DEF Handshake, CpuInv
  <2>. QED  BY <2>1, <2>2 DEF Tells
<1>3. CASE TimePasses
  <2>. PICK now \in SUBSET Due, pins \in SUBSET Pins, vcc \in Supply :
           Environment(pins, vcc) /\ Advance(now, pins, vcc)
    BY <1>3 DEF TimePasses
  <2>1. nxt = sig /\ sig' = sig /\ nxt' = [nxt EXCEPT !.vcc = vcc] /\ phase' = phase
    BY DEF Advance, Settled, cpuVars
  <2>2. nxt'.iraOut = sig'.iraOut
    BY <1>1, <2>1 DEF Signals
  <2>3. sig.ira => phase # "vector"
    BY <2>1 DEF Handshake, CpuInv
  <2>. QED  BY <2>1, <2>2, <2>3 DEF Tells
<1>4. CASE ArbiterStep
  <2>1. "arbiter" \in run /\ run' = run \ {"arbiter"} /\ sig' = sig /\ phase' = phase
    BY <1>4 DEF ArbiterStep, ArbiterProcess, Evaluate, cpuVars
  <2>2. "cpu" \in run => phase = "waitPwr"
    BY <2>1 DEF Handshake, TurnInv
  <2>. QED  BY <2>1, <2>2 DEF Tells
<1>5. CASE PmmStep
  <2>1. sig' = sig /\ phase' = phase /\ run' \subseteq run
    BY <1>5 DEF PmmStep, PmmProcess, PmmWatch, PmmBooted, Evaluate, cpuVars
  <2>2. nxt'.iraOut = nxt.iraOut
    BY <1>1, <1>5 DEF PmmStep, PmmProcess, PmmWatch, PmmBooted, PmmDrive, Signals
  <2>. QED  BY <2>1, <2>2 DEF Tells
<1>6. CASE TimerStep \/ TimerResetStep \/ PortStep \/ PortResetStep
  <2>1. sig' = sig /\ phase' = phase /\ run' \subseteq run
    BY <1>6 DEF TimerStep, TimerResetStep, PortStep, PortResetStep, TimerProcess, TimerReset,
                PortProcess, PortReset, Evaluate, cpuVars
  <2>2. nxt'.iraOut = nxt.iraOut
    <3>1. CASE TimerStep
      BY <1>1, <3>1 DEF TimerStep, TimerProcess, Signals
    <3>2. CASE PortStep
      BY <1>1, <3>2 DEF PortStep, PortProcess, Signals
    <3>3. CASE TimerResetStep \/ PortResetStep
      BY <3>3 DEF TimerResetStep, PortResetStep, TimerReset, PortReset
    <3>. QED  BY <1>6, <3>1, <3>2, <3>3
  <2>. QED  BY <2>1, <2>2 DEF Tells
<1>7. CASE CpuStep
  <2>1. /\ "cpu" \in run /\ run' = run \ {"cpu"} /\ sig' = sig
        /\ Idles \/ Begins \/ Ends
    BY <1>7, CpuMoves
  <2>2. nxt'.iraOut = nxt.iraOut
    BY <1>1, <2>1 DEF Idles, Begins, Ends, Signals
  <2>3. phase' = "vector" => Ends
    BY <2>1 DEF Idles, Begins
  <2>4. Ends => "arbiter" \notin run /\ nxt.iraOut = sig.iraOut
    BY <2>1 DEF Ends, Handshake, TurnInv, Tells
  <2>. QED  BY <2>1, <2>2, <2>3, <2>4 DEF Tells
<1>8. CASE UNCHANGED vars
  BY <1>8 DEF vars, kernelVars, cpuVars, Tells
<1>. QED  BY <1>2, <1>3, <1>4, <1>5, <1>6, <1>7, <1>8 DEF Next, PeripheralStep

\* Counting leaves the control bits alone and does not clear TAIFG, TimerA.cpp:90.
LEMMA CountedKeeps ==
    ASSUME NEW t \in TimerRegisters
    PROVE  /\ Counted(t) \in TimerRegisters
           /\ Counted(t).taclr = t.taclr
           /\ Counted(t).taie = t.taie /\ Counted(t).ccie = t.ccie
           /\ t.taifg => Counted(t).taifg
<1>. DEFINE Keeps(u) == /\ u.taclr = t.taclr /\ u.taie = t.taie /\ u.ccie = t.ccie
                        /\ t.taifg => u.taifg
<1>1. ASSUME NEW top PROVE Keeps(CountsTo(t, top))
  BY DEF CountsTo, TimerRegisters
<1>2. Keeps(Swing(t)) /\ DOMAIN Swing(t) = DOMAIN t /\ "taifg" \in DOMAIN t
  BY DEF Swing, TimerRegisters
<1>3. Keeps(CountsUpDown(t))
  <2>1. ASSUME NEW s, Keeps(s), DOMAIN s = DOMAIN t PROVE Keeps([s EXCEPT !.taifg = TRUE])
    BY <1>2, <2>1 DEF TimerRegisters
  <2>2. Keeps([Swing(t) EXCEPT !.taifg = TRUE])
    <3>. HIDE DEF Keeps
    <3>. QED  BY <1>2, <2>1
  <2>3. CountsUpDown(t) = Swing(t) \/ CountsUpDown(t) = [Swing(t) EXCEPT !.taifg = TRUE]
    BY DEF CountsUpDown
  <2>. HIDE DEF Keeps
  <2>4. CASE CountsUpDown(t) = Swing(t)
    BY <1>2, <2>4
  <2>5. CASE CountsUpDown(t) = [Swing(t) EXCEPT !.taifg = TRUE]
    BY <2>2, <2>5
  <2>. QED  BY <2>3, <2>4, <2>5
<1>4. t.mode \in 0..3
  <2>1. t.mode \in Modes \cup {0}
    BY DEF TimerRegisters
  <2>2. Modes \subseteq 0..3 /\ 0 \in 0..3
    BY TimerAssumption
  <2>. QED  BY <2>1, <2>2
<1>5. Keeps(Counted(t))
  <2>1. CASE t.mode = 0
    BY <2>1 DEF Counted
  <2>2. CASE t.mode = 1
    <3>1. Counted(t) = CountsTo(t, t.ccr0)
      BY <2>2 DEF Counted
    <3>. HIDE DEF Keeps
    <3>. QED  BY <1>1, <3>1
  <2>3. CASE t.mode = 2
    <3>1. Counted(t) = CountsTo(t, CountMax)
      BY <2>3 DEF Counted
    <3>. HIDE DEF Keeps
    <3>. QED  BY <1>1, <3>1
  <2>4. CASE t.mode = 3
    <3>1. Counted(t) = CountsUpDown(t)
      BY <2>4 DEF Counted
    <3>. HIDE DEF Keeps
    <3>. QED  BY <1>3, <3>1
  <2>. HIDE DEF Keeps
  <2>. QED  BY <1>4, <2>1, <2>2, <2>3, <2>4
<1>. QED  BY <1>5, CountedType

\* A run of process() that keeps or sets an enabled flag, unacknowledged.
LEMMA TimerKeeps ==
    ASSUME sig \in Signals, nxt \in Signals, tima \in TimerRegisters, TimerProcess,
           ~sig.iraOut[TIMA],
           \/ tima.taifg /\ ~tima.taclr /\ IrqEnabled(tima) /\ nxt.irqIn[TIMA]
           \/ Expires
    PROVE  /\ tima'.taifg /\ ~tima'.taclr /\ IrqEnabled(tima') /\ nxt'.irqIn[TIMA]
           /\ nxt'.iraOut = nxt.iraOut
<1>1. CASE sig.pwrOn
  <2>. DEFINE c == Counted(tima)
              t == Cleared(c)
  <2>1. /\ c \in TimerRegisters /\ c.taclr = tima.taclr
        /\ c.taie = tima.taie /\ c.ccie = tima.ccie /\ (tima.taifg => c.taifg)
    BY CountedKeeps
  <2>2. /\ tima' = [t EXCEPT !.taifg = Flagged(t)]
        /\ nxt' = [nxt EXCEPT !.irqIn[TIMA] = TimerLine(t, nxt.irqIn[TIMA])]
    BY <1>1 DEF TimerProcess
  <2>3. Expires => t.taifg /\ IrqEnabled(t)
    BY DEF Expires
  <2>. HIDE DEF c
  <2>4. t \in TimerRegisters /\ t.taifg /\ ~t.taclr /\ IrqEnabled(t)
    <3>1. CASE c.taclr
      BY <2>1, <2>3, <3>1 DEF Cleared, TimerRegisters
    <3>2. CASE ~c.taclr
      <4>1. t = c
        BY <3>2 DEF Cleared
      <4>. QED  BY <2>1, <2>3, <3>2, <4>1 DEF IrqEnabled
    <3>. QED  BY <3>1, <3>2
  <2>. HIDE DEF t
  <2>5. Flagged(t) = TRUE
    BY <2>4 DEF Flagged, TimerRegisters
  <2>6. TimerLine(t, nxt.irqIn[TIMA]) = TRUE
    BY <2>4 DEF TimerLine, TimerRegisters
  <2>7. tima' = [t EXCEPT !.taifg = TRUE] /\ nxt' = [nxt EXCEPT !.irqIn[TIMA] = TRUE]
    BY <2>2, <2>5, <2>6
  <2>8. tima'.taifg /\ ~tima'.taclr /\ IrqEnabled(tima')
    BY <2>4, <2>7 DEF TimerRegisters, IrqEnabled
  <2>9. nxt'.irqIn[TIMA] /\ nxt'.iraOut = nxt.iraOut
    BY <2>7 DEF Signals, Lines
  <2>. QED  BY <2>8, <2>9
<1>2. CASE ~sig.pwrOn
  BY <1>2 DEF TimerProcess, Expires
<1>. QED  BY <1>1, <1>2

\* The CPU turns to the timer's vector in CpuStacked only: NextTurn takes the reset.
LEMMA TakesTimer ==
    ASSUME TypeOK, CpuStep, phase' = "ack"
    PROVE  TakeInterrupt \/ vector' = PMM
<1>1. ASSUME NEW enabled, NEW off, NextTurn(enabled, off, nxt) PROVE vector' = PMM
  <2>1. TakesReset
    <3>. SUFFICES ASSUME ~TakesReset PROVE FALSE
      OBVIOUS
    <3>1. CASE ~sig.pwrOn
      BY <1>1, <3>1 DEF NextTurn
    <3>2. CASE sig.pwrOn /\ TakesInterrupt(enabled)
      BY <1>1, <3>2 DEF NextTurn
    <3>3. CASE sig.pwrOn /\ ~TakesInterrupt(enabled)
      BY <1>1, <3>3 DEF NextTurn
    <3>. QED  BY <3>1, <3>2, <3>3
  <2>. QED  BY <1>1, <2>1 DEF NextTurn
<1>2. ~CpuAcknowledged /\ ~CpuEntersHandler /\ ~CpuExecStore /\ ~CpuExecReti
  BY DEF CpuAcknowledged, CpuEntersHandler, CpuExecStore, CpuExecReti
<1>. QED  BY <1>1, <1>2 DEF CpuStep, CpuOnly, CpuPowerUp, CpuSleeps, CpuExecSetSr, Store,
                            CpuFinishStore, CpuFinishReti

\* Every step keeps the flag: only an acknowledgement of the timer's own vector, a write
\* or a reset clears it (TimerA.cpp:143).
LEMMA KeepsExpiryStep ==
    TypeOK /\ Handshake /\ Tells /\ KeepsExpiry /\ [Next]_vars => KeepsExpiry'
<1>. SUFFICES ASSUME TypeOK, Handshake, Tells, KeepsExpiry, [Next]_vars, expiryOwed'
              PROVE  /\ tima'.taifg /\ ~tima'.taclr /\ IrqEnabled(tima')
                     /\ nxt'.irqIn[TIMA] /\ ~Told(TIMA)'
                     /\ ~(phase' = "ack" /\ vector' = TIMA)
  BY DEF KeepsExpiry, IrqEnabled, Told
<1>1. sig \in Signals /\ nxt \in Signals /\ tima \in TimerRegisters
  BY DEF TypeOK, TimerTypeOK
<1>. DEFINE Kept == /\ tima.taifg /\ ~tima.taclr /\ IrqEnabled(tima)
                    /\ nxt.irqIn[TIMA] /\ ~sig.iraOut[TIMA] /\ ~nxt.iraOut[TIMA]
                    /\ ~(phase = "ack" /\ vector = TIMA)
<1>2. expiryOwed => Kept
  BY DEF KeepsExpiry, Told
<1>3. CASE DeltaCycle \/ TimePasses \/ UNCHANGED vars
  <2>1. expiryOwed' = expiryOwed /\ UNCHANGED <<tima, phase, vector>>
    BY <1>3 DEF DeltaCycle, TimePasses, Advance, vars, timaVars, cpuVars, historyVars
  <2>2. /\ nxt'.irqIn = nxt.irqIn /\ nxt'.iraOut = nxt.iraOut
        /\ sig'.iraOut \in {sig.iraOut, nxt.iraOut}
    BY <1>1, <1>3 DEF DeltaCycle, Update, TimePasses, Advance, vars, kernelVars, Signals
  <2>. QED  BY <1>2, <2>1, <2>2 DEF Told, IrqEnabled
<1>4. CASE ArbiterStep
  <2>1. /\ "arbiter" \in run /\ sig' = sig
        /\ expiryOwed' = expiryOwed /\ UNCHANGED <<tima, phase, vector>>
    BY <1>4 DEF ArbiterStep, ArbiterProcess, Evaluate, timaVars, cpuVars, historyVars
  <2>2. sig.ira => sig.idx # TIMA
    BY <1>2, <2>1 DEF Handshake, CpuInv, Tells
  <2>3. nxt'.irqIn = nxt.irqIn /\ ~nxt'.iraOut[TIMA]
    <3>1. CASE sig.ira
      <4>1. nxt'.irqIn = nxt.irqIn /\ nxt'.iraOut = Acknowledge(TRUE)
        BY <1>1, <1>4, <3>1 DEF ArbiterStep, ArbiterProcess, Forward, Signals
      <4>. QED  BY <1>2, <2>1, <2>2, <3>1, <4>1 DEF Acknowledge, Acknowledged
    <3>2. CASE ~sig.ira
      <4>1. nxt'.irqIn = nxt.irqIn /\ nxt'.iraOut = Acknowledge(FALSE)
        BY <1>1, <1>4, <3>2 DEF ArbiterStep, ArbiterProcess, Choose, Signals
      <4>. QED  BY <1>2, <2>1, <4>1 DEF Acknowledge, Acknowledged
    <3>. QED  BY <3>1, <3>2
  <2>. QED  BY <1>2, <2>1, <2>3 DEF Told, IrqEnabled
<1>5. CASE PmmStep
  <2>1. sig' = sig /\ expiryOwed' = expiryOwed /\ UNCHANGED <<tima, phase, vector>>
    BY <1>5 DEF PmmStep, PmmProcess, PmmWatch, PmmBooted, timaVars, cpuVars, historyVars
  <2>2. ASSUME NEW on, NEW irq, PmmDrive(on, irq)
        PROVE  nxt'.irqIn[TIMA] = nxt.irqIn[TIMA] /\ nxt'.iraOut = nxt.iraOut
    BY <1>1, <2>2 DEF PmmDrive, Signals, Lines, PMM, TIMA
  <2>3. nxt'.irqIn[TIMA] = nxt.irqIn[TIMA] /\ nxt'.iraOut = nxt.iraOut
    BY <1>5, <2>2 DEF PmmStep, PmmProcess, PmmWatch, PmmBooted
  <2>. QED  BY <1>2, <2>1, <2>3 DEF Told, IrqEnabled
<1>6. CASE TimerStep
  <2>1. TimerProcess /\ sig' = sig /\ UNCHANGED <<phase, vector>>
    BY <1>6 DEF TimerStep, TimerProcess, cpuVars
  <2>2. \/ expiryOwed
        \/ Expires /\ ~sig.iraOut[TIMA] /\ ~(phase = "ack" /\ vector = TIMA)
    BY <1>6 DEF TimerStep
  <2>3. ~sig.iraOut[TIMA] /\ ~(phase = "ack" /\ vector = TIMA)
    BY <1>2, <2>2
  <2>4. ~nxt.iraOut[TIMA]
    <3>. SUFFICES ASSUME nxt.iraOut[TIMA] PROVE FALSE
      OBVIOUS
    <3>1. nxt.iraOut # sig.iraOut /\ TIMA \in Acknowledged
      BY <2>3 DEF Acknowledged
    <3>2. "arbiter" \notin run
      BY <3>1 DEF Tells
    <3>3. sig.ira
      BY <3>1, <3>2 DEF Handshake, ArbiterInv
    <3>4. vector = TIMA
      BY <3>1 DEF Handshake, CpuInv, Told
    <3>5. phase = "vector"
      BY <2>3, <3>3, <3>4 DEF Handshake, CpuInv
    <3>. QED  BY <3>1, <3>3, <3>5 DEF Tells
  <2>5. /\ tima'.taifg /\ ~tima'.taclr /\ IrqEnabled(tima') /\ nxt'.irqIn[TIMA]
        /\ nxt'.iraOut = nxt.iraOut
    BY <1>1, <1>2, <2>1, <2>2, <2>3, TimerKeeps
  <2>. QED  BY <2>1, <2>3, <2>4, <2>5 DEF Told
<1>7. CASE TimerResetStep
  BY <1>7 DEF TimerResetStep
<1>8. CASE PortStep \/ PortResetStep
  <2>1. sig' = sig /\ expiryOwed' = expiryOwed /\ UNCHANGED <<tima, phase, vector>>
    BY <1>8 DEF PortStep, PortResetStep, PortProcess, PortReset, timaVars, cpuVars
  <2>2. nxt'.irqIn[TIMA] = nxt.irqIn[TIMA] /\ nxt'.iraOut = nxt.iraOut
    <3>. DEFINE up == (paifg' # {})
    <3>1. nxt' = nxt \/ nxt' = [nxt EXCEPT !.irqIn[PORT1] = up]
      BY <1>8 DEF PortStep, PortResetStep, PortProcess, PortReset
    <3>. HIDE DEF up
    <3>. QED  BY <1>1, <3>1 DEF Signals, Lines, TIMA, PORT1
  <2>. QED  BY <1>2, <2>1, <2>2 DEF Told, IrqEnabled
<1>9. CASE CpuStep
  <2>1. sig' = sig /\ (Idles \/ Begins \/ Ends)
    BY <1>9, CpuMoves
  <2>2. nxt'.irqIn = nxt.irqIn /\ nxt'.iraOut = nxt.iraOut
    BY <1>1, <2>1 DEF Idles, Begins, Ends, Signals
  <2>3. expiryOwed /\ UNCHANGED tima /\ (TakeInterrupt => vector' # TIMA)
    BY <1>9 DEF CpuStep, CpuOnly, TakeInterrupt, Store, StoreTimer, StorePort, timaVars, historyVars
  <2>4. ~(phase' = "ack" /\ vector' = TIMA)
    BY <1>9, <2>3, TakesTimer DEF PMM, TIMA
  <2>. QED  BY <1>2, <2>1, <2>2, <2>3, <2>4 DEF Told, IrqEnabled
<1>. QED  BY <1>3, <1>4, <1>5, <1>6, <1>7, <1>8, <1>9 DEF Next, PeripheralStep

\* In every behaviour an enabled expiry keeps the timer's line up until the CPU takes it
\* or the program writes to the timer (TimerA::process, InterruptArbiter::process).
THEOREM NoExpiryLost == Spec => []NoLostExpiry
<1>1. Spec => [](TypeOK /\ Nesting /\ Handshake /\ Tells /\ KeepsExpiry)
  BY TypeInit, TypeStep, HandshakeInit, HandshakeStep, TellsInit, TellsStep, KeepsExpiryStep, PTL
     DEF Spec
<1>2. KeepsExpiry => NoLostExpiry
  BY DEF KeepsExpiry, NoLostExpiry
<1>. QED  BY <1>1, <1>2, PTL


-----------------------------------------------------------------------------
(* The timer's vector is taken once per request *)

\* Nobody is told of an acknowledgement unless one is going on, an interrupt is
\* announced as the arbiter left it when the CPU takes its turn, and between them the
\* lines of Timer_A and the port outrank the reset (InterruptArbiter.hpp:82).
Announces ==
    /\ phase \notin {"ack", "vector"} => \A l \in Acknowledged : ~Told(l)
    /\ "cpu" \in run /\ phase # "waitPwr" => nxt.irq = sig.irq
    /\ "arbiter" \notin run /\ sig.irqIn[TIMA] /\ ~sig.ira => nxt.idx # PMM

\* Power comes back only to a CPU that waits for it: the boot trace is longer than an
\* instruction (PowerManagementModule.cpp:100).
Waits ==
    ("pmm" \in run /\ pmmPhase = "boot") \/ (nxt.pwrOn /\ ~sig.pwrOn) =>
        phase = "waitPwr" /\ "cpu" \notin run

\* A line that was acknowledged while the timer had no power stays up.  The program
\* runs to the end of its instruction without power, then waits for power; and when
\* it comes, the line hides the reset interrupt, so the CPU sleeps with GIE clear.
LeftUp ==
    /\ sig.irqIn[TIMA]
    /\ \/ phase = "waitPwr"
       \/ phase \in {"ack", "vector", "fetch", "store", "reti"} /\ ~sig.pwrOn
       \/ phase = "sleep" /\ ~gie /\ cpuoff

\* The timer is about to hear an acknowledgement.
Hearing == "timer" \in run /\ sig.iraOut[TIMA]

\* Behind a flag, a line that is up and a vector about to be taken is an expiry since
\* the last acknowledgement the timer heard (TimerA.cpp:143).
RequestInv ==
    /\ tima.taifg /\ ~sig.pwrOn => "timerReset" \in run
    /\ tima.taifg => requested \/ Hearing \/ ~sig.pwrOn
    /\ nxt.irqIn[TIMA] => requested \/ Hearing \/ LeftUp
    /\ sig.irqIn[TIMA] => requested \/ sig.iraOut[TIMA] \/ LeftUp
    /\ phase = "stack" /\ nxt.idx = TIMA => requested

\* Timer_A and the port outrank the reset in the arbiter's scan.
LEMMA HidesReset ==
    ASSUME sig \in Signals, sig.irqIn[TIMA]
    PROVE  Pending # {} /\ Chosen # PMM
<1>1. TIMA \in Pending /\ Pending \subseteq {PMM, TIMA, PORT1}
  BY DEF Pending, Lines
<1>2. PICK l \in Pending : \A k \in Pending : k <= l
  <2>1. CASE PORT1 \in Pending
    BY <1>1, <2>1 DEF PMM, TIMA, PORT1
  <2>2. CASE PORT1 \notin Pending
    BY <1>1, <2>2 DEF PMM, TIMA, PORT1
  <2>. QED  BY <2>1, <2>2
<1>3. Chosen \in Pending /\ TIMA <= Chosen
  BY <1>1, <1>2 DEF Chosen
<1>. QED  BY <1>1, <1>3 DEF PMM, TIMA

\* Timer_A, the port and the resets touch no signal but the lines of the two.
LEMMA SourcesKeep ==
    ASSUME TypeOK, TimerStep \/ TimerResetStep \/ PortStep \/ PortResetStep
    PROVE  /\ sig' = sig /\ UNCHANGED <<phase, vector, gie, cpuoff, pmmPhase, isOn>>
           /\ run' \subseteq run
           /\ \A p \in {"arbiter", "pmm", "cpu"} : p \in run' <=> p \in run
           /\ nxt'.iraOut = nxt.iraOut /\ nxt'.irq = nxt.irq /\ nxt'.idx = nxt.idx
           /\ nxt'.ira = nxt.ira /\ nxt'.pwrOn = nxt.pwrOn
<1>1. /\ sig' = sig /\ UNCHANGED <<phase, vector, gie, cpuoff, pmmPhase, isOn>>
      /\ run' \subseteq run
      /\ \A p \in {"arbiter", "pmm", "cpu"} : p \in run' <=> p \in run
  BY DEF TimerStep, TimerResetStep, PortStep, PortResetStep, TimerProcess, TimerReset,
         PortProcess, PortReset, Evaluate, cpuVars, pmmVars
<1>2. nxt \in Signals
  BY DEF TypeOK
<1>3. \/ nxt' = nxt
      \/ \E l, up : nxt' = [nxt EXCEPT !.irqIn[l] = up]
  BY DEF TimerStep, TimerResetStep, PortStep, PortResetStep, TimerProcess, TimerReset,
         PortProcess, PortReset
<1>4. /\ nxt'.iraOut = nxt.iraOut /\ nxt'.irq = nxt.irq /\ nxt'.idx = nxt.idx
      /\ nxt'.ira = nxt.ira /\ nxt'.pwrOn = nxt.pwrOn
  BY <1>2, <1>3 DEF Signals
<1>. QED  BY <1>1, <1>4

\* The power management module drives pwrOn and its own line.
LEMMA PmmKeeps ==
    ASSUME TypeOK, PmmStep
    PROVE  /\ "pmm" \in run /\ run' = run \ {"pmm"} /\ sig' = sig
           /\ UNCHANGED <<phase, vector, gie, cpuoff, tima, requested>>
           /\ nxt'.iraOut = nxt.iraOut /\ nxt'.irq = nxt.irq /\ nxt'.idx = nxt.idx
           /\ nxt'.ira = nxt.ira /\ nxt'.irqIn[TIMA] = nxt.irqIn[TIMA]
           /\ nxt'.pwrOn => nxt.pwrOn \/ isOn \/ pmmPhase = "boot"
<1>1. /\ "pmm" \in run /\ run' = run \ {"pmm"} /\ sig' = sig
      /\ UNCHANGED <<phase, vector, gie, cpuoff, tima, requested>>
  BY DEF PmmStep, PmmProcess, PmmWatch, PmmBooted, Evaluate, cpuVars, timaVars, historyVars
<1>2. nxt \in Signals
  BY DEF TypeOK
<1>3. ASSUME NEW on, NEW irq, PmmDrive(on, irq)
      PROVE  /\ nxt'.iraOut = nxt.iraOut /\ nxt'.irq = nxt.irq /\ nxt'.idx = nxt.idx
             /\ nxt'.ira = nxt.ira /\ nxt'.irqIn[TIMA] = nxt.irqIn[TIMA]
             /\ nxt'.pwrOn = on
  BY <1>2, <1>3 DEF PmmDrive, Signals, Lines, PMM, TIMA
<1>4. CASE PmmBooted
  BY <1>1, <1>3, <1>4 DEF PmmBooted
<1>5. CASE PmmWatch /\ UNCHANGED nxt
  BY <1>1, <1>5
<1>6. CASE PmmWatch /\ PmmDrive(isOn', nxt.irqIn[PMM]) /\ isOn' = (isOn /\ sig.vcc # "low")
  BY <1>1, <1>3, <1>6
<1>7. PmmWatch => \/ UNCHANGED nxt
                  \/ PmmDrive(isOn', nxt.irqIn[PMM]) /\ isOn' = (isOn /\ sig.vcc # "low")
  BY DEF PmmWatch
<1>. QED  BY <1>4, <1>5, <1>6, <1>7 DEF PmmStep, PmmProcess

\* What the arbiter's turn does to the signals.
LEMMA ArbiterWrites ==
    ASSUME TypeOK, ArbiterStep
    PROVE  /\ "arbiter" \in run /\ run' = run \ {"arbiter"} /\ sig' = sig
           /\ UNCHANGED <<phase, vector, gie, cpuoff, pmmPhase, isOn, tima, requested>>
           /\ nxt'.irqIn = nxt.irqIn /\ nxt'.pwrOn = nxt.pwrOn /\ nxt'.ira = nxt.ira
           /\ nxt'.iraOut = Acknowledge(sig.ira)
           /\ ~sig.ira => nxt'.idx = IF Pending # {} THEN Chosen ELSE nxt.idx
<1>1. nxt \in Signals
  BY DEF TypeOK
<1>2. /\ "arbiter" \in run /\ run' = run \ {"arbiter"} /\ sig' = sig
      /\ UNCHANGED <<phase, vector, gie, cpuoff, pmmPhase, isOn, tima, requested>>
  BY DEF ArbiterStep, ArbiterProcess, Evaluate, cpuVars, pmmVars, timaVars, historyVars
<1>. DEFINE irq == Pending # {}
            idx == IF Pending # {} THEN Chosen ELSE nxt.idx
<1>3. CASE sig.ira
  <2>1. sig.ira = TRUE
    BY <1>3 DEF TypeOK, Signals
  <2>. QED  BY <1>1, <1>2, <2>1 DEF ArbiterStep, ArbiterProcess, Forward, Signals
<1>4. CASE ~sig.ira
  <2>1. sig.ira = FALSE
    BY <1>4 DEF TypeOK, Signals
  <2>2. nxt' = [nxt EXCEPT !.iraOut = Acknowledge(FALSE), !.irq = irq, !.idx = idx]
    BY <2>1 DEF ArbiterStep, ArbiterProcess, Choose
  <2>. HIDE DEF irq, idx
  <2>3. /\ nxt'.irqIn = nxt.irqIn /\ nxt'.pwrOn = nxt.pwrOn /\ nxt'.ira = nxt.ira
        /\ nxt'.iraOut = Acknowledge(FALSE) /\ nxt'.idx = idx
    BY <1>1, <2>2 DEF Signals
  <2>. QED  BY <1>2, <2>1, <2>3 DEF idx
<1>. QED  BY <1>3, <1>4


\* At the start nobody is told, nothing is announced and no line is up.
LEMMA RequestInit == Init => Announces /\ Waits /\ RequestInv
<1>. SUFFICES ASSUME Init PROVE Announces /\ Waits /\ RequestInv
  OBVIOUS
<1>1. /\ sig = SignalInit /\ nxt = SignalInit /\ run = {"arbiter", "pmm", "timer", "port"}
      /\ pmmPhase = "watch" /\ phase = "waitPwr" /\ ~tima.taifg
  BY DEF Init, KernelInit, PmmInit, CpuInit, TimerInit
<1>2. /\ ~nxt.pwrOn /\ ~sig.irqIn[TIMA] /\ ~nxt.irqIn[TIMA]
      /\ \A l \in Acknowledged : ~Told(l)
  BY <1>1 DEF SignalInit, Told, Lines
<1>. QED  BY <1>1, <1>2 DEF Announces, Waits, RequestInv

\* Every step keeps the announcement: the arbiter has run before the CPU looks.
LEMMA AnnouncesStep == TypeOK /\ Handshake /\ Announces /\ [Next]_vars => Announces'
<1>. SUFFICES ASSUME TypeOK, Handshake, Announces, [Next]_vars PROVE Announces'
  OBVIOUS
<1>1. sig \in Signals /\ nxt \in Signals
  BY DEF TypeOK
<1>2. CASE DeltaCycle
  <2>1. run = {} /\ sig' = nxt /\ nxt' = nxt /\ run' = Triggered /\ phase' = phase
    BY <1>2 DEF DeltaCycle, Update, cpuVars
  <2>2. "arbiter" \notin run' => nxt.ira = sig.ira /\ nxt.irqIn = sig.irqIn
    BY <2>1, TriggeredFacts DEF ArbiterTriggered, Changed
  <2>. QED  BY <2>1, <2>2 DEF Announces, Told
<1>3. CASE TimePasses
  <2>. PICK now \in SUBSET Due, pins \in SUBSET Pins, vcc \in Supply :
           Environment(pins, vcc) /\ Advance(now, pins, vcc)
    BY <1>3 DEF TimePasses
  <2>1. /\ run = {} /\ nxt = sig /\ sig' = sig /\ nxt' = [nxt EXCEPT !.vcc = vcc]
        /\ phase' = phase
    BY DEF Advance, Settled, cpuVars
  <2>2. nxt'.iraOut = nxt.iraOut /\ nxt'.irq = sig.irq /\ nxt'.idx = nxt.idx
    BY <1>1, <2>1 DEF Signals
  <2>. QED  BY <2>1, <2>2 DEF Announces, Told
<1>4. CASE ArbiterStep
  <2>1. phase \notin {"ack", "vector"} => ~sig.ira
    BY DEF Handshake, CpuInv
  <2>2. phase \notin {"ack", "vector"} => \A l \in Acknowledged : ~Told(l)'
    <3>1. phase \notin {"ack", "vector"} => nxt'.iraOut = Acknowledge(FALSE)
      BY <1>1, <1>4, <2>1, ArbiterWrites DEF Signals
    <3>. QED  BY <1>4, <3>1, ArbiterWrites DEF Acknowledge, Announces, Told
  <2>3. "cpu" \in run => phase = "waitPwr"
    BY <1>4, ArbiterWrites DEF Handshake, TurnInv
  <2>4. sig.irqIn[TIMA] /\ ~sig.ira => nxt'.idx # PMM
    BY <1>1, <1>4, ArbiterWrites, HidesReset
  <2>. QED  BY <1>4, <2>2, <2>3, <2>4, ArbiterWrites DEF Announces
<1>5. CASE PmmStep
  BY <1>5, PmmKeeps DEF Announces, Told
<1>6. CASE TimerStep \/ TimerResetStep \/ PortStep \/ PortResetStep
  BY <1>6, SourcesKeep DEF Announces, Told
<1>7. CASE CpuStep
  <2>1. /\ "cpu" \in run /\ run' = run \ {"cpu"} /\ sig' = sig
        /\ Idles \/ Begins \/ Ends
    BY <1>7, CpuMoves
  <2>2. nxt'.iraOut = nxt.iraOut /\ nxt'.idx = nxt.idx
    BY <1>1, <2>1 DEF Idles, Begins, Ends, Signals
  <2>3. phase' \notin {"ack", "vector"} => \A l \in Acknowledged : ~Told(l)
    <3>1. CASE phase \notin {"ack", "vector"}
      BY <3>1 DEF Announces
    <3>2. CASE phase \in {"ack", "vector"} /\ phase' \notin {"ack", "vector"}
      <4>1. phase = "vector"
        BY <2>1, <3>2 DEF Idles, Begins, Ends
      <4>2. ~sig.ira
        BY <2>1, <4>1 DEF Handshake, TurnInv, CpuInv
      <4>. QED  BY <2>1, <4>1, <4>2 DEF Handshake, TurnInv
    <3>. QED  BY <3>1, <3>2
  <2>. QED  BY <2>1, <2>2, <2>3 DEF Announces, Told
<1>8. CASE UNCHANGED vars
  BY <1>8 DEF vars, kernelVars, cpuVars, Announces, Told
<1>. QED  BY <1>2, <1>3, <1>4, <1>5, <1>6, <1>7, <1>8 DEF Next, PeripheralStep

\* Every step keeps the power away from a CPU that still executes.
LEMMA WaitsStep == TypeOK /\ Handshake /\ Waits /\ [Next]_vars => Waits'
<1>. SUFFICES ASSUME TypeOK, Handshake, Waits, [Next]_vars PROVE Waits'
  OBVIOUS
<1>1. sig \in Signals /\ nxt \in Signals
  BY DEF TypeOK
<1>2. CASE DeltaCycle
  <2>1. sig' = nxt /\ nxt' = nxt /\ run' = Triggered /\ pmmPhase' = pmmPhase
    BY <1>2 DEF DeltaCycle, Update, pmmVars
  <2>2. "pmm" \in run' => pmmPhase = "watch"
    BY <2>1, TriggeredFacts DEF PmmTriggered
  <2>. QED  BY <2>1, <2>2 DEF Waits
<1>3. CASE TimePasses
  <2>. PICK now \in SUBSET Due, pins \in SUBSET Pins, vcc \in Supply :
           Environment(pins, vcc) /\ Advance(now, pins, vcc)
    BY <1>3 DEF TimePasses
  <2>1. /\ nxt = sig /\ sig' = sig /\ nxt' = [nxt EXCEPT !.vcc = vcc]
        /\ UNCHANGED <<phase, pmmPhase>>
    BY DEF Advance, Settled, cpuVars, pmmVars
  <2>2. nxt'.pwrOn = sig'.pwrOn
    BY <1>1, <2>1 DEF Signals
  <2>3. \A p \in {"pmm", "cpu"} : p \in run' <=> p \in now
    BY DEF Advance, Hears
  <2>4. "pmm" \in now => phase = "waitPwr"
    BY DEF Due
  <2>5. "cpu" \in now => phase # "waitPwr"
    BY DEF Due, TimedPhases
  <2>. QED  BY <2>1, <2>2, <2>3, <2>4, <2>5 DEF Waits
<1>4. CASE ArbiterStep
  BY <1>4, ArbiterWrites DEF Waits
<1>5. CASE PmmStep
  BY <1>5, PmmKeeps DEF Waits, Handshake, PowerInv
<1>6. CASE TimerStep \/ TimerResetStep \/ PortStep \/ PortResetStep
  BY <1>6, SourcesKeep DEF Waits
<1>7. CASE CpuStep
  <2>1. /\ "cpu" \in run /\ run' = run \ {"cpu"} /\ sig' = sig
        /\ UNCHANGED pmmPhase
        /\ Idles \/ Begins \/ Ends
    BY <1>7, CpuMoves
  <2>2. nxt'.pwrOn = nxt.pwrOn
    BY <1>1, <2>1 DEF Idles, Begins, Ends, Signals
  <2>. QED  BY <2>1, <2>2 DEF Waits
<1>8. CASE UNCHANGED vars
  BY <1>8 DEF vars, kernelVars, cpuVars, pmmVars, Waits
<1>. QED  BY <1>2, <1>3, <1>4, <1>5, <1>6, <1>7, <1>8 DEF Next, PeripheralStep


\* The update phase: an acknowledgement that starts is heard, and a reset follows every
\* edge of pwrOn.
LEMMA RequestDelta ==
    ASSUME TypeOK, Handshake, Announces, Waits, RequestInv, DeltaCycle
    PROVE  RequestInv'
<1>1. /\ run = {} /\ sig' = nxt /\ nxt' = nxt /\ run' = Triggered
      /\ UNCHANGED <<phase, gie, cpuoff, tima>>
      /\ requested' = (requested /\ ~(TimerTriggered /\ nxt.iraOut[TIMA]))
  BY DEF DeltaCycle, Update, cpuVars, timaVars
<1>2. requested /\ ~requested' => Hearing' /\ sig'.iraOut[TIMA]
  <2>1. TimerTriggered => "timer" \in Triggered
    BY DEF Triggered, Processes
  <2>. QED  BY <1>1, <2>1 DEF Hearing
<1>3. LeftUp /\ nxt.irqIn[TIMA] => LeftUp'
  BY <1>1 DEF LeftUp, Waits
<1>4. tima.taifg => requested /\ sig.pwrOn
  BY <1>1 DEF RequestInv, Hearing
<1>5. tima'.taifg /\ ~sig'.pwrOn => "timerReset" \in run'
  <2>1. ~nxt.pwrOn /\ sig.pwrOn => "timerReset" \in Triggered
    BY DEF Triggered, Processes, Changed
  <2>. QED  BY <1>1, <1>4, <2>1
<1>6. nxt.irqIn[TIMA] => requested \/ LeftUp
  BY <1>1 DEF RequestInv, Hearing
<1>7. phase = "stack" => requested' = requested
  <2>1. phase = "stack" => ~nxt.iraOut[TIMA]
    BY DEF Announces, Told, Acknowledged
  <2>. QED  BY <1>1, <2>1 DEF TypeOK
<1>. QED  BY <1>1, <1>2, <1>3, <1>4, <1>5, <1>6, <1>7 DEF RequestInv

\* A run of the timer's process: it raises the line on a flag only, lowers it when it
\* hears the acknowledgement, and without power leaves it up.
LEMMA RequestTimer ==
    ASSUME TypeOK, Handshake, Announces, Waits, RequestInv, TimerStep
    PROVE  RequestInv'
<1>1. sig \in Signals /\ nxt \in Signals /\ tima \in TimerRegisters
  BY DEF TypeOK, TimerTypeOK
<1>2. /\ sig' = sig /\ UNCHANGED <<phase, gie, cpuoff>> /\ nxt'.idx = nxt.idx
  BY SourcesKeep
<1>3. /\ "timer" \in run /\ run' = run \ {"timer"}
      /\ requested' = (requested \/ (Expires /\ ~sig.iraOut[TIMA]))
  BY DEF TimerStep, TimerProcess, Evaluate
<1>4. LeftUp' <=> LeftUp
  BY <1>2 DEF LeftUp
<1>5. CASE ~sig.pwrOn
  <2>1. tima' = tima /\ nxt' = nxt
    BY <1>5 DEF TimerStep, TimerProcess
  <2>2. nxt.irqIn[TIMA] /\ Hearing => LeftUp
    <3>. SUFFICES ASSUME nxt.irqIn[TIMA], Hearing PROVE LeftUp
      OBVIOUS
    <3>1. phase \in {"ack", "vector"}
      BY DEF Hearing, Announces, Told, Acknowledged
    <3>2. sig.irqIn[TIMA]
      BY <1>5 DEF Handshake, PowerInv, Lines, PMM, TIMA
    <3>. QED  BY <1>5, <3>1, <3>2 DEF LeftUp
  <2>. QED  BY <1>2, <1>3, <1>4, <1>5, <2>1, <2>2 DEF RequestInv
<1>6. CASE sig.pwrOn
  <2>. DEFINE t == Cleared(Counted(tima))
  <2>1. /\ tima' = [t EXCEPT !.taifg = Flagged(t)]
        /\ nxt' = [nxt EXCEPT !.irqIn[TIMA] = TimerLine(t, nxt.irqIn[TIMA])]
    BY <1>6 DEF TimerStep, TimerProcess
  <2>2. t \in TimerRegisters
    BY <1>1, CountedType DEF Cleared, TimerRegisters
  <2>3. t.taifg /\ IrqEnabled(t) /\ ~sig.iraOut[TIMA] => requested'
    <3>1. tima.taifg => requested \/ Hearing
      BY <1>6 DEF RequestInv
    <3>. QED  BY <1>3, <1>6, <3>1 DEF Expires, Hearing
  <2>. HIDE DEF t
  <2>4. tima'.taifg => t.taifg /\ IrqEnabled(t) /\ ~sig.iraOut[TIMA]
    BY <2>1, <2>2 DEF Flagged, TimerRegisters
  <2>5. nxt'.irqIn[TIMA] = TimerLine(t, nxt.irqIn[TIMA])
    <3>. DEFINE line == TimerLine(t, nxt.irqIn[TIMA])
    <3>. HIDE DEF line
    <3>1. nxt' = [nxt EXCEPT !.irqIn[TIMA] = line]
      BY <2>1 DEF line
    <3>2. nxt'.irqIn[TIMA] = line
      BY <1>1, <3>1 DEF Signals, Lines
    <3>. QED  BY <3>2 DEF line
  <2>6. nxt'.irqIn[TIMA] => /\ ~sig.iraOut[TIMA]
                            /\ \/ t.taifg /\ IrqEnabled(t)
                               \/ nxt.irqIn[TIMA]
    BY <2>5 DEF TimerLine
  <2>7. nxt'.irqIn[TIMA] => requested' \/ LeftUp'
    BY <1>3, <1>4, <2>3, <2>6 DEF RequestInv, Hearing
  <2>. QED  BY <1>2, <1>3, <1>4, <1>6, <2>3, <2>4, <2>7 DEF RequestInv
<1>. QED  BY <1>5, <1>6

\* The arbiter offers the CPU that stacks a line that is up.
LEMMA RequestArbiter ==
    ASSUME TypeOK, Handshake, Announces, RequestInv, ArbiterStep
    PROVE  RequestInv'
<1>1. Hearing' <=> Hearing
  BY ArbiterWrites DEF Hearing
<1>2. LeftUp' <=> LeftUp
  BY ArbiterWrites DEF LeftUp
<1>3. phase = "stack" /\ nxt'.idx = TIMA => requested
  <2>. SUFFICES ASSUME phase = "stack", nxt'.idx = TIMA PROVE requested
    OBVIOUS
  <2>1. ~sig.ira /\ ~sig.iraOut[TIMA] /\ ~LeftUp
    BY DEF Handshake, CpuInv, Announces, Told, Acknowledged, LeftUp
  <2>2. CASE Pending # {}
    <3>1. sig.irqIn[TIMA]
      BY <2>1, <2>2, ArbiterWrites, ChosenPending DEF TypeOK, Pending
    <3>. QED  BY <2>1, <3>1 DEF RequestInv
  <2>3. CASE Pending = {}
    BY <2>1, <2>3, ArbiterWrites DEF RequestInv
  <2>. QED  BY <2>2, <2>3
<1>. QED  BY <1>1, <1>2, <1>3, ArbiterWrites DEF RequestInv


\* The other peripherals and time: the reset clears the flag and leaves the line.
LEMMA RequestOthers ==
    ASSUME TypeOK, RequestInv,
           TimePasses \/ PmmStep \/ TimerResetStep \/ PortStep \/ PortResetStep
    PROVE  RequestInv'
<1>1. sig \in Signals /\ nxt \in Signals /\ tima \in TimerRegisters
  BY DEF TypeOK, TimerTypeOK
<1>2. CASE TimePasses
  <2>. PICK now \in SUBSET Due, pins \in SUBSET Pins, vcc \in Supply :
           Environment(pins, vcc) /\ Advance(now, pins, vcc)
    BY <1>2 DEF TimePasses
  <2>1. /\ run = {} /\ sig' = sig /\ nxt' = [nxt EXCEPT !.vcc = vcc]
        /\ UNCHANGED <<phase, gie, cpuoff, tima, requested>>
    BY DEF Advance, Settled, cpuVars, timaVars, historyVars
  <2>2. nxt'.irqIn = nxt.irqIn /\ nxt'.idx = nxt.idx
    BY <1>1, <2>1 DEF Signals
  <2>3. LeftUp' <=> LeftUp
    BY <2>1 DEF LeftUp
  <2>. QED  BY <2>1, <2>2, <2>3 DEF RequestInv, Hearing
<1>3. CASE PmmStep
  <2>1. (Hearing' <=> Hearing) /\ (LeftUp' <=> LeftUp)
    BY <1>3, PmmKeeps DEF Hearing, LeftUp
  <2>. QED  BY <1>3, <2>1, PmmKeeps DEF RequestInv
<1>4. CASE TimerResetStep
  <2>1. ~tima'.taifg /\ requested' = requested /\ nxt' = nxt
    BY <1>1, <1>4 DEF TimerResetStep, TimerReset, TimerRegisters
  <2>2. sig' = sig /\ UNCHANGED <<phase, gie, cpuoff>> /\ run' = run \ {"timerReset"}
    BY <1>4 DEF TimerResetStep, TimerReset, Evaluate, cpuVars
  <2>3. (Hearing' <=> Hearing) /\ (LeftUp' <=> LeftUp)
    BY <2>2 DEF Hearing, LeftUp
  <2>. QED  BY <2>1, <2>2, <2>3 DEF RequestInv
<1>5. CASE PortStep \/ PortResetStep
  <2>1. /\ sig' = sig /\ UNCHANGED <<phase, gie, cpuoff, tima, requested>>
        /\ \A p \in {"timer", "timerReset"} : p \in run' <=> p \in run
    BY <1>5 DEF PortStep, PortResetStep, PortProcess, PortReset, Evaluate, cpuVars, timaVars
  <2>2. nxt'.irqIn[TIMA] = nxt.irqIn[TIMA] /\ nxt'.idx = nxt.idx
    <3>. DEFINE up == (paifg' # {})
    <3>1. nxt' = nxt \/ nxt' = [nxt EXCEPT !.irqIn[PORT1] = up]
      BY <1>5 DEF PortStep, PortResetStep, PortProcess, PortReset
    <3>. HIDE DEF up
    <3>. QED  BY <1>1, <3>1 DEF Signals, Lines, TIMA, PORT1
  <2>3. (Hearing' <=> Hearing) /\ (LeftUp' <=> LeftUp)
    BY <2>1 DEF Hearing, LeftUp
  <2>. QED  BY <2>1, <2>2, <2>3 DEF RequestInv
<1>. QED  BY <1>2, <1>3, <1>4, <1>5

\* At the CPU's turn the reset is not offered while the line of the timer is up.
LEMMA ResetHidden ==
    ASSUME TypeOK, Handshake, Announces, "cpu" \in run, sig.irqIn[TIMA],
           phase \notin {"ack", "vector"}
    PROVE  ~TakesReset
<1>. SUFFICES ASSUME sig.irq, sig.idx = PMM PROVE FALSE
  BY DEF TakesReset
<1>1. ~sig.ira
  BY DEF Handshake, CpuInv
<1>2. "arbiter" \notin run /\ nxt.idx = PMM
  BY DEF Handshake, TurnInv
<1>. QED  BY <1>1, <1>2 DEF Announces

\* A line left up stays so through the CPU's steps, up to its sleep.
LEMMA LeftUpCpu ==
    ASSUME TypeOK, Handshake, Announces, CpuStep, LeftUp
    PROVE  LeftUp'
<1>1. "cpu" \in run /\ sig' = sig /\ sig.irqIn[TIMA]
  BY CpuMoves DEF LeftUp
<1>2. sig.idx \in Lines
  BY DEF TypeOK, Signals
<1>3. CASE CpuPowerUp \/ CpuSleeps
  <2>1. phase \notin {"ack", "vector"}
    BY <1>3 DEF CpuPowerUp, CpuSleeps
  <2>2. ~TakesReset
    BY <1>1, <2>1, ResetHidden
  <2>3. CASE CpuPowerUp
    <3>1. NextTurn(FALSE, TRUE, nxt)
      BY <2>3 DEF CpuPowerUp
    <3>. HIDE DEF PMM
    <3>2. ~TakesInterrupt(FALSE)
      BY <1>2 DEF TakesInterrupt, Lines, TIMA, PORT1
    <3>3. ~gie' /\ cpuoff' /\ phase' \in {"waitPwr", "sleep"}
      BY <2>2, <3>1, <3>2 DEF NextTurn
    <3>. QED  BY <1>1, <3>3 DEF LeftUp
  <2>4. CASE CpuSleeps
    <3>1. NextTurn(gie, cpuoff, nxt) /\ ~gie /\ cpuoff
      BY <2>4 DEF CpuSleeps, LeftUp
    <3>. HIDE DEF PMM
    <3>2. ~TakesInterrupt(gie)
      BY <1>2, <3>1 DEF TakesInterrupt, Lines, TIMA, PORT1
    <3>3. ~gie' /\ cpuoff' /\ phase' \in {"waitPwr", "sleep"}
      BY <2>2, <3>1, <3>2 DEF NextTurn
    <3>. QED  BY <1>1, <3>3 DEF LeftUp
  <2>. QED  BY <1>3, <2>3, <2>4
<1>4. CASE CpuStacked
  BY <1>4 DEF CpuStacked, LeftUp
<1>5. CASE CpuAcknowledged \/ CpuEntersHandler \/ CpuExecStore \/ CpuExecReti
  BY <1>5 DEF CpuAcknowledged, CpuEntersHandler, CpuExecStore, CpuExecReti, Executing, LeftUp
<1>6. CASE CpuExecSetSr \/ CpuFinishStore \/ CpuFinishReti
  <2>1. ~sig.pwrOn
    BY <1>6 DEF CpuExecSetSr, CpuFinishStore, CpuFinishReti, Executing, LeftUp
  <2>2. \E enabled, off : NextTurn(enabled, off, nxt)
    BY <1>6 DEF CpuExecSetSr, CpuFinishStore, CpuFinishReti
  <2>3. ~TakesReset /\ \A enabled : ~TakesInterrupt(enabled)
    BY <2>1 DEF TakesReset, TakesInterrupt
  <2>4. phase' = "waitPwr"
    BY <2>1, <2>2, <2>3 DEF NextTurn
  <2>. QED  BY <1>1, <2>4 DEF LeftUp
<1>. QED  BY <1>3, <1>4, <1>5, <1>6 DEF CpuStep, CpuOnly, TakeInterrupt, Store

\* The CPU begins to stack for a request of the timer only.
LEMMA StacksForRequest ==
    ASSUME TypeOK, Handshake, Announces, RequestInv, CpuStep,
           phase' = "stack", nxt.idx = TIMA
    PROVE  requested
<1>1. "cpu" \in run
  BY CpuMoves
<1>2. ~CpuStacked /\ ~CpuAcknowledged /\ ~CpuEntersHandler /\ ~CpuExecStore /\ ~CpuExecReti
  BY DEF CpuStacked, CpuAcknowledged, CpuEntersHandler, CpuExecStore, CpuExecReti
<1>3. ASSUME NEW enabled, NEW off, NextTurn(enabled, off, nxt)
      PROVE  sig.pwrOn /\ TakesInterrupt(enabled)
  <2>1. sig.pwrOn
    <3>1. ~sig.pwrOn => ~TakesReset /\ ~TakesInterrupt(enabled)
      BY DEF TakesReset, TakesInterrupt
    <3>. QED  BY <1>3, <3>1 DEF NextTurn
  <2>2. ~TakesReset
    <3>1. TakesReset => ~TakesInterrupt(enabled)
      BY DEF TakesReset, TakesInterrupt
    <3>. QED  BY <1>3, <2>1, <3>1 DEF NextTurn
  <2>3. TakesInterrupt(enabled)
    BY <1>3, <2>1, <2>2 DEF NextTurn
  <2>. QED  BY <2>1, <2>3
<1>4. sig.idx \in Lines
  BY DEF TypeOK, Signals
<1>5. TakesInterrupt(FALSE) <=> FALSE
  BY <1>4 DEF TakesInterrupt, Lines, PMM, TIMA, PORT1
<1>6. /\ sig.pwrOn /\ sig.irq
      /\ phase \in {"sleep", "fetch", "store", "reti"}
      /\ phase = "sleep" => gie
  <2>1. CASE CpuPowerUp
    BY <1>3, <1>5, <2>1 DEF CpuPowerUp
  <2>2. CASE CpuSleeps
    <3>1. sig.pwrOn /\ TakesInterrupt(gie)
      BY <1>3, <2>2 DEF CpuSleeps
    <3>2. gie
      BY <1>5, <3>1 DEF TypeOK, CpuTypeOK, TakesInterrupt
    <3>. QED  BY <2>2, <3>1, <3>2 DEF CpuSleeps, TakesInterrupt
  <2>3. CASE CpuExecSetSr
    BY <1>3, <2>3 DEF CpuExecSetSr, Executing, TakesInterrupt
  <2>4. CASE CpuFinishStore
    BY <1>3, <2>4 DEF CpuFinishStore, TakesInterrupt
  <2>5. CASE CpuFinishReti
    BY <1>3, <2>5 DEF CpuFinishReti, TakesInterrupt
  <2>. QED  BY <1>2, <2>1, <2>2, <2>3, <2>4, <2>5
            DEF CpuStep, CpuOnly, TakeInterrupt, Store
<1>7. sig.irqIn[TIMA]
  BY <1>1, <1>6 DEF Announces, Handshake, TurnInv, ArbiterInv
<1>8. ~sig.iraOut[TIMA] /\ ~LeftUp
  BY <1>6 DEF Announces, Told, Acknowledged, LeftUp
<1>. QED  BY <1>7, <1>8 DEF RequestInv

\* The CPU and its program: a write never sets the flag.
LEMMA RequestCpu ==
    ASSUME TypeOK, Handshake, Announces, RequestInv, CpuStep
    PROVE  RequestInv'
<1>1. /\ "cpu" \in run /\ run' = run \ {"cpu"} /\ sig' = sig
      /\ Idles \/ Begins \/ Ends
  BY CpuMoves
<1>2. nxt \in Signals /\ tima \in TimerRegisters
  BY DEF TypeOK, TimerTypeOK
<1>3. nxt'.irqIn = nxt.irqIn /\ nxt'.idx = nxt.idx
  BY <1>1, <1>2 DEF Idles, Begins, Ends, Signals
<1>4. requested' = requested /\ (tima'.taifg => tima.taifg)
  <2>1. requested' = requested
    BY DEF CpuStep, CpuOnly, TakeInterrupt, Store, historyVars
  <2>2. UNCHANGED tima \/ TimerWrite
    BY DEF CpuStep, CpuOnly, TakeInterrupt, Store, StoreTimer, StorePort, timaVars
  <2>3. TimerWrite => (tima'.taifg => tima.taifg)
    BY <1>2 DEF TimerWrite, WriteTA1CTL, WriteTA1CCTL0, WriteTA1CCR0, TimerRegisters
  <2>. QED  BY <2>1, <2>2, <2>3
<1>5. LeftUp => LeftUp'
  BY LeftUpCpu
<1>6. phase' = "stack" /\ nxt.idx = TIMA => requested
  BY StacksForRequest
<1>7. Hearing' <=> Hearing
  BY <1>1 DEF Hearing
<1>. QED  BY <1>1, <1>3, <1>4, <1>5, <1>6, <1>7 DEF RequestInv

\* Every step keeps the requests.
LEMMA RequestStep ==
    TypeOK /\ Handshake /\ Announces /\ Waits /\ RequestInv /\ [Next]_vars => RequestInv'
<1>. SUFFICES ASSUME TypeOK, Handshake, Announces, Waits, RequestInv, [Next]_vars
              PROVE  RequestInv'
  OBVIOUS
<1>1. CASE UNCHANGED vars
  BY <1>1 DEF vars, kernelVars, timaVars, cpuVars, historyVars, RequestInv, Hearing, LeftUp
<1>. QED  BY <1>1, RequestDelta, RequestTimer, RequestArbiter, RequestOthers, RequestCpu
             DEF Next, PeripheralStep

\* In every behaviour the CPU takes the timer's vector only for an expiry since the timer
\* last heard an acknowledgement (TimerA.cpp:143, "Clear interrupt flag if interrupt
\* request accepted"); a line that was left up without power is never taken.
THEOREM TimerTakenForRequest == Spec => TimerTakenOnce
<1>. DEFINE Inv == TypeOK /\ Nesting /\ Handshake /\ Announces /\ Waits /\ RequestInv
            Once == phase = "stack" /\ phase' = "ack" /\ vector' = TIMA => requested
<1>1. Spec => []Inv
  BY TypeInit, TypeStep, HandshakeInit, HandshakeStep, RequestInit, AnnouncesStep, WaitsStep,
     RequestStep, PTL DEF Spec
<1>2. ASSUME Inv, [Next]_vars PROVE Once
  <2>. SUFFICES ASSUME phase = "stack", phase' = "ack", vector' = TIMA PROVE requested
    OBVIOUS
  <2>1. CpuStep
    <3>1. phase' # phase
      OBVIOUS
    <3>. QED  BY <1>2, <3>1 DEF Next, DeltaCycle, TimePasses, Advance, PeripheralStep, ArbiterStep,
                 PmmStep, TimerStep, TimerResetStep, PortStep, PortResetStep, vars, cpuVars
  <2>2. "cpu" \in run
    BY <1>2, <2>1, CpuMoves
  <2>3. TakeInterrupt
    BY <1>2, <2>1, TakesTimer DEF PMM, TIMA
  <2>4. nxt.idx = TIMA
    BY <1>2, <2>2, <2>3 DEF TakeInterrupt, CpuStacked, Handshake, TurnInv
  <2>. QED  BY <1>2, <2>4 DEF RequestInv
<1>3. Inv /\ [Next]_vars => [Once]_vars
  BY <1>2
<1>. QED  BY <1>1, <1>3, PTL DEF Spec, TimerTakenOnce

=============================================================================
