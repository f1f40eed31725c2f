--------------------------- MODULE Accelerometer ----------------------------
(***************************************************************************)
(* The accelerometer on the SPI bus, sd/Accelerometer.cpp on top of        *)
(* sd/SpiDevice.cpp: the shift registers, the method spiInterface() that   *)
(* runs at the end of a transaction and when the device is deselected, and *)
(* the thread that measures.                                               *)
(***************************************************************************)
EXTENDS SensorKernel

CONSTANTS
    FIFO_CAPACITY,  \* bytes
    Threshold       \* 4 * FIFO_THR once software has set it

ASSUME FifoAssumption ==
    FIFO_CAPACITY \in Nat /\ FIFO_CAPACITY >= 4 /\ Threshold \in Nat

Sleep == 0
Standby == 1
Continuous == 2
Single == 3
Measuring == {Continuous, Single}

VARIABLES
    slaveIn,    \* m_SlaveInRegister
    slaveOut,   \* m_SlaveOutRegister
    spiState,   \* m_spiState
    ctrl,       \* CTRL: the mode, the number of axes enabled, the interrupt enable
    thr,        \* 4 * FIFO_THR
    fifo,       \* m_fifo
    measures,   \* m_measurementState
    loopPhase,  \* where measurementLoop() waits
    setting,    \* the result of nextMeasurementState() while it waits
    setIrq,     \* m_setIrq
    irq,        \* irq
    slaveEvent, \* m_transactionEvent is notified for the end of the transfer
    pushed      \* bytes put into the FIFO so far

accVars == <<slaveIn, slaveOut, spiState, ctrl, thr, fifo, measures, loopPhase,
             setting, setIrq, irq, slaveEvent, pushed>>

\* "waitMode" for m_modeUpdateEvent, "delay" between states, "sample" for a period
LoopPhases == {"waitMode", "delay", "sample"}

AccTypeOK ==
    /\ slaveIn \in Commands /\ slaveOut \in Responses
    /\ spiState \in [mode : {"Address", "DataRead", "DataWrite"},
                     addr : {"none", "DATA", "STATUS", "CTRL", "FIFO_THR"}]
    /\ ctrl \in Settings /\ thr \in {0, Threshold}
    /\ fifo \in Seq(DataBytes) /\ Len(fifo) <= FIFO_CAPACITY
    /\ measures \in 0..3 /\ setting \in 0..3
    /\ loopPhase \in LoopPhases
    /\ setIrq \in BOOLEAN /\ irq \in BOOLEAN /\ slaveEvent \in BOOLEAN
    /\ pushed \in 0..(4 * MaxFrames)

\* The device as the program has set it up, by CTRL and FIFO_THR.
AccInit ==
    /\ slaveIn = Zero /\ slaveOut = Nothing
    /\ spiState = [mode |-> "Address", addr |-> "none"]
    /\ thr = (IF ctrl = Off THEN 0 ELSE Threshold) /\ fifo = <<>>
    /\ measures = ctrl.mode /\ setting = Sleep
    /\ loopPhase = IF measures \in Measuring THEN "sample" ELSE "waitMode"
    /\ setIrq = FALSE /\ irq = FALSE /\ slaveEvent = FALSE /\ pushed = 0

\* reset(), of the device and of the SPI interface.  An interrupt stays.
\* 'm_modeUpdateEvent' is the measurementLoop in 'soon'.
Resets ==
    /\ ctrl' = Off /\ thr' = 0 /\ fifo' = <<>>
    /\ slaveIn' = Zero /\ slaveOut' = Nothing
    /\ spiState' = [mode |-> "Address", addr |-> "none"]
    /\ measures' = Sleep
    /\ soon' = soon \ {"measurementLoop"}
    /\ UNCHANGED <<loopPhase, setting, setIrq, irq, slaveEvent, pushed>>

AccReset ==
    /\ Evaluate("slaveReset")
    /\ Resets
    /\ UNCHANGED <<nReset, chipSelect>>

-----------------------------------------------------------------------------
(* spiInterface() *)

\* The response to the next transaction, once the state is that of 'state' and
\* the FIFO holds 'bytes'.
Prepared(state, bytes) ==
    IF state.mode = "DataRead" /\ state.addr = "DATA" /\ bytes # <<>>
    THEN Head(bytes) ELSE Nothing

\* Mutant: leaves the byte that has been read in the FIFO.
Popped_None(bytes) == bytes

\* "We're actually popping the previously read element".
Popped(bytes) == IF bytes = <<>> THEN <<>> ELSE Tail(bytes)

\* The first byte sets up the address.
SetsAddress ==
    LET state == [mode |-> IF slaveIn.kind = "read" THEN "DataRead" ELSE "DataWrite",
                  addr |-> slaveIn.addr]
    IN  /\ spiState' = state
        /\ slaveOut' = Prepared(state, fifo)
        /\ UNCHANGED <<ctrl, thr, fifo, measures, setIrq, soon, slaveIn,
                       loopPhase, setting, irq, slaveEvent, pushed>>

\* Mutant: only in continuous mode.
ClearsIrq_Continuous(bytes) ==
    irq /\ measures = Continuous /\ Len(bytes) < thr

\* Reading may clear the interrupt.
ClearsIrq(bytes) ==
    irq /\ (\/ measures = Continuous /\ Len(bytes) < thr
            \/ bytes = <<>>
            \/ ~ctrl.ie)

ReadsData ==
    LET bytes == IF spiState.addr = "DATA" THEN Popped(fifo) ELSE fifo
    IN  /\ fifo' = bytes
        /\ slaveOut' = Prepared(spiState, bytes)
        /\ setIrq' = (setIrq /\ ~ClearsIrq(bytes))
        /\ soon' = IF ClearsIrq(bytes) THEN soon \cup {"updateIrq"} ELSE soon
        /\ UNCHANGED <<spiState, ctrl, thr, measures, slaveIn, loopPhase,
                       setting, irq, slaveEvent, pushed>>

\* A write of CTRL makes the loop look at the mode, if it waits for that.
WritesRegister ==
    /\ spiState' = [spiState EXCEPT !.mode = "Address"]
    /\ slaveOut' = Nothing
    /\ ctrl' = IF spiState.addr = "CTRL" THEN slaveIn.val ELSE ctrl
    /\ thr' = IF spiState.addr = "FIFO_THR" THEN Threshold ELSE thr
    /\ soon' = IF spiState.addr = "CTRL" THEN soon \cup {"measurementLoop"}
                                         ELSE soon
    /\ UNCHANGED <<fifo, measures, setIrq, slaveIn, loopPhase, setting, irq,
                   slaveEvent, pushed>>

SoftwareReset == Resets

SpiInterface ==
    /\ Evaluate("spiInterface")
    /\ IF chipSelect
       THEN CASE spiState.mode = "Address" -> SetsAddress
              [] spiState.mode = "DataRead" -> ReadsData
              [] spiState.mode = "DataWrite" ->
                     IF slaveIn.kind = "reset" THEN SoftwareReset ELSE WritesRegister
       ELSE /\ spiState' = [spiState EXCEPT !.mode = "Address"]
            /\ UNCHANGED <<slaveIn, slaveOut, ctrl, thr, fifo, measures, loopPhase,
                           setting, setIrq, irq, slaveEvent, pushed, soon>>
    /\ UNCHANGED <<nReset, chipSelect>>

UpdateIrq ==
    /\ Evaluate("updateIrq")
    /\ irq' = setIrq
    /\ UNCHANGED <<nReset, chipSelect, soon, slaveIn, slaveOut, spiState, ctrl,
                   thr, fifo, measures, loopPhase, setting, setIrq, slaveEvent,
                   pushed>>

-----------------------------------------------------------------------------
(* measurementLoop() *)

\* "can't go from Sleep to measure without going through standby"
NextSetting(state, mode) ==
    IF state = Sleep /\ mode \in Measuring THEN Standby ELSE mode

\* nextMeasurementState() and what follows it up to the next wait, with CTRL and
\* the state as the end of the last turn leaves them.
NextState(state, c) ==
    LET next == NextSetting(state, c.mode)
    IN  /\ ctrl' = [c EXCEPT !.mode = next]
        /\ IF <<state, next>> \in {<<Sleep, Standby>>, <<Standby, Sleep>>}
           THEN loopPhase' = "delay" /\ measures' = state /\ setting' = next
           ELSE /\ measures' = next /\ setting' = Sleep
                /\ loopPhase' = IF next \in Measuring THEN "sample" ELSE "waitMode"

LoopWakes ==
    /\ loopPhase = "waitMode" /\ Evaluate("measurementLoop")
    /\ NextState(measures, ctrl)
    /\ UNCHANGED <<nReset, chipSelect, soon, slaveIn, slaveOut, spiState, thr, fifo,
                   setIrq, irq, slaveEvent, pushed>>

\* The state takes the setting of before the delay.
LoopDelayed ==
    /\ loopPhase = "delay" /\ Evaluate("measurementLoop")
    /\ measures' = setting /\ setting' = Sleep
    /\ loopPhase' = "waitMode"
    /\ UNCHANGED <<nReset, chipSelect, soon, slaveIn, slaveOut, spiState, ctrl, thr,
                   fifo, setIrq, irq, slaveEvent, pushed>>

\* The header and one sample for each axis that is enabled now.
Frame ==
    [i \in 1..(1 + ctrl.axes) |->
        [nr |-> pushed + i, header |-> IF i = 1 THEN ctrl.axes ELSE NotHeader]]

\* popOldestframe() takes the first byte for a header; of a sample any bits may
\* be set.
DropOldest(bytes) ==
    LET first == Head(bytes)
        sizes == IF first.header = NotHeader THEN 0..3 ELSE {first.header}
    IN  {SubSeq(bytes, 2 + n, Len(bytes)) : n \in sizes}

\* Frames are dropped until the rest fits; each drop takes at least a byte, and
\* a frame adds at most four.
\* Mutant: at most one frame is dropped.
Trimmed_Once(bytes) ==
    IF Len(bytes) <= FIFO_CAPACITY THEN {bytes} ELSE DropOldest(bytes)

Trimmed(bytes) ==
    LET Round(contents) ==
            UNION {IF Len(s) <= FIFO_CAPACITY THEN {s} ELSE DropOldest(s) :
                     s \in contents}
    IN  Round(Round(Round(Round({bytes}))))

\* The FIFO holds enough for an interrupt.
DataReady(bytes) ==
    IF measures = Continuous THEN Len(bytes) >= thr ELSE bytes # <<>>

\* The end of a sampling period.  A single measurement goes back to standby.
LoopSamples ==
    /\ loopPhase = "sample" /\ Evaluate("measurementLoop")
    /\ fifo' \in Trimmed(fifo \o Frame)
    /\ pushed' = pushed + Len(Frame)
    /\ setIrq' = (setIrq \/ (ctrl.ie /\ DataReady(fifo')))
    /\ soon' = IF ctrl.ie /\ DataReady(fifo') THEN soon \cup {"updateIrq"} ELSE soon
    /\ NextState(measures, IF measures = Single THEN [ctrl EXCEPT !.mode = Standby]
                                                ELSE ctrl)
    /\ UNCHANGED <<nReset, chipSelect, slaveIn, slaveOut, spiState, thr, irq,
                   slaveEvent>>
=============================================================================
