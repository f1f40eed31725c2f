----------------------------- MODULE SensorNode -----------------------------
(***************************************************************************)
(* The SPI and the accelerometer as boards/Cm0SensorNode.cpp connects      *)
(* them, with the program that drives the bus through SPI registers and    *)
(* the chip select pin, and the reset line of the board.                   *)
(*                                                                         *)
(* The program keeps the protocol of sd/Accelerometer.hpp: it deselects    *)
(* the device only when the bus is idle, and an address comes first.       *)
(***************************************************************************)
EXTENDS Spi, Accelerometer

CONSTANTS
    Starts,     \* the settings of CTRL at the start: those after a reset, or others
    Values,     \* the settings the program writes to CTRL
    CR2Values,  \* the settings it writes to CR2, records of SPI enables
    MaxBytes,   \* bound: bytes the program sends
    MaxConfigs, \* bound: writes of CR1 and CR2
    MaxPower    \* bound: changes of nReset after power-up

ASSUME NodeAssumption ==
    /\ Starts \subseteq Settings /\ Values \subseteq Settings
    /\ CR2Values \subseteq [rxneie : BOOLEAN, txeie : BOOLEAN, frxth : {1, 2}]
    /\ MaxBytes \in Nat /\ MaxConfigs \in Nat /\ MaxPower \in Nat

VARIABLES
    sending,    \* what the protocol lets the program send next
    handler,    \* the CPU is in the handler of the SPI: "none", "running", "returning"
    pended,     \* the SPI's bit of ISPR in the NVIC
    seen,       \* m_prevIrq of it, and whether m_prevActive is its exception
    used,       \* how much of each bound has been used
    \* History, which no action reads:
    handed,     \* the newest byte of the device's FIFO that a read has received
    inOrder,    \* no read has received a byte again, or an older one
    lost,       \* the device was reset since its interrupt was last raised
    rxOwed      \* a byte came with its interrupt enabled, no handler started yet

nvicVars == <<pended, seen>>
historyVars == <<handed, inOrder, lost, rxOwed>>
vars == <<kernelVars, spiVars, accVars, sending, handler, nvicVars, used, historyVars>>

TypeOK ==
    /\ nReset \in BOOLEAN /\ chipSelect \in BOOLEAN
    /\ run \subseteq Methods \cup Threads
    /\ soon \subseteq Methods \cup Threads \cup {"nReset"}
    /\ SpiTypeOK /\ AccTypeOK
    /\ sending \in {"none", "address", "zeros", "CTRL", "FIFO_THR"}
    /\ handler \in {"none", "running", "returning"}
    /\ pended \in BOOLEAN /\ seen \in [irq : BOOLEAN, active : BOOLEAN]
    /\ used \in [bytes : 0..MaxBytes, configs : 0..MaxConfigs, power : 0..MaxPower]
    /\ handed \in 0..(4 * MaxFrames)
    /\ inOrder \in BOOLEAN /\ lost \in BOOLEAN /\ rxOwed \in BOOLEAN

Init ==
    /\ nReset = TRUE /\ chipSelect = FALSE /\ run = {} /\ soon = {}
    /\ cr \in {CrReset} \cup {[spe |-> TRUE, rxneie |-> v.rxneie, txeie |-> v.txeie,
                              frxth |-> v.frxth] : v \in CR2Values}
    /\ SpiInit
    /\ ctrl \in Starts /\ AccInit
    /\ sending = "none" /\ handler = "none"
    /\ pended = FALSE /\ seen = [irq |-> FALSE, active |-> FALSE]
    /\ used = [bytes |-> 0, configs |-> 0, power |-> 0]
    /\ handed = 0 /\ inOrder = TRUE /\ lost = FALSE /\ rxOwed = FALSE

-----------------------------------------------------------------------------
(* The scheduler *)

DeltaCycle ==
    /\ NextDelta(loopPhase = "waitMode", spiPhase = "idle")
    /\ UNCHANGED <<spiVars, accVars, sending, handler, nvicVars, used, historyVars>>

Due ==
    (IF spiPhase = "transfer" THEN {"spi"} ELSE {})
    \cup (IF nReset THEN {"cpu"} ELSE {})
    \cup (IF loopPhase = "delay" \/ (loopPhase = "sample" /\ pushed + 4 <= 4 * MaxFrames)
          THEN {"measurementLoop"} ELSE {})

\* The device hears of the end of a transfer when the master does; the SPI hears
\* of a register access when it ends.
Advance(now, power) ==
    /\ Settled
    /\ now # {} \/ power
    /\ run' = now \cup (IF "spi" \in now /\ slaveEvent THEN {"spiInterface"} ELSE {})
                  \cup (IF "cpu" \in now /\ spiEvents /\ spiPhase = "idle"
                        THEN {"spi"} ELSE {})
    /\ slaveEvent' = (slaveEvent /\ "spi" \notin now)
    /\ spiEvents' = (spiEvents /\ "cpu" \notin now)
    /\ soon' = IF power THEN {"nReset"} ELSE {}
    /\ used' = [used EXCEPT !.power = IF power THEN @ + 1 ELSE @]
    /\ sending' = IF power THEN "none" ELSE sending
    /\ handler' = IF power THEN "none" ELSE handler
    /\ UNCHANGED <<nReset, chipSelect, nvicVars, cr, sr, txFifo, rxFifo, spiPhase, flight, spiSetIrq,
                   spiIrq, active, slaveIn, slaveOut, spiState, ctrl, thr, fifo,
                   measures, loopPhase, setting, setIrq, irq, pushed, historyVars>>

TimePasses ==
    \E now \in SUBSET Due, power \in BOOLEAN :
        /\ power => used.power < MaxPower /\ "cpu" \notin now
        /\ Advance(now, power)

-----------------------------------------------------------------------------
(* The SPI *)

\* SpiDevice::b_transport, at the beginning of a transfer.
Transaction ==
    IF spiPhase' = "transfer" /\ ReadyToTransmit /\ chipSelect
    THEN slaveIn' = Head(txFifo) /\ slaveEvent' = TRUE
    ELSE UNCHANGED <<slaveIn, slaveEvent>>

SpiOnly(A) ==
    /\ A
    /\ Transaction
    /\ UNCHANGED <<slaveOut, spiState, ctrl, thr, fifo, measures, loopPhase, setting,
                   setIrq, irq, pushed, sending, handler, nvicVars, used, lost>>

SpiWakeStep == SpiOnly(SpiWake(slaveOut)) /\ UNCHANGED <<handed, inOrder, rxOwed>>

\* A handler that starts at this very instant comes after the byte.
SpiReceiveStep ==
    /\ SpiOnly(SpiReceive(slaveOut))
    /\ LET nr == IF flight.data THEN flight.response.nr ELSE 0
       IN  /\ inOrder' = (inOrder /\ (nr = 0 \/ nr > handed))
           /\ handed' = IF nr > handed THEN nr ELSE handed
    /\ rxOwed' = \/ rxOwed
                 \/ /\ nReset /\ AsksForIrq(Put(rxFifo, flight.response))
                    /\ ~(active /\ "spiIrqControl" \in soon)

SpiIrqControlStep ==
    /\ SpiIrqControl
    /\ UNCHANGED <<accVars, sending, handler, nvicVars, used, historyVars>>

SpiResetStep ==
    /\ SpiReset
    /\ rxOwed' = FALSE
    /\ UNCHANGED <<accVars, sending, handler, nvicVars, used, handed, inOrder, lost>>

SpiStep == SpiWakeStep \/ SpiReceiveStep \/ SpiIrqControlStep \/ SpiResetStep

-----------------------------------------------------------------------------
(* The SPI's line in the NVIC (module Nvic has all of them) *)

\* Mutant: an edge counts only while the handler is not running.
SetPend_IgnoresEdges == spiIrq /\ ~active

\* A rising edge, or a line still up when its handler returns.
SetPend == spiIrq /\ (~seen.irq \/ handler = "returning")

NvicProcess ==
    /\ Evaluate("nvic")
    /\ IF nReset
       THEN /\ pended' = (SetPend \/ (pended /\ ~(active /\ ~seen.active)))
            /\ seen' = [irq |-> spiIrq, active |-> active]
       ELSE UNCHANGED nvicVars
    /\ UNCHANGED <<nReset, chipSelect, soon>>

NvicReset ==
    /\ Evaluate("nvicReset")
    /\ pended' = FALSE /\ seen' = [irq |-> FALSE, active |-> FALSE]
    /\ soon' = soon \cup {"nvic"}
    /\ UNCHANGED <<nReset, chipSelect>>

NvicStep ==
    /\ NvicProcess \/ NvicReset
    /\ UNCHANGED <<spiVars, accVars, sending, handler, used, historyVars>>

-----------------------------------------------------------------------------
(* The accelerometer *)

AccOnly(A) ==
    /\ A
    /\ UNCHANGED <<spiVars, sending, handler, nvicVars, used, handed, inOrder, rxOwed>>

AccResetStep == AccOnly(AccReset) /\ lost' = TRUE

SpiInterfaceStep ==
    /\ AccOnly(SpiInterface)
    /\ lost' = (lost \/ (fifo # <<>> /\ spiState.mode = "DataWrite"
                              /\ slaveIn.kind = "reset"))

UpdateIrqStep == AccOnly(UpdateIrq) /\ UNCHANGED lost

LoopStep ==
    /\ AccOnly(LoopWakes \/ LoopDelayed \/ LoopSamples)
    /\ lost' = (lost /\ ~(loopPhase = "sample" /\ fifo' # <<>>))

AccStep == AccResetStep \/ SpiInterfaceStep \/ UpdateIrqStep \/ LoopStep

-----------------------------------------------------------------------------
(* The CPU and its program *)

Access(A) ==
    /\ A
    /\ UNCHANGED <<spiPhase, flight, spiSetIrq, spiIrq, active, soon, chipSelect>>

\* CR2 is written while the SPI is disabled.
Configure ==
    /\ used.configs < MaxConfigs
    /\ Access(\/ \E spe \in BOOLEAN : WriteCR1(spe)
              \/ ~cr.spe /\ \E v \in CR2Values : WriteCR2(v.rxneie, v.txeie, v.frxth))
    /\ used' = [used EXCEPT !.configs = @ + 1]
    /\ UNCHANGED sending

\* The pin reaches the device in the next delta cycle.
Select ==
    /\ ~chipSelect
    /\ chipSelect' = TRUE /\ sending' = "address"
    /\ UNCHANGED <<spiVars, soon, used>>

Deselect ==
    /\ chipSelect
    /\ ~sr.bsy /\ txFifo = <<>>
    /\ chipSelect' = FALSE /\ sending' = "none"
    /\ soon' = soon \cup {"spiInterface"}
    /\ UNCHANGED <<spiVars, used>>

Sends(byte, next) ==
    /\ sr.txe /\ used.bytes < MaxBytes
    /\ Access(WriteDR(byte))
    /\ sending' = next
    /\ used' = [used EXCEPT !.bytes = @ + 1]

SendAddress ==
    /\ sending = "address"
    /\ \/ \E a \in {"DATA", "STATUS"} : Sends(Command("read", a, Off), "zeros")
       \/ \E a \in {"CTRL", "FIFO_THR"} : Sends(Command("write", a, Off), a)

SendZero == sending = "zeros" /\ Sends(Zero, "zeros")

SendValue ==
    \/ /\ sending = "CTRL"
       /\ \/ \E v \in Values : Sends(Command("value", "CTRL", v), "none")
          \/ Sends(Command("reset", "CTRL", Off), "none")
    \/ sending = "FIFO_THR" /\ Sends(Command("value", "FIFO_THR", Off), "none")

Receive ==
    /\ sr.rxne
    /\ Access(ReadDR)
    /\ UNCHANGED <<sending, used>>

\* exceptionEnter() and the two steps of exceptionReturn().
StartHandler ==
    /\ pended /\ handler = "none"
    /\ handler' = "running" /\ active' = TRUE
    /\ soon' = IF active THEN soon ELSE soon \cup {"spiIrqControl", "nvic"}
    /\ rxOwed' = FALSE
    /\ UNCHANGED <<cr, sr, txFifo, rxFifo, spiPhase, flight, spiSetIrq, spiIrq,
                   spiEvents, chipSelect, sending, used>>

BeginReturn ==
    /\ handler = "running"
    /\ handler' = "returning"
    /\ soon' = soon \cup {"nvic"}
    /\ UNCHANGED <<spiVars, chipSelect, sending, used, rxOwed>>

EndReturn ==
    /\ handler' = "none" /\ active' = FALSE
    /\ soon' = soon \cup {"spiIrqControl", "nvic"}
    /\ UNCHANGED <<cr, sr, txFifo, rxFifo, spiPhase, flight, spiSetIrq, spiIrq,
                   spiEvents, chipSelect, sending, used, rxOwed>>

CpuStep ==
    /\ Evaluate("cpu")
    /\ \/ handler = "returning" /\ EndReturn
       \/ /\ handler # "returning"
          /\ \/ /\ Configure \/ Select \/ Deselect
                   \/ SendAddress \/ SendZero \/ SendValue \/ Receive
                /\ UNCHANGED <<handler, rxOwed>>
             \/ StartHandler \/ BeginReturn
             \/ UNCHANGED <<spiVars, soon, chipSelect, sending, used, handler, rxOwed>>
    /\ UNCHANGED <<nReset, accVars, nvicVars, handed, inOrder, lost>>

Next == DeltaCycle \/ TimePasses \/ SpiStep \/ NvicStep \/ AccStep \/ CpuStep

Spec == Init /\ [][Next]_vars

-----------------------------------------------------------------------------
(* Properties *)

\* "We're actually popping the previously read element" (Accelerometer.cpp:109):
\* the response was prepared a transaction ahead, and the FIFO goes on filling,
\* overflowing and being reset meanwhile.  Still no byte of it is received twice,
\* and none after a newer one.
DataInOrder == inOrder

\* The interrupt of the accelerometer means that there is data to read
\* (Accelerometer.hpp, "IRQ output"), unless the device was reset.
IrqMeansData == Settled /\ irq /\ ~lost => fifo # <<>>

\* No lost SPI interrupt (Spi::process, Spi::irqControl): a byte that came with
\* its interrupt enabled stays pending until a handler starts, though the line
\* drops when another byte comes during a handler.
RxIrqNotLost == Settled /\ nReset /\ rxOwed => pended

\* No lost wake-up of the SPI (Spi::process waits for events that do not persist):
\* when an enabled SPI has a byte to send and waits, the event that wakes it is
\* on its way.
TxWoken == Settled /\ spiPhase = "idle" /\ ReadyToTransmit => spiEvents
=============================================================================
