-------------------------------- MODULE Spi ---------------------------------
(***************************************************************************)
(* The SPI master of the Cortex-M0, mcu/cortex-m0/Spi.cpp: its thread, its *)
(* FIFOs and its interrupt line.  The FIFOs are sequences of bytes (the    *)
(* program never reads an empty one), a DR access is of 8 bits, and so is  *)
(* a transfer.  Bit rate, polarity and bit order are left out.             *)
(***************************************************************************)
EXTENDS SensorKernel

SPI_FIFO_BYTES == 4

VARIABLES
    cr,         \* CR1: SPE; CR2: RXNEIE, TXEIE, FRXTH (bytes until RXNE)
    sr,         \* SR: BSY, RXNE, TXE
    txFifo,     \* m_txFifo
    rxFifo,     \* m_rxFifo
    spiPhase,   \* where process() waits: "idle", or "transfer" for the delay
    flight,     \* the transfer: interrupt enables sampled, response
    spiSetIrq,  \* m_setIrq
    spiIrq,     \* irq
    active,     \* active_exception is that of the SPI
    spiEvents   \* m_txEvent, m_enableEvent notified for the end of the access

spiVars == <<cr, sr, txFifo, rxFifo, spiPhase, flight, spiSetIrq, spiIrq,
             active, spiEvents>>

SpiTypeOK ==
    /\ cr \in [spe : BOOLEAN, rxneie : BOOLEAN, txeie : BOOLEAN, frxth : {1, 2}]
    /\ sr \in [bsy : BOOLEAN, rxne : BOOLEAN, txe : BOOLEAN]
    /\ txFifo \in Seq(Commands) /\ Len(txFifo) <= SPI_FIFO_BYTES
    /\ rxFifo \in Seq(Responses) /\ Len(rxFifo) <= SPI_FIFO_BYTES
    /\ spiPhase \in {"idle", "transfer"}
    /\ flight \in [rxneie : BOOLEAN, txeie : BOOLEAN, response : Responses,
                   data : BOOLEAN]
    /\ spiSetIrq \in BOOLEAN /\ spiIrq \in BOOLEAN /\ active \in BOOLEAN
    /\ spiEvents \in BOOLEAN

CrReset == [spe |-> FALSE, rxneie |-> FALSE, txeie |-> FALSE, frxth |-> 2]
SrReset == [bsy |-> FALSE, rxne |-> FALSE, txe |-> TRUE]

SpiInit ==
    /\ sr = SrReset
    /\ txFifo = <<>> /\ rxFifo = <<>>
    /\ spiPhase = "idle"
    /\ flight = [rxneie |-> FALSE, txeie |-> FALSE, response |-> Nothing,
                 data |-> FALSE]
    /\ spiSetIrq = FALSE /\ spiIrq = FALSE /\ active = FALSE
    /\ spiEvents = FALSE

\* updateStatusRegister()
Status(busy, tx, rx) ==
    [bsy |-> busy, rxne |-> Len(rx) >= cr.frxth, txe |-> Len(tx) <= 2]

\* Fifo::put: a byte for which there is no room is ignored.
Put(fifo, byte) ==
    IF Len(fifo) < SPI_FIFO_BYTES THEN Append(fifo, byte) ELSE fifo

ReadyToTransmit == nReset /\ cr.spe /\ txFifo # <<>>

(***************************************************************************)
(* The end of a turn of the loop and the beginning of the next, up to its  *)
(* wait: with something to send, b_transport of the devices takes place.   *)
(* 'slaveOut' answers, if a device is selected; otherwise the payload      *)
(* keeps the last response.                                                *)
(***************************************************************************)
Transmit(slaveOut, rx, setIrq) ==
    /\ rxFifo' = rx
    /\ spiSetIrq' = setIrq
    /\ IF ReadyToTransmit
       THEN /\ spiPhase' = "transfer"
            /\ sr' = Status(TRUE, txFifo, rx)
            /\ txFifo' = Tail(txFifo)
            /\ flight' = [rxneie |-> cr.rxneie, txeie |-> cr.txeie,
                          response |-> IF chipSelect THEN slaveOut
                                       ELSE flight.response,
                          data |-> Head(txFifo).kind = "zero"]
       ELSE /\ spiPhase' = "idle"
            /\ sr' = Status(FALSE, txFifo, rx)
            /\ UNCHANGED <<txFifo, flight>>

SpiWake(slaveOut) ==
    /\ spiPhase = "idle" /\ Evaluate("spi")
    /\ IF ReadyToTransmit THEN Transmit(slaveOut, rxFifo, spiSetIrq)
       ELSE UNCHANGED <<rxFifo, spiSetIrq, spiPhase, sr, txFifo, flight>>
    /\ UNCHANGED <<nReset, chipSelect, soon, cr, spiIrq, active, spiEvents>>

\* Whether the end of the transfer asks for an interrupt, by the enables of its
\* beginning.
AsksForIrq(rx) ==
    LET status == Status(FALSE, txFifo, rx)
    IN  (flight.rxneie /\ status.rxne) \/ (flight.txeie /\ status.txe)

\* The transfer is over, whatever has happened to the power meanwhile.
SpiReceive(slaveOut) ==
    /\ spiPhase = "transfer" /\ Evaluate("spi")
    /\ LET rx == Put(rxFifo, flight.response)
       IN  /\ Transmit(slaveOut, rx, spiSetIrq \/ AsksForIrq(rx))
           /\ soon' = IF AsksForIrq(rx) THEN soon \cup {"spiIrqControl"} ELSE soon
    /\ UNCHANGED <<nReset, chipSelect, cr, spiIrq, active, spiEvents>>

\* The request of the thread wins over the start of the handler, unless the
\* line is up already.
SpiIrqControl ==
    /\ Evaluate("spiIrqControl")
    /\ spiIrq' = IF spiSetIrq /\ ~spiIrq THEN TRUE ELSE spiIrq /\ ~active
    /\ spiSetIrq' = FALSE
    /\ soon' = IF spiIrq' # spiIrq THEN soon \cup {"nvic"} ELSE soon
    /\ UNCHANGED <<nReset, chipSelect, cr, sr, txFifo, rxFifo, spiPhase, flight,
                   active, spiEvents>>

\* Runs at both edges.  The receive FIFO, the line and a transfer in flight stay;
\* the cancelled m_updateIrqEvent is that of the next delta cycle.
SpiReset ==
    /\ Evaluate("spiReset")
    /\ cr' = CrReset /\ sr' = SrReset
    /\ txFifo' = <<>>
    /\ spiSetIrq' = FALSE
    /\ soon' = soon \ {"spiIrqControl"}
    /\ spiEvents' = FALSE
    /\ UNCHANGED <<nReset, chipSelect, rxFifo, spiPhase, flight, spiIrq, active>>

(***************************************************************************)
(* b_transport                                                             *)
(***************************************************************************)
\* Mutant: a write of CR1 wakes nobody.
WriteCR1_NoEvent(spe) ==
    /\ cr' = [cr EXCEPT !.spe = spe]
    /\ UNCHANGED <<sr, txFifo, rxFifo, spiEvents>>

WriteCR1(spe) ==
    /\ cr' = [cr EXCEPT !.spe = spe]
    /\ spiEvents' = (spe /\ ~cr.spe)
    /\ UNCHANGED <<sr, txFifo, rxFifo>>

WriteCR2(rxneie, txeie, frxth) ==
    /\ cr' = [cr EXCEPT !.rxneie = rxneie, !.txeie = txeie, !.frxth = frxth]
    /\ UNCHANGED <<sr, txFifo, rxFifo, spiEvents>>

WriteDR(byte) ==
    /\ txFifo' = Put(txFifo, byte)
    /\ sr' = Status(sr.bsy, txFifo', rxFifo)
    /\ spiEvents' = TRUE
    /\ UNCHANGED <<cr, rxFifo>>

ReadDR ==
    /\ rxFifo # <<>>
    /\ rxFifo' = Tail(rxFifo)
    /\ sr' = Status(sr.bsy, txFifo, rxFifo')
    /\ UNCHANGED <<cr, txFifo, spiEvents>>
=============================================================================
