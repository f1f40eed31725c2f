-------------------------- MODULE SensorNode_proofs --------------------------
(***************************************************************************)
(* The sensor node keeps its promises for every capacity of the FIFO, every *)
(* threshold, every setting the program may write, and any number of bytes, *)
(* frames, configurations and power failures.                               *)
(***************************************************************************)
EXTENDS SensorNode, SequenceTheorems, TLAPS

-----------------------------------------------------------------------------
(* Commands, responses and the FIFO of the accelerometer *)

\* What the program may send is a command, and a zero is the only one of its kind.
LEMMA CommandTypes ==
    /\ Off \in Settings /\ Zero \in Commands
    /\ \A a \in {"DATA", "STATUS"} : Command("read", a, Off) \in Commands
    /\ \A a \in {"CTRL", "FIFO_THR"} : Command("write", a, Off) \in Commands
    /\ \A v \in Settings : Command("value", "CTRL", v) \in Commands
    /\ Command("value", "FIFO_THR", Off) \in Commands
    /\ Command("reset", "CTRL", Off) \in Commands
    /\ \A c \in Commands : /\ c.val \in Settings
                           /\ c.addr \in {"DATA", "STATUS", "CTRL", "FIFO_THR"}
                           /\ c.kind = "zero" => c = Zero
<1>1. Off \in Settings
  BY DEF Off, Settings
<1>2. \A a, k, v : /\ Command(k, a, v).kind = k /\ Command(k, a, v).addr = a
                   /\ Command(k, a, v).val = v
  BY DEF Command
<1>3. \A a \in {"DATA", "STATUS"} : Command("read", a, Off) \in Commands
  BY DEF Command, Commands
<1>4. \A a \in {"CTRL", "FIFO_THR"} : Command("write", a, Off) \in Commands
  BY DEF Command, Commands
<1>5. \A v \in Settings : Command("value", "CTRL", v) \in Commands
  BY DEF Command, Commands
<1>6. Command("value", "FIFO_THR", Off) \in Commands
  BY DEF Command, Commands
<1>7. Command("reset", "CTRL", Off) \in Commands /\ Zero \in Commands
  BY DEF Commands
<1>8. ASSUME NEW c \in Commands
      PROVE  /\ c.val \in Settings
             /\ c.addr \in {"DATA", "STATUS", "CTRL", "FIFO_THR"}
             /\ c.kind = "zero" => c = Zero
  BY <1>1, <1>8 DEF Commands, Command, Zero
<1> QED BY <1>1, <1>3, <1>4, <1>5, <1>6, <1>7, <1>8

\* Nothing is told from the bytes of the FIFO, which are numbered from 1.
LEMMA ResponseTypes ==
    /\ Nothing \in Responses /\ Nothing.nr = 0
    /\ DataBytes \subseteq Responses
    /\ \A b \in Responses : b.nr \in 0..(4 * MaxFrames)
    /\ \A b \in Responses : b = Nothing <=> b.nr = 0
    /\ \A b \in DataBytes : /\ b.nr \in Nat \ {0} /\ b.nr <= 4 * MaxFrames
                            /\ b.header \in 0..3 \cup {NotHeader}
<1>1. Nothing \in Responses /\ Nothing.nr = 0 /\ DataBytes \subseteq Responses
  BY DEF Responses, Nothing
<1>2. ASSUME NEW b \in DataBytes
      PROVE  /\ b.nr \in Nat \ {0} /\ b.nr <= 4 * MaxFrames
             /\ b.header \in 0..3 \cup {NotHeader}
  <2>1. b.nr \in 1..(4 * MaxFrames) /\ b.header \in Axes \cup {0, NotHeader}
    BY DEF DataBytes
  <2>2. 4 * MaxFrames \in Nat
    BY SensorAssumption
  <2>3. b.nr \in Nat \ {0} /\ b.nr <= 4 * MaxFrames
    BY <2>1, <2>2
  <2>4. b.header \in 0..3 \cup {NotHeader}
    <3>1. 0 \in 0..3
      OBVIOUS
    <3> QED BY <2>1, <3>1, SensorAssumption, Zenon
  <2> QED BY <2>3, <2>4
<1>3. \A b \in Responses : b = Nothing \/ b \in DataBytes
  BY DEF Responses
<1>4. 0 \in 0..(4 * MaxFrames)
  BY SensorAssumption
<1> QED BY <1>1, <1>2, <1>3, <1>4, SensorAssumption

\* The FIFO after some of its first bytes have gone.
EndOf(bytes, all) ==
    /\ bytes \in Seq(DataBytes) /\ Len(bytes) <= Len(all)
    /\ \A i \in 1..Len(bytes) : bytes[i] = all[Len(all) - Len(bytes) + i]

\* Of a FIFO that overflows, popOldestframe() drops one byte to four.
LEMMA DropOldestDrops ==
    ASSUME NEW bytes \in Seq(DataBytes), Len(bytes) >= 4,
           NEW rest \in DropOldest(bytes)
    PROVE  /\ EndOf(rest, bytes)
           /\ Len(rest) < Len(bytes) /\ Len(bytes) <= Len(rest) + 4
<1>1. Len(bytes) \in Nat /\ \A i \in 1..Len(bytes) : bytes[i] \in DataBytes
  BY LenProperties
<1>2. Head(bytes) \in DataBytes
  BY HeadTailProperties, EmptySeq
<1>3. PICK n \in 0..3 : rest = SubSeq(bytes, 2 + n, Len(bytes))
  <2>1. Head(bytes).header \in 0..3 \cup {NotHeader}
    BY <1>2, ResponseTypes
  <2> QED BY <2>1 DEF DropOldest
<1>4. 2 + n \in Int /\ Len(bytes) \in Int /\ \A i \in (2 + n)..Len(bytes) : bytes[i] \in DataBytes
  BY <1>1
<1>5. /\ rest \in Seq(DataBytes)
      /\ Len(rest) = IF 2 + n <= Len(bytes) THEN Len(bytes) - (2 + n) + 1 ELSE 0
      /\ \A i \in 1..(Len(bytes) - (2 + n) + 1) : rest[i] = bytes[2 + n + i - 1]
  BY <1>3, <1>4, SubSeqProperties
<1>6. Len(rest) = Len(bytes) - n - 1
  BY <1>1, <1>5
<1>7. \A i \in 1..Len(rest) : rest[i] = bytes[Len(bytes) - Len(rest) + i]
  <2> SUFFICES ASSUME NEW i \in 1..Len(rest)
               PROVE  rest[i] = bytes[Len(bytes) - Len(rest) + i]
    OBVIOUS
  <2>1. i \in 1..(Len(bytes) - (2 + n) + 1)
    BY <1>1, <1>6
  <2>2. 2 + n + i - 1 = Len(bytes) - Len(rest) + i
    BY <1>1, <1>6, <2>1
  <2> QED BY <1>5, <2>1, <2>2
<1>8. Len(rest) < Len(bytes) /\ Len(bytes) <= Len(rest) + 4
  BY <1>1, <1>6
<1>9. Len(rest) <= Len(bytes) /\ rest \in Seq(DataBytes)
  BY <1>1, <1>5, <1>6
<1> QED BY <1>7, <1>8, <1>9 DEF EndOf

\* What is left after dropping until k bytes too many are left at most.
Left(rest, bytes, k) ==
    /\ EndOf(rest, bytes)
    /\ rest # <<>> /\ Len(rest) <= FIFO_CAPACITY + k

\* One more round of the loop brings it nearer to fitting.
LEMMA OneRound ==
    ASSUME NEW bytes \in Seq(DataBytes), NEW k \in Nat, NEW s, Left(s, bytes, k + 1),
           NEW rest \in (IF Len(s) <= FIFO_CAPACITY THEN {s} ELSE DropOldest(s))
    PROVE  Left(rest, bytes, k)
<1>1. s \in Seq(DataBytes) /\ Len(s) \in Nat /\ Len(bytes) \in Nat
  BY LenProperties DEF Left, EndOf
<1>2. CASE Len(s) <= FIFO_CAPACITY
  BY <1>1, <1>2, FifoAssumption DEF Left
<1>3. CASE ~(Len(s) <= FIFO_CAPACITY)
  <2>1. EndOf(rest, s) /\ Len(rest) < Len(s) /\ Len(s) <= Len(rest) + 4
    BY <1>1, <1>3, FifoAssumption, DropOldestDrops
  <2>2. rest \in Seq(DataBytes) /\ Len(rest) \in Nat
    BY <2>1, LenProperties DEF EndOf
  <2>3. rest # <<>> /\ Len(rest) <= FIFO_CAPACITY + k
    BY <1>1, <1>3, <2>1, <2>2, FifoAssumption, EmptySeq DEF Left
  <2>4. ASSUME NEW i \in 1..Len(rest)
        PROVE  rest[i] = bytes[Len(bytes) - Len(rest) + i]
    <3>1. rest[i] = s[Len(s) - Len(rest) + i]
      BY <2>1 DEF EndOf
    <3>2. Len(s) - Len(rest) + i \in 1..Len(s)
      BY <1>1, <2>1, <2>2
    <3>3. s[Len(s) - Len(rest) + i] = bytes[Len(bytes) - Len(s) + (Len(s) - Len(rest) + i)]
      BY <3>2 DEF Left, EndOf
    <3>4. Len(bytes) - Len(s) + (Len(s) - Len(rest) + i) = Len(bytes) - Len(rest) + i
      BY <1>1, <2>2
    <3> QED BY <3>1, <3>3, <3>4
  <2> QED BY <1>1, <2>1, <2>2, <2>3, <2>4 DEF Left, EndOf
<1> QED BY <1>2, <1>3

\* The loop ends with bytes that fit: the newest ones, and at least one.
LEMMA TrimmedFits ==
    ASSUME NEW bytes \in Seq(DataBytes), bytes # <<>>, Len(bytes) <= FIFO_CAPACITY + 4,
           NEW rest \in Trimmed(bytes)
    PROVE  EndOf(rest, bytes) /\ rest # <<>> /\ Len(rest) <= FIFO_CAPACITY
<1> DEFINE Drop(s) == IF Len(s) <= FIFO_CAPACITY THEN {s} ELSE DropOldest(s)
           Round(contents) == UNION {Drop(s) : s \in contents}
<1>1. Left(bytes, bytes, 4)
  BY LenProperties DEF Left, EndOf
<1>2. \A s : \A k \in Nat : Left(s, bytes, k + 1) => \A r \in Drop(s) : Left(r, bytes, k)
  BY OneRound
<1>3. rest \in Round(Round(Round(Round({bytes}))))
  BY DEF Trimmed
<1> HIDE DEF Drop
<1>4. PICK c : rest \in Drop(c) /\ c \in Round(Round(Round({bytes})))
  BY <1>3
<1>5. PICK b : c \in Drop(b) /\ b \in Round(Round({bytes}))
  BY <1>4
<1>6. PICK a : b \in Drop(a) /\ a \in Drop(bytes)
  BY <1>5
<1>7. Left(a, bytes, 3)
  <2>1. Left(bytes, bytes, 3 + 1)
    BY <1>1
  <2> QED BY <1>2, <1>6, <2>1
<1>8. Left(b, bytes, 2)
  <2>1. Left(a, bytes, 2 + 1)
    BY <1>7
  <2> QED BY <1>2, <1>6, <2>1
<1>9. Left(c, bytes, 1)
  <2>1. Left(b, bytes, 1 + 1)
    BY <1>8
  <2> QED BY <1>2, <1>5, <2>1
<1>10. Left(rest, bytes, 0)
  <2>1. Left(c, bytes, 0 + 1)
    BY <1>9
  <2> QED BY <1>2, <1>4, <2>1
<1> QED BY <1>10, FifoAssumption DEF Left

-----------------------------------------------------------------------------
(* Types *)

KernelTypeOK ==
    /\ nReset \in BOOLEAN /\ chipSelect \in BOOLEAN
    /\ run \subseteq Methods \cup Threads
    /\ soon \subseteq Methods \cup Threads \cup {"nReset"}

NodeTypeOK ==
    /\ sending \in {"none", "address", "zeros", "CTRL", "FIFO_THR"}
    /\ handler \in {"none", "running", "returning"}
    /\ pended \in BOOLEAN /\ seen \in [irq : BOOLEAN, active : BOOLEAN]
    /\ used \in [bytes : 0..MaxBytes, configs : 0..MaxConfigs, power : 0..MaxPower]
    /\ handed \in 0..(4 * MaxFrames)
    /\ inOrder \in BOOLEAN /\ lost \in BOOLEAN /\ rxOwed \in BOOLEAN

LEMMA TypeParts ==
    TypeOK <=> KernelTypeOK /\ SpiTypeOK /\ AccTypeOK /\ NodeTypeOK
BY DEF TypeOK, KernelTypeOK, NodeTypeOK

LEMMA TypePartsNext ==
    KernelTypeOK' /\ SpiTypeOK' /\ AccTypeOK' /\ NodeTypeOK' => TypeOK'
BY DEF TypeOK, KernelTypeOK, NodeTypeOK

\* A sample is taken only while there is room for one more frame in the numbering.
SampleRoom ==
    "measurementLoop" \in run /\ loopPhase = "sample" => pushed + 4 <= 4 * MaxFrames

Types == TypeOK /\ SampleRoom

\* What the status register and the FIFOs hold.
LEMMA SpiFacts ==
    ASSUME SpiTypeOK
    PROVE  /\ CrReset \in [spe : BOOLEAN, rxneie : BOOLEAN, txeie : BOOLEAN, frxth : {1, 2}]
           /\ SrReset \in [bsy : BOOLEAN, rxne : BOOLEAN, txe : BOOLEAN]
           /\ \A busy \in BOOLEAN, tx \in Seq(Commands), rx \in Seq(Responses) :
                  Status(busy, tx, rx) \in [bsy : BOOLEAN, rxne : BOOLEAN, txe : BOOLEAN]
           /\ \A rx : AsksForIrq(rx) \in BOOLEAN
<1>1. CrReset \in [spe : BOOLEAN, rxneie : BOOLEAN, txeie : BOOLEAN, frxth : {1, 2}]
  BY DEF CrReset
<1>2. SrReset \in [bsy : BOOLEAN, rxne : BOOLEAN, txe : BOOLEAN]
  BY DEF SrReset
<1>3. \A busy \in BOOLEAN, tx \in Seq(Commands), rx \in Seq(Responses) :
          Status(busy, tx, rx) \in [bsy : BOOLEAN, rxne : BOOLEAN, txe : BOOLEAN]
  BY DEF Status
<1>4. \A rx : AsksForIrq(rx) \in BOOLEAN
  BY DEF AsksForIrq
<1> QED BY <1>1, <1>2, <1>3, <1>4

\* Fifo::put keeps the limit of the FIFO.
LEMMA PutType ==
    ASSUME NEW S, NEW queue \in Seq(S), Len(queue) <= SPI_FIFO_BYTES, NEW byte \in S
    PROVE  Put(queue, byte) \in Seq(S) /\ Len(Put(queue, byte)) <= SPI_FIFO_BYTES
BY LenProperties, AppendProperties DEF Put, SPI_FIFO_BYTES

LEMMA TailType ==
    ASSUME NEW S, NEW queue \in Seq(S), queue # <<>>
    PROVE  Tail(queue) \in Seq(S) /\ Len(Tail(queue)) <= Len(queue)
BY HeadTailProperties, LenProperties

LEMMA TransmitType ==
    ASSUME SpiTypeOK, NEW out \in Responses, NEW rx \in Seq(Responses),
           Len(rx) <= SPI_FIFO_BYTES, NEW request \in BOOLEAN,
           Transmit(out, rx, request)
    PROVE  /\ sr' \in [bsy : BOOLEAN, rxne : BOOLEAN, txe : BOOLEAN]
           /\ txFifo' \in Seq(Commands) /\ Len(txFifo') <= SPI_FIFO_BYTES
           /\ rxFifo' \in Seq(Responses) /\ Len(rxFifo') <= SPI_FIFO_BYTES
           /\ spiPhase' \in {"idle", "transfer"}
           /\ flight' \in [rxneie : BOOLEAN, txeie : BOOLEAN, response : Responses,
                           data : BOOLEAN]
           /\ spiSetIrq' \in BOOLEAN
<1>1. rxFifo' = rx /\ spiSetIrq' = request
  BY DEF Transmit
<1>2. CASE ReadyToTransmit
  <2>1. /\ spiPhase' = "transfer" /\ sr' = Status(TRUE, txFifo, rx)
        /\ txFifo' = Tail(txFifo)
        /\ flight' = [rxneie |-> cr.rxneie, txeie |-> cr.txeie,
                      response |-> IF chipSelect THEN out ELSE flight.response,
                      data |-> Head(txFifo).kind = "zero"]
    BY <1>2 DEF Transmit
  <2>2. txFifo # <<>> /\ txFifo \in Seq(Commands) /\ Len(txFifo) <= SPI_FIFO_BYTES
    BY <1>2 DEF ReadyToTransmit, SpiTypeOK
  <2>3. Len(txFifo) \in Nat /\ Len(Tail(txFifo)) \in Nat /\ Tail(txFifo) \in Seq(Commands)
        /\ Len(Tail(txFifo)) <= Len(txFifo)
    BY <2>2, TailType, LenProperties
  <2>4. flight' \in [rxneie : BOOLEAN, txeie : BOOLEAN, response : Responses,
                     data : BOOLEAN]
    BY <2>1 DEF SpiTypeOK
  <2>5. Len(Tail(txFifo)) <= SPI_FIFO_BYTES
    BY <2>2, <2>3 DEF SPI_FIFO_BYTES
  <2>6. sr' \in [bsy : BOOLEAN, rxne : BOOLEAN, txe : BOOLEAN]
    BY <2>1, <2>2, SpiFacts
  <2> QED BY <1>1, <2>1, <2>3, <2>4, <2>5, <2>6
<1>3. CASE ~ReadyToTransmit
  <2>1. /\ spiPhase' = "idle" /\ sr' = Status(FALSE, txFifo, rx)
        /\ txFifo' = txFifo /\ flight' = flight
    BY <1>3 DEF Transmit
  <2> QED BY <1>1, <2>1, SpiFacts DEF SpiTypeOK
<1> QED BY <1>2, <1>3

LEMMA TypesInitially == Init => Types
<1> SUFFICES ASSUME Init PROVE Types
  OBVIOUS
<1>1. KernelTypeOK /\ SampleRoom
  BY DEF Init, KernelTypeOK, SampleRoom
<1>2. SpiTypeOK
  <2>1. ASSUME NEW v \in CR2Values,
               cr = [spe |-> TRUE, rxneie |-> v.rxneie, txeie |-> v.txeie,
                     frxth |-> v.frxth]
        PROVE  cr \in [spe : BOOLEAN, rxneie : BOOLEAN, txeie : BOOLEAN, frxth : {1, 2}]
    <3>1. v \in [rxneie : BOOLEAN, txeie : BOOLEAN, frxth : {1, 2}]
      BY NodeAssumption
    <3> QED BY <2>1, <3>1
  <2>2. cr \in [spe : BOOLEAN, rxneie : BOOLEAN, txeie : BOOLEAN, frxth : {1, 2}]
    <3>1. CrReset \in [spe : BOOLEAN, rxneie : BOOLEAN, txeie : BOOLEAN, frxth : {1, 2}]
      BY DEF CrReset
    <3>2. \/ cr = CrReset
          \/ \E v \in CR2Values : cr = [spe |-> TRUE, rxneie |-> v.rxneie,
                                       txeie |-> v.txeie, frxth |-> v.frxth]
      BY DEF Init
    <3> QED BY <2>1, <3>1, <3>2
  <2>3. sr \in [bsy : BOOLEAN, rxne : BOOLEAN, txe : BOOLEAN]
    BY DEF Init, SpiInit, SrReset
  <2>4. flight \in [rxneie : BOOLEAN, txeie : BOOLEAN, response : Responses,
                    data : BOOLEAN]
    BY ResponseTypes DEF Init, SpiInit
  <2>5. txFifo \in Seq(Commands) /\ rxFifo \in Seq(Responses)
        /\ Len(txFifo) = 0 /\ Len(rxFifo) = 0
    BY EmptySeq DEF Init, SpiInit
  <2>6. Len(txFifo) <= SPI_FIFO_BYTES /\ Len(rxFifo) <= SPI_FIFO_BYTES
    BY <2>5 DEF SPI_FIFO_BYTES
  <2>7. /\ spiPhase \in {"idle", "transfer"} /\ spiSetIrq \in BOOLEAN
        /\ spiIrq \in BOOLEAN /\ active \in BOOLEAN /\ spiEvents \in BOOLEAN
    BY DEF Init, SpiInit
  <2> QED BY <2>2, <2>3, <2>4, <2>5, <2>6, <2>7 DEF SpiTypeOK
<1>3. AccTypeOK
  <2>1. ctrl \in Settings /\ ctrl.mode \in 0..3
    BY NodeAssumption DEF Init, Settings
  <2>2. /\ slaveIn \in Commands /\ slaveOut \in Responses
        /\ thr \in {0, Threshold} /\ fifo \in Seq(DataBytes) /\ Len(fifo) <= FIFO_CAPACITY
    BY CommandTypes, ResponseTypes, EmptySeq, FifoAssumption DEF Init, AccInit
  <2>3. spiState \in [mode : {"Address", "DataRead", "DataWrite"},
                      addr : {"none", "DATA", "STATUS", "CTRL", "FIFO_THR"}]
    BY DEF Init, AccInit
  <2>4. measures \in 0..3 /\ setting \in 0..3 /\ loopPhase \in LoopPhases
    BY <2>1 DEF Init, AccInit, Sleep, LoopPhases
  <2>5. pushed \in 0..(4 * MaxFrames)
    BY SensorAssumption DEF Init, AccInit
  <2> QED BY <2>1, <2>2, <2>3, <2>4, <2>5 DEF Init, AccInit, AccTypeOK
<1>4. NodeTypeOK
  <2>1. used \in [bytes : 0..MaxBytes, configs : 0..MaxConfigs, power : 0..MaxPower]
    <3>1. 0 \in 0..MaxBytes /\ 0 \in 0..MaxConfigs /\ 0 \in 0..MaxPower
      BY NodeAssumption
    <3> QED BY <3>1 DEF Init
  <2>2. handed \in 0..(4 * MaxFrames)
    BY SensorAssumption DEF Init
  <2> QED BY <2>1, <2>2 DEF Init, NodeTypeOK
<1> QED BY <1>1, <1>2, <1>3, <1>4, TypeParts DEF Types

\* The parts a step leaves alone keep their types.
LEMMA SpiFrame == SpiTypeOK /\ UNCHANGED spiVars => SpiTypeOK'
BY DEF SpiTypeOK, spiVars

LEMMA AccFrame == AccTypeOK /\ UNCHANGED accVars => AccTypeOK'
BY DEF AccTypeOK, accVars

LEMMA TypesDelta == ASSUME Types, DeltaCycle PROVE Types'
<1>1. KernelTypeOK' /\ SampleRoom'
  <2>1. /\ NextDelta(loopPhase = "waitMode", spiPhase = "idle")
        /\ loopPhase' = loopPhase /\ pushed' = pushed
    BY DEF DeltaCycle, accVars
  <2>2. nReset' \in BOOLEAN /\ chipSelect' \in BOOLEAN
    BY <2>1, TypeParts DEF NextDelta, Types, KernelTypeOK
  <2>3. run' \subseteq Methods \cup Threads
    BY <2>1, TypeParts DEF NextDelta, Types, KernelTypeOK, Resetters, Methods, Threads
  <2>4. soon' = {}
    BY <2>1 DEF NextDelta
  <2>5. "measurementLoop" \in run' => loopPhase' = "waitMode"
    BY <2>1 DEF NextDelta, Resetters
  <2> QED BY <2>2, <2>3, <2>4, <2>5 DEF KernelTypeOK, SampleRoom
<1>2. SpiTypeOK' /\ AccTypeOK'
  BY SpiFrame, AccFrame, TypeParts DEF DeltaCycle, Types
<1>3. NodeTypeOK'
  BY TypeParts DEF DeltaCycle, nvicVars, historyVars, Types, NodeTypeOK
<1> QED BY <1>1, <1>2, <1>3, TypePartsNext DEF Types

LEMMA TypesTime == ASSUME Types, TimePasses PROVE Types'
<1> PICK now \in SUBSET Due, power \in BOOLEAN :
       /\ power => used.power < MaxPower /\ "cpu" \notin now
       /\ Advance(now, power)
  BY DEF TimePasses
<1>1. run' = now \cup (IF "spi" \in now /\ slaveEvent THEN {"spiInterface"} ELSE {})
                 \cup (IF "cpu" \in now /\ spiEvents /\ spiPhase = "idle"
                       THEN {"spi"} ELSE {})
      /\ soon' = (IF power THEN {"nReset"} ELSE {})
      /\ nReset' = nReset /\ chipSelect' = chipSelect
  BY DEF Advance
<1>2. KernelTypeOK'
  <2>1. now \subseteq Methods \cup Threads
    BY DEF Due, Threads
  <2> QED BY <1>1, <2>1, TypeParts DEF Types, KernelTypeOK, Methods, Threads
<1>3. SampleRoom'
  <2>1. "measurementLoop" \in run' => "measurementLoop" \in Due
    BY <1>1
  <2>2. loopPhase' = loopPhase /\ pushed' = pushed
    BY DEF Advance
  <2> QED BY <2>1, <2>2 DEF Due, SampleRoom
<1>4. SpiTypeOK'
  BY TypeParts DEF Advance, Types, SpiTypeOK
<1>5. AccTypeOK'
  BY TypeParts DEF Advance, Types, AccTypeOK
<1>6. NodeTypeOK'
  <2>1. used' \in [bytes : 0..MaxBytes, configs : 0..MaxConfigs, power : 0..MaxPower]
    <3>1. used' = [used EXCEPT !.power = IF power THEN @ + 1 ELSE @]
      BY DEF Advance
    <3>2. used \in [bytes : 0..MaxBytes, configs : 0..MaxConfigs, power : 0..MaxPower]
      BY TypeParts DEF Types, NodeTypeOK
    <3>3. (IF power THEN used.power + 1 ELSE used.power) \in 0..MaxPower
      BY <3>2, NodeAssumption
    <3> QED BY <3>1, <3>2, <3>3
  <2> QED BY <2>1, TypeParts DEF Advance, Types, NodeTypeOK, nvicVars, historyVars
<1> QED BY <1>2, <1>3, <1>4, <1>5, <1>6, TypePartsNext DEF Types

\* A process that runs leaves the set of the runnable ones.
LEMMA Runs == \A p : KernelTypeOK /\ Evaluate(p) => run' \subseteq Methods \cup Threads
BY DEF KernelTypeOK, Evaluate

\* The device takes over the byte that the SPI sends.
LEMMA TransactionType ==
    ASSUME SpiTypeOK, AccTypeOK, Transaction
    PROVE  slaveIn' \in Commands /\ slaveEvent' \in BOOLEAN
<1>1. CASE spiPhase' = "transfer" /\ ReadyToTransmit /\ chipSelect
  <2>1. Head(txFifo) \in Commands
    BY <1>1, HeadTailProperties DEF SpiTypeOK, ReadyToTransmit
  <2> QED BY <1>1, <2>1 DEF Transaction
<1>2. CASE ~(spiPhase' = "transfer" /\ ReadyToTransmit /\ chipSelect)
  BY <1>2 DEF Transaction, AccTypeOK
<1> QED BY <1>1, <1>2

\* A step of the thread of the SPI, whatever it does to the FIFOs.
LEMMA SpiOnlyTypes ==
    ASSUME Types, SpiOnly(TRUE), KernelTypeOK', SpiTypeOK',
           "measurementLoop" \in run' => "measurementLoop" \in run,
           handed' \in 0..(4 * MaxFrames), inOrder' \in BOOLEAN, rxOwed' \in BOOLEAN
    PROVE  Types'
<1>1. AccTypeOK'
  <2>1. slaveIn' \in Commands /\ slaveEvent' \in BOOLEAN
    BY TransactionType, TypeParts DEF Types, SpiOnly
  <2> QED BY <2>1, TypeParts DEF Types, SpiOnly, AccTypeOK
<1>2. NodeTypeOK'
  BY TypeParts DEF Types, SpiOnly, NodeTypeOK, nvicVars
<1>3. SampleRoom'
  BY DEF Types, SampleRoom, SpiOnly
<1> QED BY <1>1, <1>2, <1>3, TypePartsNext DEF Types

LEMMA TypesSpiWake == ASSUME Types, SpiWakeStep PROVE Types'
<1>1. /\ Evaluate("spi") /\ nReset' = nReset /\ chipSelect' = chipSelect /\ soon' = soon
      /\ cr' = cr /\ spiIrq' = spiIrq /\ active' = active /\ spiEvents' = spiEvents
      /\ IF ReadyToTransmit THEN Transmit(slaveOut, rxFifo, spiSetIrq)
         ELSE UNCHANGED <<rxFifo, spiSetIrq, spiPhase, sr, txFifo, flight>>
  BY DEF SpiWakeStep, SpiOnly, SpiWake
<1>2. KernelTypeOK'
  BY <1>1, Runs, TypeParts DEF Types, KernelTypeOK
<1>3. SpiTypeOK'
  <2>1. CASE ReadyToTransmit
    <3>1. Transmit(slaveOut, rxFifo, spiSetIrq)
      BY <1>1, <2>1
    <3>2. /\ slaveOut \in Responses /\ rxFifo \in Seq(Responses)
          /\ Len(rxFifo) <= SPI_FIFO_BYTES /\ spiSetIrq \in BOOLEAN
      BY TypeParts DEF Types, SpiTypeOK, AccTypeOK
    <3> QED BY <1>1, <3>1, <3>2, TransmitType, TypeParts DEF Types, SpiTypeOK
  <2>2. CASE ~ReadyToTransmit
    BY <1>1, <2>2, TypeParts DEF Types, SpiTypeOK
  <2> QED BY <2>1, <2>2
<1>4. SpiOnly(TRUE) /\ handed' = handed /\ inOrder' = inOrder /\ rxOwed' = rxOwed
  BY DEF SpiWakeStep, SpiOnly
<1>5. "measurementLoop" \in run' => "measurementLoop" \in run
  BY <1>1 DEF Evaluate
<1>6. handed' \in 0..(4 * MaxFrames) /\ inOrder' \in BOOLEAN /\ rxOwed' \in BOOLEAN
  BY <1>4, TypeParts DEF Types, NodeTypeOK
<1> QED BY <1>2, <1>3, <1>4, <1>5, <1>6, SpiOnlyTypes

LEMMA TypesSpiReceive == ASSUME Types, SpiReceiveStep PROVE Types'
<1> DEFINE rx == Put(rxFifo, flight.response)
           nr == IF flight.data THEN flight.response.nr ELSE 0
<1>1. /\ Evaluate("spi") /\ nReset' = nReset /\ chipSelect' = chipSelect
      /\ soon' = (IF AsksForIrq(rx) THEN soon \cup {"spiIrqControl"} ELSE soon)
      /\ cr' = cr /\ spiIrq' = spiIrq /\ active' = active /\ spiEvents' = spiEvents
      /\ Transmit(slaveOut, rx, spiSetIrq \/ AsksForIrq(rx))
  BY DEF SpiReceiveStep, SpiOnly, SpiReceive
<1>2. KernelTypeOK'
  BY <1>1, Runs, TypeParts DEF Types, KernelTypeOK, Methods
<1>3. flight.response \in Responses /\ flight.data \in BOOLEAN
  BY TypeParts DEF Types, SpiTypeOK
<1>4. SpiTypeOK'
  <2>1. rx \in Seq(Responses) /\ Len(rx) <= SPI_FIFO_BYTES
    BY <1>3, PutType, TypeParts DEF Types, SpiTypeOK
  <2>2. slaveOut \in Responses /\ (spiSetIrq \/ AsksForIrq(rx)) \in BOOLEAN
    BY TypeParts DEF Types, AccTypeOK
  <2> HIDE DEF rx
  <2> QED BY <1>1, <2>1, <2>2, TransmitType, TypeParts DEF Types, SpiTypeOK
<1>5. SpiOnly(TRUE)
  BY DEF SpiReceiveStep, SpiOnly
<1>6. "measurementLoop" \in run' => "measurementLoop" \in run
  BY <1>1 DEF Evaluate
<1>7. handed' \in 0..(4 * MaxFrames)
  <2>1. nr \in 0..(4 * MaxFrames)
    BY <1>3, ResponseTypes, SensorAssumption
  <2>2. handed' = IF nr > handed THEN nr ELSE handed
    BY DEF SpiReceiveStep
  <2> QED BY <2>1, <2>2, TypeParts DEF Types, NodeTypeOK
<1>8. inOrder' \in BOOLEAN
  BY DEF SpiReceiveStep
<1>9. rxOwed' \in BOOLEAN
  BY DEF SpiReceiveStep
<1> QED BY <1>2, <1>4, <1>5, <1>6, <1>7, <1>8, <1>9, SpiOnlyTypes

\* The two methods of the SPI leave the FIFO of the device alone.
LEMMA TypesSpiMethods == ASSUME Types, SpiIrqControlStep \/ SpiResetStep PROVE Types'
<1>1. /\ nReset' = nReset /\ chipSelect' = chipSelect
      /\ Evaluate("spiIrqControl") \/ Evaluate("spiReset")
      /\ UNCHANGED accVars
  BY DEF SpiIrqControlStep, SpiIrqControl, SpiResetStep, SpiReset
<1>2. soon' \subseteq soon \cup {"nvic"}
  BY DEF SpiIrqControlStep, SpiIrqControl, SpiResetStep, SpiReset
<1>3. KernelTypeOK'
  BY <1>1, <1>2, Runs, TypeParts DEF Types, KernelTypeOK, Methods
<1>4. AccTypeOK'
  BY <1>1, AccFrame, TypeParts DEF Types
<1>5. SampleRoom'
  BY <1>1 DEF Types, SampleRoom, Evaluate, accVars
<1>6. SpiTypeOK' /\ NodeTypeOK'
  <2>1. CASE SpiIrqControlStep
    <3>1. SpiTypeOK'
      <4>1. SpiTypeOK /\ UNCHANGED <<cr, sr, txFifo, rxFifo, spiPhase, flight, active, spiEvents>>
        BY <2>1, TypeParts DEF Types, SpiIrqControlStep, SpiIrqControl
      <4>2. spiSetIrq' \in BOOLEAN /\ spiIrq' \in BOOLEAN
        BY <2>1, <4>1 DEF SpiIrqControlStep, SpiIrqControl, SpiTypeOK
      <4> QED BY <4>1, <4>2 DEF SpiTypeOK
    <3>2. NodeTypeOK'
      BY <2>1, TypeParts DEF Types, SpiIrqControlStep, NodeTypeOK, nvicVars, historyVars
    <3> QED BY <3>1, <3>2
  <2>2. CASE SpiResetStep
    <3>1. txFifo' \in Seq(Commands) /\ Len(txFifo') <= SPI_FIFO_BYTES
      BY <2>2, EmptySeq DEF SpiResetStep, SpiReset, SPI_FIFO_BYTES
    <3>2. /\ cr' \in [spe : BOOLEAN, rxneie : BOOLEAN, txeie : BOOLEAN, frxth : {1, 2}]
          /\ sr' \in [bsy : BOOLEAN, rxne : BOOLEAN, txe : BOOLEAN]
      BY <2>2, SpiFacts, TypeParts DEF Types, SpiResetStep, SpiReset
    <3>3. SpiTypeOK'
      BY <2>2, <3>1, <3>2, TypeParts DEF Types, SpiResetStep, SpiReset, SpiTypeOK
    <3>4. NodeTypeOK'
      BY <2>2, TypeParts DEF Types, SpiResetStep, NodeTypeOK, nvicVars
    <3> QED BY <3>3, <3>4
  <2> QED BY <2>1, <2>2
<1> QED BY <1>3, <1>4, <1>5, <1>6, TypePartsNext DEF Types

LEMMA TypesNvic == ASSUME Types, NvicStep PROVE Types'
<1>1. /\ nReset' = nReset /\ chipSelect' = chipSelect /\ soon' \subseteq soon \cup {"nvic"}
      /\ Evaluate("nvic") \/ Evaluate("nvicReset")
      /\ UNCHANGED <<spiVars, accVars>>
      /\ UNCHANGED <<sending, handler, used, historyVars>>
  BY DEF NvicStep, NvicProcess, NvicReset
<1>2. KernelTypeOK'
  BY <1>1, Runs, TypeParts DEF Types, KernelTypeOK, Methods
<1>3. SpiTypeOK' /\ AccTypeOK'
  BY <1>1, SpiFrame, AccFrame, TypeParts DEF Types
<1>4. SampleRoom'
  BY <1>1 DEF Types, SampleRoom, Evaluate, accVars
<1>5. pended' \in BOOLEAN /\ seen' \in [irq : BOOLEAN, active : BOOLEAN]
  <2>1. /\ pended \in BOOLEAN /\ seen \in [irq : BOOLEAN, active : BOOLEAN]
        /\ spiIrq \in BOOLEAN /\ active \in BOOLEAN
    BY TypeParts DEF Types, NodeTypeOK, SpiTypeOK
  <2>2. CASE NvicProcess
    <3>1. pended' \in BOOLEAN
      BY <2>1, <2>2 DEF NvicProcess, SetPend, nvicVars
    <3>2. seen' \in [irq : BOOLEAN, active : BOOLEAN]
      BY <2>1, <2>2 DEF NvicProcess, nvicVars
    <3> QED BY <3>1, <3>2
  <2>3. CASE NvicReset
    BY <2>3 DEF NvicReset
  <2> QED BY <2>2, <2>3 DEF NvicStep
<1>6. NodeTypeOK'
  BY <1>1, <1>5, TypeParts DEF Types, NodeTypeOK, historyVars
<1> QED BY <1>2, <1>3, <1>4, <1>6, TypePartsNext DEF Types

\* The device alone takes a step.
LEMMA AccOnlyTypes ==
    ASSUME Types, AccOnly(TRUE), KernelTypeOK', AccTypeOK', SampleRoom', lost' \in BOOLEAN
    PROVE  Types'
<1>1. SpiTypeOK'
  BY SpiFrame, TypeParts DEF Types, AccOnly
<1>2. NodeTypeOK'
  BY TypeParts DEF Types, AccOnly, NodeTypeOK, nvicVars
<1> QED BY <1>1, <1>2, TypePartsNext DEF Types

LEMMA ResetsTypes ==
    ASSUME Types, Resets
    PROVE  AccTypeOK' /\ soon' \subseteq soon /\ loopPhase' = loopPhase /\ pushed' = pushed
<1>1. slaveIn' \in Commands /\ slaveOut' \in Responses /\ ctrl' \in Settings
  BY CommandTypes, ResponseTypes DEF Resets
<1>2. spiState' \in [mode : {"Address", "DataRead", "DataWrite"},
                     addr : {"none", "DATA", "STATUS", "CTRL", "FIFO_THR"}]
  BY DEF Resets
<1>3. fifo' \in Seq(DataBytes) /\ Len(fifo') <= FIFO_CAPACITY
  BY EmptySeq, FifoAssumption DEF Resets
<1>4. measures' \in 0..3
  BY DEF Resets, Sleep
<1>5. AccTypeOK'
  BY <1>1, <1>2, <1>3, <1>4, TypeParts DEF Resets, Types, AccTypeOK
<1> QED BY <1>5 DEF Resets

LEMMA TypesAccReset == ASSUME Types, AccResetStep PROVE Types'
<1>1. AccOnly(TRUE) /\ lost' = TRUE /\ Evaluate("slaveReset") /\ Resets
      /\ nReset' = nReset /\ chipSelect' = chipSelect
  BY DEF AccResetStep, AccOnly, AccReset
<1>2. KernelTypeOK'
  BY <1>1, ResetsTypes, Runs, TypeParts DEF Types, KernelTypeOK
<1>3. SampleRoom'
  BY <1>1, ResetsTypes DEF Types, SampleRoom, Evaluate
<1> QED BY <1>1, <1>2, <1>3, ResetsTypes, AccOnlyTypes

\* The response that is prepared is one.
LEMMA PreparedType ==
    ASSUME NEW state, NEW bytes \in Seq(DataBytes)
    PROVE  Prepared(state, bytes) \in Responses
<1>1. bytes # <<>> => Head(bytes) \in DataBytes
  BY HeadTailProperties
<1> QED BY <1>1, ResponseTypes DEF Prepared

\* What a transaction changes in the device.
LEMMA InterfaceTypes ==
    ASSUME Types, SetsAddress \/ ReadsData \/ WritesRegister \/ SoftwareReset
    PROVE  /\ AccTypeOK' /\ soon' \subseteq soon \cup {"measurementLoop", "updateIrq"}
           /\ loopPhase' = loopPhase /\ pushed' = pushed
<1>1. AccTypeOK
  BY TypeParts DEF Types
<1>2. CASE SetsAddress
  <2>1. slaveOut' \in Responses
    BY <1>1, <1>2, PreparedType DEF SetsAddress, AccTypeOK
  <2>2. slaveIn.addr \in {"none", "DATA", "STATUS", "CTRL", "FIFO_THR"}
    BY <1>1, CommandTypes DEF AccTypeOK
  <2>3. spiState' \in [mode : {"Address", "DataRead", "DataWrite"},
                       addr : {"none", "DATA", "STATUS", "CTRL", "FIFO_THR"}]
    BY <1>2, <2>2 DEF SetsAddress
  <2> QED BY <1>1, <1>2, <2>1, <2>3 DEF SetsAddress, AccTypeOK
<1>3. CASE ReadsData
  <2> DEFINE bytes == IF spiState.addr = "DATA" THEN Popped(fifo) ELSE fifo
  <2>1. bytes \in Seq(DataBytes) /\ Len(bytes) <= FIFO_CAPACITY
    <3>1. Popped(fifo) \in Seq(DataBytes) /\ Len(Popped(fifo)) <= Len(fifo)
      <4>1. CASE fifo = <<>>
        BY <4>1, EmptySeq DEF Popped
      <4>2. CASE fifo # <<>>
        BY <1>1, <4>2, TailType DEF Popped, AccTypeOK
      <4> QED BY <4>1, <4>2
    <3>2. Len(Popped(fifo)) \in Nat /\ Len(fifo) \in Nat
      BY <1>1, <3>1, LenProperties DEF AccTypeOK
    <3> QED BY <1>1, <3>1, <3>2, FifoAssumption DEF AccTypeOK
  <2>2. /\ fifo' = bytes /\ slaveOut' = Prepared(spiState, bytes)
        /\ setIrq' = (setIrq /\ ~ClearsIrq(bytes))
        /\ soon' = (IF ClearsIrq(bytes) THEN soon \cup {"updateIrq"} ELSE soon)
        /\ UNCHANGED <<spiState, ctrl, thr, measures, slaveIn, loopPhase,
                       setting, irq, slaveEvent, pushed>>
    BY <1>3 DEF ReadsData
  <2> HIDE DEF bytes
  <2>3. slaveOut' \in Responses
    BY <2>1, <2>2, PreparedType
  <2> QED BY <1>1, <2>1, <2>2, <2>3 DEF AccTypeOK
<1>4. CASE WritesRegister
  <2>1. ctrl' \in Settings
    BY <1>1, <1>4, CommandTypes DEF WritesRegister, AccTypeOK
  <2>2. slaveOut' \in Responses
    BY <1>4, ResponseTypes DEF WritesRegister
  <2>3. spiState' \in [mode : {"Address", "DataRead", "DataWrite"},
                       addr : {"none", "DATA", "STATUS", "CTRL", "FIFO_THR"}]
    BY <1>1, <1>4 DEF WritesRegister, AccTypeOK
  <2> QED BY <1>1, <1>4, <2>1, <2>2, <2>3 DEF WritesRegister, AccTypeOK
<1>5. CASE SoftwareReset
  BY <1>5, ResetsTypes DEF SoftwareReset
<1> QED BY <1>2, <1>3, <1>4, <1>5

\* The cases of a transaction, for the proofs below.
LEMMA InterfaceCases ==
    ASSUME SpiInterface
    PROVE  /\ Evaluate("spiInterface") /\ nReset' = nReset /\ chipSelect' = chipSelect
           /\ \/ chipSelect /\ spiState.mode = "Address" /\ SetsAddress
              \/ chipSelect /\ spiState.mode = "DataRead" /\ ReadsData
              \/ /\ chipSelect /\ spiState.mode = "DataWrite"
                 /\ slaveIn.kind = "reset" /\ SoftwareReset
              \/ /\ chipSelect /\ spiState.mode = "DataWrite"
                 /\ slaveIn.kind # "reset" /\ WritesRegister
              \/ /\ ~chipSelect
                 /\ spiState' = [spiState EXCEPT !.mode = "Address"]
                 /\ UNCHANGED <<slaveIn, slaveOut, ctrl, thr, fifo, measures, loopPhase,
                                setting, setIrq, irq, slaveEvent, pushed, soon>>
              \/ spiState.mode \notin {"Address", "DataRead", "DataWrite"}
BY DEF SpiInterface

LEMMA TypesSpiInterface == ASSUME Types, SpiInterfaceStep PROVE Types'
<1>1. AccOnly(TRUE) /\ SpiInterface
  BY DEF SpiInterfaceStep, AccOnly
<1>2. lost' \in BOOLEAN
  BY TypeParts DEF SpiInterfaceStep, Types, NodeTypeOK
<1>3. AccTypeOK
  BY TypeParts DEF Types
<1>4. /\ AccTypeOK' /\ soon' \subseteq soon \cup {"measurementLoop", "updateIrq"}
      /\ loopPhase' = loopPhase /\ pushed' = pushed
  <2>1. CASE SetsAddress \/ ReadsData \/ WritesRegister \/ SoftwareReset
    BY <2>1, InterfaceTypes
  <2>2. CASE /\ spiState' = [spiState EXCEPT !.mode = "Address"]
             /\ UNCHANGED <<slaveIn, slaveOut, ctrl, thr, fifo, measures, loopPhase,
                            setting, setIrq, irq, slaveEvent, pushed, soon>>
    BY <1>3, <2>2 DEF AccTypeOK
  <2>3. spiState.mode \in {"Address", "DataRead", "DataWrite"}
    BY <1>3 DEF AccTypeOK
  <2> QED BY <1>1, <2>1, <2>2, <2>3, InterfaceCases
<1>5. KernelTypeOK'
  BY <1>1, <1>4, InterfaceCases, Runs, TypeParts DEF Types, KernelTypeOK, Methods, Threads
<1>6. SampleRoom'
  BY <1>1, <1>4, InterfaceCases DEF Types, SampleRoom, Evaluate
<1> QED BY <1>1, <1>2, <1>4, <1>5, <1>6, AccOnlyTypes

LEMMA TypesUpdateIrq == ASSUME Types, UpdateIrqStep PROVE Types'
<1>1. AccOnly(TRUE) /\ UpdateIrq /\ lost' = lost
  BY DEF UpdateIrqStep, AccOnly
<1>2. KernelTypeOK'
  BY <1>1, Runs, TypeParts DEF Types, KernelTypeOK, UpdateIrq
<1>3. AccTypeOK'
  BY <1>1, TypeParts DEF Types, AccTypeOK, UpdateIrq
<1>4. SampleRoom'
  BY <1>1 DEF Types, SampleRoom, UpdateIrq, Evaluate
<1>5. lost' \in BOOLEAN
  BY <1>1, TypeParts DEF Types, NodeTypeOK
<1> QED BY <1>1, <1>2, <1>3, <1>4, <1>5, AccOnlyTypes

\* The frame of a measurement: bytes with the next numbers.
LEMMA FrameFacts ==
    ASSUME Types, loopPhase = "sample", "measurementLoop" \in run
    PROVE  /\ Frame \in Seq(DataBytes) /\ Len(Frame) \in 1..4
           /\ \A i \in 1..Len(Frame) : Frame[i].nr = pushed + i
           /\ pushed + Len(Frame) \in 0..(4 * MaxFrames)
<1>1. pushed \in Nat /\ pushed + 4 <= 4 * MaxFrames /\ 4 * MaxFrames \in Nat
  BY SensorAssumption, TypeParts DEF Types, SampleRoom, AccTypeOK
<1>2. ctrl.axes \in 0..3 /\ ctrl.axes \in Axes \cup {0}
  <2>1. ctrl.axes \in Axes \cup {0}
    BY TypeParts DEF Types, AccTypeOK, Settings
  <2>2. 0 \in 0..3
    OBVIOUS
  <2> QED BY <2>1, <2>2, SensorAssumption, Zenon
<1>3. 1 + ctrl.axes \in 1..4 /\ 1 + ctrl.axes \in Nat
  BY <1>2
<1>4. ASSUME NEW i \in 1..(1 + ctrl.axes)
      PROVE  [nr |-> pushed + i, header |-> IF i = 1 THEN ctrl.axes ELSE NotHeader]
                \in DataBytes
  <2>1. pushed + i \in 1..(4 * MaxFrames)
    BY <1>1, <1>3
  <2>2. (IF i = 1 THEN ctrl.axes ELSE NotHeader) \in Axes \cup {0, NotHeader}
    BY <1>2
  <2> QED BY <2>1, <2>2 DEF DataBytes
<1>5. Frame \in [1..(1 + ctrl.axes) -> DataBytes]
  BY <1>4 DEF Frame
<1>6. Frame \in Seq(DataBytes) /\ Len(Frame) = 1 + ctrl.axes
  BY <1>3, <1>5
<1>7. \A i \in 1..Len(Frame) : Frame[i].nr = pushed + i
  BY <1>6 DEF Frame
<1>8. pushed + Len(Frame) \in 0..(4 * MaxFrames)
  BY <1>1, <1>3, <1>6
<1> QED BY <1>3, <1>6, <1>7, <1>8

\* What a measurement leaves in the FIFO: the end of what was there and the frame.
LEMMA SampleFacts ==
    ASSUME Types, LoopSamples
    PROVE  /\ EndOf(fifo', fifo \o Frame)
           /\ fifo' # <<>> /\ Len(fifo') <= FIFO_CAPACITY
<1>1. loopPhase = "sample" /\ "measurementLoop" \in run /\ fifo' \in Trimmed(fifo \o Frame)
  BY DEF LoopSamples, Evaluate
<1>2. Frame \in Seq(DataBytes) /\ Len(Frame) \in 1..4
  BY <1>1, FrameFacts
<1>3. fifo \in Seq(DataBytes) /\ Len(fifo) <= FIFO_CAPACITY /\ Len(fifo) \in Nat
  BY TypeParts, LenProperties DEF Types, AccTypeOK
<1>4. fifo \o Frame \in Seq(DataBytes) /\ Len(fifo \o Frame) = Len(fifo) + Len(Frame)
  BY <1>2, <1>3, ConcatProperties
<1>5. fifo \o Frame # <<>> /\ Len(fifo \o Frame) <= FIFO_CAPACITY + 4
  <2> DEFINE all == fifo \o Frame
             before == Len(fifo)
             added == Len(Frame)
  <2>1. /\ Len(all) = before + added /\ before \in Nat /\ before <= FIFO_CAPACITY
        /\ added \in 1..4
    BY <1>2, <1>3, <1>4
  <2> HIDE DEF all, before, added
  <2>2. Len(all) # 0 /\ Len(all) <= FIFO_CAPACITY + 4
    BY <2>1, FifoAssumption
  <2>3. all # <<>> /\ Len(all) <= FIFO_CAPACITY + 4
    BY <2>2, EmptySeq
  <2> QED BY <2>3 DEF all
<1> QED BY <1>1, <1>4, <1>5, TrimmedFits

\* The end of a turn of the loop.
LEMMA NextStateTypes ==
    ASSUME NEW state \in 0..3, NEW c \in Settings, NextState(state, c)
    PROVE  /\ ctrl' \in Settings /\ measures' \in 0..3 /\ setting' \in 0..3
           /\ loopPhase' \in LoopPhases
<1>1. c.mode \in 0..3 /\ c \in [mode : 0..3, axes : Axes \cup {0}, ie : BOOLEAN]
  BY DEF Settings
<1>2. NextSetting(state, c.mode) \in 0..3
  BY <1>1 DEF NextSetting, Standby
<1>3. ctrl' = [c EXCEPT !.mode = NextSetting(state, c.mode)]
  BY DEF NextState
<1>4. ctrl' \in Settings
  BY <1>1, <1>2, <1>3 DEF Settings
<1>5. /\ measures' \in {state, NextSetting(state, c.mode)}
      /\ setting' \in {NextSetting(state, c.mode), Sleep}
      /\ loopPhase' \in {"delay", "sample", "waitMode"}
  BY DEF NextState
<1> QED BY <1>2, <1>4, <1>5 DEF LoopPhases, Sleep

LEMMA TypesLoop == ASSUME Types, LoopStep PROVE Types'
<1>1. AccOnly(TRUE) /\ lost' = (lost /\ ~(loopPhase = "sample" /\ fifo' # <<>>))
      /\ (LoopWakes \/ LoopDelayed \/ LoopSamples)
  BY DEF LoopStep, AccOnly
<1>2. lost' \in BOOLEAN
  BY <1>1, TypeParts DEF Types, NodeTypeOK
<1>3. /\ Evaluate("measurementLoop") /\ nReset' = nReset /\ chipSelect' = chipSelect
      /\ soon' \subseteq soon \cup {"updateIrq"}
  BY <1>1 DEF LoopWakes, LoopDelayed, LoopSamples
<1>4. KernelTypeOK'
  BY <1>3, Runs, TypeParts DEF Types, KernelTypeOK, Methods
<1>5. SampleRoom'
  BY <1>3 DEF SampleRoom, Evaluate
<1>6. AccTypeOK /\ measures \in 0..3 /\ ctrl \in Settings
  BY TypeParts DEF Types, AccTypeOK
<1>7. CASE LoopWakes
  <2>1. /\ ctrl' \in Settings /\ measures' \in 0..3 /\ setting' \in 0..3
        /\ loopPhase' \in LoopPhases
    BY <1>6, <1>7, NextStateTypes DEF LoopWakes
  <2>2. AccTypeOK'
    BY <1>6, <1>7, <2>1 DEF LoopWakes, AccTypeOK
  <2> QED BY <1>1, <1>2, <1>4, <1>5, <2>2, AccOnlyTypes
<1>8. CASE LoopDelayed
  <2>1. AccTypeOK'
    BY <1>6, <1>8 DEF LoopDelayed, AccTypeOK, LoopPhases, Sleep
  <2> QED BY <1>1, <1>2, <1>4, <1>5, <2>1, AccOnlyTypes
<1>9. CASE LoopSamples
  <2> DEFINE c == IF measures = Single THEN [ctrl EXCEPT !.mode = Standby] ELSE ctrl
  <2>1. c \in Settings
    BY <1>6 DEF Settings, Standby
  <2>2. NextState(measures, c)
    BY <1>9 DEF LoopSamples
  <2>3. /\ ctrl' \in Settings /\ measures' \in 0..3 /\ setting' \in 0..3
        /\ loopPhase' \in LoopPhases
    <3> HIDE DEF c
    <3> QED BY <1>6, <2>1, <2>2, NextStateTypes
  <2>4. fifo' \in Seq(DataBytes) /\ Len(fifo') <= FIFO_CAPACITY
    BY <1>9, SampleFacts DEF EndOf
  <2>5. pushed' \in 0..(4 * MaxFrames)
    BY <1>9, FrameFacts DEF LoopSamples, Evaluate
  <2>6. setIrq' \in BOOLEAN
    BY <1>9 DEF LoopSamples
  <2>7. AccTypeOK'
    BY <1>6, <1>9, <2>3, <2>4, <2>5, <2>6 DEF LoopSamples, AccTypeOK
  <2> QED BY <1>1, <1>2, <1>4, <1>5, <2>7, AccOnlyTypes
<1> QED BY <1>1, <1>7, <1>8, <1>9

\* A register access of the program: what it writes are commands.
LEMMA AccessTypes ==
    ASSUME SpiTypeOK,
           \/ \E spe \in BOOLEAN : Access(WriteCR1(spe))
           \/ \E v \in CR2Values : Access(WriteCR2(v.rxneie, v.txeie, v.frxth))
           \/ \E byte \in Commands : Access(WriteDR(byte))
           \/ Access(ReadDR)
    PROVE  SpiTypeOK' /\ soon' = soon /\ chipSelect' = chipSelect
<1>1. /\ soon' = soon /\ chipSelect' = chipSelect
      /\ UNCHANGED <<spiPhase, flight, spiSetIrq, spiIrq, active>>
  BY DEF Access
<1>2. CASE \E spe \in BOOLEAN : Access(WriteCR1(spe))
  BY <1>1, <1>2 DEF Access, WriteCR1, SpiTypeOK
<1>3. CASE \E v \in CR2Values : Access(WriteCR2(v.rxneie, v.txeie, v.frxth))
  BY <1>1, <1>3, NodeAssumption DEF Access, WriteCR2, SpiTypeOK
<1>4. CASE \E byte \in Commands : Access(WriteDR(byte))
  <2>1. PICK byte \in Commands : WriteDR(byte)
    BY <1>4 DEF Access
  <2>2. txFifo' = Put(txFifo, byte) /\ sr' = Status(sr.bsy, txFifo', rxFifo)
    BY <2>1 DEF WriteDR
  <2>3. txFifo' \in Seq(Commands) /\ Len(txFifo') <= SPI_FIFO_BYTES
    BY <2>2, PutType DEF SpiTypeOK
  <2>4. sr' \in [bsy : BOOLEAN, rxne : BOOLEAN, txe : BOOLEAN]
    BY <2>2, <2>3, SpiFacts DEF SpiTypeOK
  <2> QED BY <1>1, <2>1, <2>3, <2>4 DEF WriteDR, SpiTypeOK
<1>5. CASE Access(ReadDR)
  <2>1. rxFifo # <<>> /\ rxFifo' = Tail(rxFifo) /\ sr' = Status(sr.bsy, txFifo, rxFifo')
        /\ UNCHANGED <<cr, txFifo, spiEvents>>
    BY <1>5 DEF Access, ReadDR
  <2>2. rxFifo' \in Seq(Responses) /\ Len(rxFifo') <= SPI_FIFO_BYTES
    <3>1. rxFifo' \in Seq(Responses) /\ Len(rxFifo') <= Len(rxFifo)
      BY <2>1, TailType DEF SpiTypeOK
    <3>2. Len(rxFifo') \in Nat /\ Len(rxFifo) \in Nat /\ Len(rxFifo) <= 4
      BY <3>1, LenProperties DEF SpiTypeOK, SPI_FIFO_BYTES
    <3> QED BY <3>1, <3>2 DEF SPI_FIFO_BYTES
  <2>3. sr' \in [bsy : BOOLEAN, rxne : BOOLEAN, txe : BOOLEAN]
    BY <2>1, <2>2, SpiFacts DEF SpiTypeOK
  <2> QED BY <1>1, <2>1, <2>2, <2>3 DEF SpiTypeOK
<1> QED BY <1>1, <1>2, <1>3, <1>4, <1>5

\* A byte the program sends: an address first, zeros only after an address.
LEMMA SendCases ==
    ASSUME Types, SendAddress \/ SendZero \/ SendValue
    PROVE  \E byte \in Commands, next \in {"none", "zeros", "CTRL", "FIFO_THR"} :
               /\ Sends(byte, next) /\ sending # "none"
               /\ byte.kind = "zero" => sending = "zeros"
<1>1. CASE SendAddress
  <2>1. PICK byte, next : /\ Sends(byte, next)
               /\ \/ /\ byte \in {Command("read", a, Off) : a \in {"DATA", "STATUS"}}
                     /\ next = "zeros"
                  \/ /\ byte \in {Command("write", a, Off) : a \in {"CTRL", "FIFO_THR"}}
                     /\ next \in {"CTRL", "FIFO_THR"}
    BY <1>1 DEF SendAddress
  <2>2. byte \in Commands /\ byte.kind # "zero"
    BY <2>1, CommandTypes DEF Command
  <2> QED BY <1>1, <2>1, <2>2 DEF SendAddress
<1>2. CASE SendZero
  BY <1>2, CommandTypes DEF SendZero
<1>3. CASE SendValue
  <2>1. PICK byte : /\ Sends(byte, "none")
                    /\ \/ byte \in {Command("value", "CTRL", v) : v \in Values}
                       \/ byte = Command("reset", "CTRL", Off)
                       \/ byte = Command("value", "FIFO_THR", Off)
    BY <1>3 DEF SendValue
  <2>2. byte \in Commands /\ byte.kind # "zero"
    BY <2>1, CommandTypes, NodeAssumption DEF Command
  <2> QED BY <1>3, <2>1, <2>2 DEF SendValue
<1> QED BY <1>1, <1>2, <1>3

\* What the CPU may do in its turn.
Program ==
    \/ Configure \/ Select \/ Deselect \/ Receive
    \/ SendAddress \/ SendZero \/ SendValue
Idles == UNCHANGED <<spiVars, soon, chipSelect, sending, used, handler, rxOwed>>

LEMMA CpuCases ==
    ASSUME CpuStep
    PROVE  /\ Evaluate("cpu") /\ nReset' = nReset
           /\ UNCHANGED <<accVars, nvicVars, handed, inOrder, lost>>
           /\ \/ handler = "returning" /\ EndReturn
              \/ handler # "returning" /\ Program /\ UNCHANGED <<handler, rxOwed>>
              \/ StartHandler \/ BeginReturn \/ Idles
BY DEF CpuStep, Program, Idles

LEMMA ProgramTypes ==
    ASSUME Types, Program
    PROVE  /\ SpiTypeOK' /\ chipSelect' \in BOOLEAN
           /\ soon' \subseteq soon \cup {"spiInterface"}
           /\ sending' \in {"none", "address", "zeros", "CTRL", "FIFO_THR"}
           /\ used' \in [bytes : 0..MaxBytes, configs : 0..MaxConfigs, power : 0..MaxPower]
<1>1. /\ SpiTypeOK /\ chipSelect \in BOOLEAN
      /\ sending \in {"none", "address", "zeros", "CTRL", "FIFO_THR"}
      /\ used \in [bytes : 0..MaxBytes, configs : 0..MaxConfigs, power : 0..MaxPower]
  BY TypeParts DEF Types, KernelTypeOK, NodeTypeOK
<1>2. CASE Configure
  <2>1. SpiTypeOK' /\ soon' = soon /\ chipSelect' = chipSelect
    <3>1. \/ \E spe \in BOOLEAN : Access(WriteCR1(spe))
          \/ \E v \in CR2Values : Access(WriteCR2(v.rxneie, v.txeie, v.frxth))
      BY <1>2 DEF Configure, Access
    <3> QED BY <1>1, <3>1, AccessTypes
  <2>2. used' = [used EXCEPT !.configs = @ + 1] /\ used.configs < MaxConfigs
        /\ sending' = sending
    BY <1>2 DEF Configure
  <2>3. used.configs + 1 \in 0..MaxConfigs
    BY <1>1, <2>2, NodeAssumption
  <2>4. used' \in [bytes : 0..MaxBytes, configs : 0..MaxConfigs, power : 0..MaxPower]
    BY <1>1, <2>2, <2>3
  <2> QED BY <1>1, <2>1, <2>2, <2>4
<1>3. CASE Select
  BY <1>1, <1>3, SpiFrame DEF Select
<1>4. CASE Deselect
  BY <1>1, <1>4, SpiFrame DEF Deselect
<1>5. CASE Receive
  BY <1>1, <1>5, AccessTypes DEF Receive
<1>6. CASE SendAddress \/ SendZero \/ SendValue
  <2>1. PICK byte \in Commands, next \in {"none", "zeros", "CTRL", "FIFO_THR"} :
            Sends(byte, next)
    BY <1>6, SendCases
  <2>2. SpiTypeOK' /\ soon' = soon /\ chipSelect' = chipSelect
    BY <1>1, <2>1, AccessTypes DEF Sends
  <2>3. used' = [used EXCEPT !.bytes = @ + 1] /\ used.bytes < MaxBytes /\ sending' = next
    BY <2>1 DEF Sends
  <2>4. used.bytes + 1 \in 0..MaxBytes
    BY <1>1, <2>3, NodeAssumption
  <2>5. used' \in [bytes : 0..MaxBytes, configs : 0..MaxConfigs, power : 0..MaxPower]
    BY <1>1, <2>3, <2>4
  <2> QED BY <1>1, <2>2, <2>3, <2>5
<1> QED BY <1>2, <1>3, <1>4, <1>5, <1>6 DEF Program

LEMMA TypesCpu == ASSUME Types, CpuStep PROVE Types'
<1>1. /\ SpiTypeOK /\ NodeTypeOK /\ KernelTypeOK /\ AccTypeOK
  BY TypeParts DEF Types
<1>2. /\ SpiTypeOK' /\ chipSelect' \in BOOLEAN
      /\ soon' \subseteq soon \cup {"spiInterface", "spiIrqControl", "nvic"}
      /\ sending' \in {"none", "address", "zeros", "CTRL", "FIFO_THR"}
      /\ used' \in [bytes : 0..MaxBytes, configs : 0..MaxConfigs, power : 0..MaxPower]
      /\ handler' \in {"none", "running", "returning"} /\ rxOwed' \in BOOLEAN
  <2>1. CASE EndReturn
    <3>1. SpiTypeOK'
      <4>1. active' \in BOOLEAN
        BY <2>1 DEF EndReturn
      <4>2. UNCHANGED <<cr, sr, txFifo, rxFifo, spiPhase, flight, spiSetIrq, spiIrq,
                        spiEvents>>
        BY <2>1 DEF EndReturn
      <4> QED BY <1>1, <4>1, <4>2 DEF SpiTypeOK
    <3> QED BY <1>1, <2>1, <3>1 DEF EndReturn, NodeTypeOK, KernelTypeOK
  <2>2. CASE Program /\ UNCHANGED <<handler, rxOwed>>
    BY <1>1, <2>2, ProgramTypes DEF NodeTypeOK
  <2>3. CASE StartHandler
    <3>1. SpiTypeOK'
      BY <1>1, <2>3 DEF StartHandler, SpiTypeOK
    <3> QED BY <1>1, <2>3, <3>1 DEF StartHandler, NodeTypeOK, KernelTypeOK
  <2>4. CASE BeginReturn
    BY <1>1, <2>4, SpiFrame DEF BeginReturn, NodeTypeOK, KernelTypeOK
  <2>5. CASE Idles
    BY <1>1, <2>5, SpiFrame DEF Idles, NodeTypeOK, KernelTypeOK
  <2> QED BY <2>1, <2>2, <2>3, <2>4, <2>5, CpuCases
<1>3. KernelTypeOK'
  BY <1>1, <1>2, CpuCases, Runs DEF KernelTypeOK, Methods
<1>4. AccTypeOK'
  BY <1>1, CpuCases, AccFrame
<1>5. NodeTypeOK'
  BY <1>1, <1>2, CpuCases DEF NodeTypeOK, nvicVars
<1>6. SampleRoom'
  BY CpuCases DEF Types, SampleRoom, Evaluate, accVars
<1> QED BY <1>2, <1>3, <1>4, <1>5, <1>6, TypePartsNext DEF Types

\* Every action keeps the types.
LEMMA TypesPreserved == Types /\ [Next]_vars => Types'
<1> SUFFICES ASSUME Types, [Next]_vars PROVE Types'
  OBVIOUS
<1>1. CASE UNCHANGED vars
  BY <1>1 DEF Types, TypeOK, SpiTypeOK, AccTypeOK, SampleRoom, vars, kernelVars,
              spiVars, accVars, nvicVars, historyVars
<1>2. CASE DeltaCycle
  BY <1>2, TypesDelta
<1>3. CASE TimePasses
  BY <1>3, TypesTime
<1>4. CASE SpiStep
  BY <1>4, TypesSpiWake, TypesSpiReceive, TypesSpiMethods DEF SpiStep
<1>5. CASE NvicStep
  BY <1>5, TypesNvic
<1>6. CASE AccStep
  BY <1>6, TypesAccReset, TypesSpiInterface, TypesUpdateIrq, TypesLoop DEF AccStep
<1>7. CASE CpuStep
  BY <1>7, TypesCpu
<1> QED BY <1>1, <1>2, <1>3, <1>4, <1>5, <1>6, <1>7 DEF Next

\* Every variable keeps its type: the FIFOs of the SPI and of the accelerometer
\* never hold more bytes than they have room for.
THEOREM NodeTypes == Spec => []TypeOK
<1>1. Types => TypeOK
  BY DEF Types
<1> QED BY TypesInitially, TypesPreserved, <1>1, PTL DEF Spec

-----------------------------------------------------------------------------
(* Who runs when *)

\* A process that will run, in this phase or in the next.
Pending(p) == p \in run \cup soon

\* The methods of a delta cycle run before its threads, so no thread sees one half
\* done; the change of nReset finds nothing else going on; and the device hears of
\* the end of a transfer at the instant the SPI does.
Turns ==
    /\ soon \cap (Resetters \cup {"spi", "cpu"}) = {}
    /\ "nReset" \in soon => run \cap Methods \subseteq {"spiInterface"} /\ "nvic" \notin soon
    /\ run \cap Resetters # {} => "nvic" \notin run
    /\ "spiIrqControl" \in run => "spiIrqControl" \notin soon
    /\ "cpu" \in run => nReset /\ ~spiEvents /\ run \cap Methods \subseteq {"spiInterface"}
    /\ "spi" \in run /\ spiPhase = "transfer" => run \cap Methods \subseteq {"spiInterface"}
    /\ "nReset" \in soon \/ run \cap Resetters # {} =>
         "cpu" \notin run /\ sending = "none" /\ handler = "none"
    /\ "spiInterface" \in soon => ~chipSelect /\ "cpu" \notin run
    /\ "spiInterface" \in run /\ chipSelect =>
         spiPhase = "transfer" /\ "spi" \in run /\ ~Pending("updateIrq")
    /\ slaveEvent => spiPhase = "transfer" /\ "spi" \notin run

\* The methods other than spiInterface do not meet the threads they would disturb.
LEMMA MethodTurn ==
    ASSUME Turns, NEW p \in Methods \ {"spiInterface"}, Evaluate(p)
    PROVE  /\ "cpu" \notin run /\ "nReset" \notin soon
           /\ ~("spi" \in run /\ spiPhase = "transfer")
BY DEF Turns, Evaluate

\* A thread runs when all methods have.
LEMMA ThreadTurn ==
    ASSUME NEW p \in Threads, Evaluate(p)
    PROVE  /\ run \cap Methods = {} /\ run \cap Resetters = {}
           /\ run' = run \ {p} /\ run' \cap Methods = {} /\ p \notin run' /\ p \in run
           /\ "nvic" \notin run /\ "spiInterface" \notin run
           /\ "spiIrqControl" \notin run /\ "updateIrq" \notin run
BY DEF Evaluate, Methods, Resetters, Threads

\* A step of such a method that at most asks for the NVIC.
LEMMA TurnsMethod ==
    ASSUME Turns, NEW p \in Methods \ {"spiInterface"}, Evaluate(p),
           soon' \subseteq soon \cup {"nvic"},
           UNCHANGED <<nReset, chipSelect, spiPhase, slaveEvent, sending, handler>>
    PROVE  Turns'
<1>1. /\ "cpu" \notin run /\ "nReset" \notin soon /\ run' = run \ {p}
      /\ ~("spi" \in run /\ spiPhase = "transfer")
  BY MethodTurn DEF Evaluate
<1>2. soon' \cap (Resetters \cup {"spi", "cpu"}) = {}
  BY DEF Turns, Resetters
<1>3. "nReset" \notin soon' /\ "cpu" \notin run'
  BY <1>1
<1> QED BY <1>1, <1>2, <1>3 DEF Turns, Pending

LEMMA TurnsDelta == ASSUME Types, Turns, DeltaCycle PROVE Turns'
<1>1. /\ run = {} /\ soon' = {} /\ chipSelect' = chipSelect
      /\ nReset' = (nReset # ("nReset" \in soon))
      /\ run' = {p \in soon \ {"nReset"} : p = "measurementLoop" => loopPhase = "waitMode"}
                  \cup (IF "nReset" \in soon THEN Resetters ELSE {})
                  \cup (IF nReset' /\ ~nReset /\ spiPhase = "idle" THEN {"spi"} ELSE {})
      /\ UNCHANGED <<spiPhase, slaveEvent, sending, handler>>
  BY DEF DeltaCycle, NextDelta, spiVars, accVars
<1>2. "cpu" \notin run' /\ ("spi" \in run' => spiPhase = "idle")
  BY <1>1 DEF Turns, Resetters
<1>3. run' \cap Resetters # {} =>
        "nReset" \in soon /\ "nvic" \notin run' /\ sending = "none" /\ handler = "none"
  BY <1>1 DEF Turns, Resetters
<1>4. "spiInterface" \in run' => ~chipSelect
  BY <1>1 DEF Turns, Resetters
<1> QED BY <1>1, <1>2, <1>3, <1>4 DEF Turns

LEMMA TurnsTime == ASSUME Types, Turns, TimePasses PROVE Turns'
<1> PICK now \in SUBSET Due, power \in BOOLEAN :
       /\ power => used.power < MaxPower /\ "cpu" \notin now
       /\ Advance(now, power)
  BY DEF TimePasses
<1>1. /\ run = {} /\ soon = {}
      /\ run' = now \cup (IF "spi" \in now /\ slaveEvent THEN {"spiInterface"} ELSE {})
                  \cup (IF "cpu" \in now /\ spiEvents /\ spiPhase = "idle"
                        THEN {"spi"} ELSE {})
      /\ slaveEvent' = (slaveEvent /\ "spi" \notin now)
      /\ spiEvents' = (spiEvents /\ "cpu" \notin now)
      /\ soon' = (IF power THEN {"nReset"} ELSE {})
      /\ sending' = (IF power THEN "none" ELSE sending)
      /\ handler' = (IF power THEN "none" ELSE handler)
      /\ UNCHANGED <<nReset, chipSelect, spiPhase>>
  BY DEF Advance, Settled
<1>2. /\ "spi" \in now => spiPhase = "transfer"
      /\ "cpu" \in now => nReset
      /\ now \subseteq {"spi", "cpu", "measurementLoop"}
  BY DEF Due
<1>3. /\ run' \cap Methods \subseteq {"spiInterface"} /\ run' \cap Resetters = {}
      /\ "nvic" \notin run' /\ "updateIrq" \notin run' /\ "spiIrqControl" \notin run'
  BY <1>1, <1>2 DEF Methods, Resetters
<1>4. soon' \cap (Resetters \cup {"spi", "cpu"}) = {} /\ soon' \subseteq {"nReset"}
  BY <1>1 DEF Resetters
<1>5. "cpu" \in run' => "cpu" \in now /\ nReset' /\ ~spiEvents' /\ "nReset" \notin soon'
  BY <1>1, <1>2
<1>6. "nReset" \in soon' => "cpu" \notin run' /\ sending' = "none" /\ handler' = "none"
  BY <1>1, <1>5
<1>7. "spiInterface" \in run' => spiPhase' = "transfer" /\ "spi" \in run'
  BY <1>1, <1>2
<1>8. slaveEvent' => spiPhase' = "transfer" /\ "spi" \notin run'
  BY <1>1, <1>2 DEF Turns
<1> QED BY <1>3, <1>4, <1>5, <1>6, <1>7, <1>8 DEF Turns, Pending

\* What the SPI tells the device at the beginning of a transfer.
LEMMA TransactionCases ==
    ASSUME Transaction
    PROVE  \/ /\ spiPhase' = "transfer" /\ ReadyToTransmit /\ chipSelect
              /\ slaveIn' = Head(txFifo) /\ slaveEvent' = TRUE
           \/ /\ ~(spiPhase' = "transfer" /\ ReadyToTransmit /\ chipSelect)
              /\ slaveIn' = slaveIn /\ slaveEvent' = slaveEvent
BY DEF Transaction

LEMMA TurnsSpi == ASSUME Types, Turns, SpiWakeStep \/ SpiReceiveStep PROVE Turns'
<1>1. /\ Evaluate("spi") /\ "spi" \in Threads /\ Transaction
      /\ UNCHANGED <<nReset, chipSelect, spiEvents, sending, handler>>
      /\ soon' \subseteq soon \cup {"spiIrqControl"}
  BY DEF SpiWakeStep, SpiReceiveStep, SpiOnly, SpiWake, SpiReceive, Threads
<1>2. /\ run \cap Methods = {} /\ run' = run \ {"spi"} /\ run' \cap Methods = {}
      /\ run' \cap Resetters = {}
  BY <1>1, ThreadTurn DEF Methods, Resetters
<1>3. slaveEvent' => spiPhase' = "transfer" /\ "spi" \notin run'
  <2>1. "spi" \in run
    BY <1>1 DEF Evaluate
  <2> QED BY <1>1, <1>2, <2>1, TransactionCases DEF Turns
<1>4. soon' \cap (Resetters \cup {"spi", "cpu"}) = {}
  BY <1>1 DEF Turns, Resetters
<1>5. /\ "nReset" \in soon' => "nReset" \in soon
      /\ "nvic" \in soon' => "nvic" \in soon
      /\ "spiInterface" \in soon' => "spiInterface" \in soon
  BY <1>1
<1>6. "spiInterface" \notin run' /\ "spiIrqControl" \notin run'
  BY <1>2 DEF Methods
<1> QED BY <1>1, <1>2, <1>3, <1>4, <1>5, <1>6 DEF Turns

LEMMA TurnsMethods ==
    ASSUME Types, Turns,
           SpiIrqControlStep \/ SpiResetStep \/ NvicStep \/ AccResetStep \/ UpdateIrqStep
    PROVE  Turns'
<1>1. UNCHANGED <<nReset, chipSelect, spiPhase, slaveEvent, sending, handler>>
  BY DEF SpiIrqControlStep, SpiIrqControl, SpiResetStep, SpiReset, NvicStep, NvicProcess,
         NvicReset, AccResetStep, AccReset, Resets, AccOnly, UpdateIrqStep, UpdateIrq,
         accVars, spiVars
<1>2. soon' \subseteq soon \cup {"nvic"}
  BY DEF SpiIrqControlStep, SpiIrqControl, SpiResetStep, SpiReset, NvicStep, NvicProcess,
         NvicReset, AccResetStep, AccReset, Resets, AccOnly, UpdateIrqStep, UpdateIrq
<1>3. \E p \in Methods \ {"spiInterface"} : Evaluate(p)
  BY DEF SpiIrqControlStep, SpiIrqControl, SpiResetStep, SpiReset, NvicStep, NvicProcess,
         NvicReset, AccResetStep, AccReset, AccOnly, UpdateIrqStep, UpdateIrq, Methods
<1> QED BY <1>1, <1>2, <1>3, TurnsMethod

LEMMA TurnsInterface == ASSUME Types, Turns, SpiInterfaceStep PROVE Turns'
<1>1. SpiInterface /\ UNCHANGED <<spiVars, sending, handler>>
  BY DEF SpiInterfaceStep, AccOnly
<1>2. /\ soon' \subseteq soon \cup {"measurementLoop", "updateIrq"} /\ slaveEvent' = slaveEvent
  BY <1>1, InterfaceCases, TypeParts
     DEF SetsAddress, ReadsData, WritesRegister, SoftwareReset, Resets, Types, AccTypeOK
<1>3. run' = run \ {"spiInterface"} /\ nReset' = nReset /\ chipSelect' = chipSelect
  BY <1>1, InterfaceCases DEF Evaluate
<1>4. soon' \cap (Resetters \cup {"spi", "cpu"}) = {}
  BY <1>2 DEF Turns, Resetters
<1>5. /\ "nReset" \in soon' => "nReset" \in soon
      /\ "nvic" \in soon' => "nvic" \in soon
      /\ "spiInterface" \in soon' => "spiInterface" \in soon
      /\ "spiIrqControl" \in soon' => "spiIrqControl" \in soon
  BY <1>2
<1>6. UNCHANGED <<spiPhase, spiEvents>>
  BY <1>1 DEF spiVars
<1> QED BY <1>1, <1>2, <1>3, <1>4, <1>5, <1>6 DEF Turns

LEMMA TurnsLoop == ASSUME Types, Turns, LoopStep PROVE Turns'
<1>1. /\ Evaluate("measurementLoop") /\ "measurementLoop" \in Threads
      /\ UNCHANGED <<nReset, chipSelect, spiVars, sending, handler, slaveEvent>>
      /\ soon' \subseteq soon \cup {"updateIrq"}
  BY DEF LoopStep, AccOnly, LoopWakes, LoopDelayed, LoopSamples, Threads
<1>2. run' = run \ {"measurementLoop"} /\ run' \cap Methods = {} /\ run' \cap Resetters = {}
  BY <1>1, ThreadTurn DEF Methods, Resetters
<1>3. soon' \cap (Resetters \cup {"spi", "cpu"}) = {}
  BY <1>1 DEF Turns, Resetters
<1>4. /\ "nReset" \in soon' => "nReset" \in soon
      /\ "nvic" \in soon' => "nvic" \in soon
      /\ "spiInterface" \in soon' => "spiInterface" \in soon
  BY <1>1
<1>5. "spiInterface" \notin run' /\ "spiIrqControl" \notin run'
  BY <1>2 DEF Methods
<1>6. UNCHANGED <<spiPhase, spiEvents>>
  BY <1>1 DEF spiVars
<1> QED BY <1>1, <1>2, <1>3, <1>4, <1>5, <1>6 DEF Turns

\* What every step of the CPU leaves alone, and the turn it runs in.
LEMMA CpuTurn ==
    ASSUME Types, Turns, CpuStep
    PROVE  /\ run \cap Methods = {} /\ run' = run \ {"cpu"} /\ run' \cap Methods = {}
           /\ "cpu" \in run /\ nReset /\ nReset' /\ ~spiEvents
           /\ "nReset" \notin soon /\ "spiInterface" \notin soon
           /\ UNCHANGED <<spiPhase, flight, spiSetIrq, spiIrq, accVars, nvicVars,
                          handed, inOrder, lost>>
<1>1. Evaluate("cpu") /\ "cpu" \in Threads
  BY CpuCases DEF Threads
<1>2. run \cap Methods = {} /\ run' = run \ {"cpu"} /\ run' \cap Methods = {} /\ "cpu" \in run
  BY <1>1, ThreadTurn
<1>3. nReset /\ ~spiEvents /\ "nReset" \notin soon /\ "spiInterface" \notin soon
  BY <1>2 DEF Turns
<1>4. UNCHANGED <<spiPhase, flight, spiSetIrq, spiIrq>>
  <2>1. CASE Program
    <3>1. Program => \/ UNCHANGED spiVars
                     \/ UNCHANGED <<spiPhase, flight, spiSetIrq, spiIrq>>
      BY DEF Program, Configure, Select, Deselect, Receive, SendAddress, SendZero,
             SendValue, Sends, Access
    <3> QED BY <2>1, <3>1 DEF spiVars
  <2>2. CASE EndReturn \/ StartHandler \/ BeginReturn \/ Idles
    BY <2>2 DEF EndReturn, StartHandler, BeginReturn, Idles, spiVars
  <2> QED BY <2>1, <2>2, CpuCases
<1> QED BY <1>2, <1>3, <1>4, CpuCases

LEMMA TurnsCpu == ASSUME Types, Turns, CpuStep PROVE Turns'
<1>1. /\ run \cap Methods = {} /\ run' = run \ {"cpu"} /\ run' \cap Methods = {}
      /\ "nReset" \notin soon /\ "spiInterface" \notin soon
      /\ UNCHANGED <<spiPhase, slaveEvent>>
  BY CpuTurn DEF accVars
<1>2. /\ soon' \subseteq soon \cup {"spiInterface", "spiIrqControl", "nvic"}
      /\ "spiInterface" \in soon' => ~chipSelect'
  <2>1. CASE Program
    <3>1. soon' = soon \/ (chipSelect' = FALSE /\ soon' = soon \cup {"spiInterface"})
      BY <2>1 DEF Program, Configure, Select, Deselect, Receive, SendAddress, SendZero,
             SendValue, Sends, Access
    <3> QED BY <1>1, <3>1
  <2>2. CASE EndReturn \/ StartHandler \/ BeginReturn \/ Idles
    BY <1>1, <2>2 DEF EndReturn, StartHandler, BeginReturn, Idles
  <2> QED BY <2>1, <2>2, CpuCases
<1>3. soon' \cap (Resetters \cup {"spi", "cpu"}) = {} /\ "nReset" \notin soon'
  BY <1>1, <1>2 DEF Turns, Resetters
<1>4. /\ "cpu" \notin run' /\ "spiInterface" \notin run' /\ "spiIrqControl" \notin run'
      /\ run' \cap Resetters = {}
  BY <1>1 DEF Methods, Resetters
<1> QED BY <1>1, <1>2, <1>3, <1>4 DEF Turns

LEMMA TurnsInitially == Init => Turns
BY DEF Init, AccInit, Turns, Pending, Resetters

LEMMA TurnsPreserved == ASSUME Types, Turns, [Next]_vars PROVE Turns'
<1>1. CASE UNCHANGED vars
  BY <1>1 DEF Turns, Pending, vars, kernelVars, spiVars, accVars
<1>2. CASE DeltaCycle
  BY <1>2, TurnsDelta
<1>3. CASE TimePasses
  BY <1>3, TurnsTime
<1>4. CASE SpiStep
  BY <1>4, TurnsSpi, TurnsMethods DEF SpiStep
<1>5. CASE NvicStep
  BY <1>5, TurnsMethods
<1>6. CASE AccStep
  BY <1>6, TurnsMethods, TurnsInterface, TurnsLoop DEF AccStep
<1>7. CASE CpuStep
  BY <1>7, TurnsCpu
<1> QED BY <1>1, <1>2, <1>3, <1>4, <1>5, <1>6, <1>7 DEF Next

-----------------------------------------------------------------------------
(* No lost wake-up of the SPI *)

\* An enabled SPI that waits with a byte to send is woken, or awake already.
TxInv == spiPhase = "idle" /\ ReadyToTransmit => spiEvents \/ "spi" \in run

\* A write of CR1 notifies the event only if it enables the SPI: one that was
\* enabled, and has a byte to send, is in its turn already.
LEMMA TxProgram ==
    ASSUME Types, Turns, TxInv, CpuStep, Program
    PROVE  TxInv'
<1>1. /\ run' = run \ {"cpu"} /\ nReset /\ nReset' /\ ~spiEvents /\ spiPhase' = spiPhase
      /\ "spi" \in run => "spi" \in run'
  BY CpuTurn
<1>2. CASE Configure
  <2>1. CASE \E spe \in BOOLEAN : Access(WriteCR1(spe))
    BY <1>1, <2>1, TypeParts
       DEF Access, WriteCR1, TxInv, ReadyToTransmit, Types, SpiTypeOK
  <2>2. CASE ~cr.spe /\ \E v \in CR2Values : Access(WriteCR2(v.rxneie, v.txeie, v.frxth))
    BY <2>2, TypeParts
       DEF Access, WriteCR2, TxInv, ReadyToTransmit, Types, SpiTypeOK
  <2> QED BY <1>2, <2>1, <2>2 DEF Configure, Access
<1>3. CASE Select \/ Deselect
  BY <1>1, <1>3 DEF Select, Deselect, spiVars, TxInv, ReadyToTransmit
<1>4. CASE Receive
  BY <1>1, <1>4 DEF Receive, Access, ReadDR, TxInv, ReadyToTransmit
<1>5. CASE SendAddress \/ SendZero \/ SendValue
  <2>1. spiEvents' = TRUE
    BY <1>5, SendCases DEF Sends, Access, WriteDR
  <2> QED BY <2>1 DEF TxInv
<1> QED BY <1>2, <1>3, <1>4, <1>5 DEF Program

LEMMA TxPreserved == ASSUME Types, Turns, TxInv, [Next]_vars PROVE TxInv'
<1>1. CASE UNCHANGED vars
  BY <1>1 DEF TxInv, ReadyToTransmit, vars, kernelVars, spiVars
<1>2. CASE DeltaCycle
  BY <1>2 DEF DeltaCycle, NextDelta, spiVars, TxInv, ReadyToTransmit
<1>3. CASE TimePasses
  <2> PICK now \in SUBSET Due, power \in BOOLEAN : Advance(now, power)
    BY <1>3 DEF TimePasses
  <2>1. /\ run = {} /\ spiEvents' = (spiEvents /\ "cpu" \notin now)
        /\ "cpu" \in now /\ spiEvents /\ spiPhase = "idle" => "spi" \in run'
        /\ UNCHANGED <<nReset, cr, txFifo, spiPhase>>
    BY DEF Advance, Settled
  <2> QED BY <2>1, TypeParts DEF TxInv, ReadyToTransmit, Types, SpiTypeOK
<1>4. CASE SpiWakeStep
  <2>1. CASE ReadyToTransmit
    BY <1>4, <2>1 DEF SpiWakeStep, SpiOnly, SpiWake, Transmit, TxInv
  <2>2. CASE ~ReadyToTransmit
    BY <1>4, <2>2 DEF SpiWakeStep, SpiOnly, SpiWake, TxInv, ReadyToTransmit
  <2> QED BY <2>1, <2>2
<1>5. CASE SpiReceiveStep
  <2>1. CASE ReadyToTransmit
    BY <1>5, <2>1 DEF SpiReceiveStep, SpiOnly, SpiReceive, Transmit, TxInv
  <2>2. CASE ~ReadyToTransmit
    BY <1>5, <2>2 DEF SpiReceiveStep, SpiOnly, SpiReceive, Transmit, TxInv, ReadyToTransmit
  <2> QED BY <2>1, <2>2
<1>6. CASE SpiResetStep
  BY <1>6 DEF SpiResetStep, SpiReset, TxInv, ReadyToTransmit
<1>7. CASE SpiIrqControlStep \/ NvicStep \/ AccStep
  <2>1. UNCHANGED <<spiPhase, nReset, cr, txFifo, spiEvents>>
    BY <1>7 DEF SpiIrqControlStep, SpiIrqControl, NvicStep, NvicProcess, NvicReset, AccStep,
                AccResetStep, AccReset, SpiInterfaceStep, SpiInterface, UpdateIrqStep,
                UpdateIrq, LoopStep, LoopWakes, LoopDelayed, LoopSamples, AccOnly, spiVars
  <2>2. \E p : p # "spi" /\ run' = run \ {p}
    BY <1>7 DEF SpiIrqControlStep, SpiIrqControl, NvicStep, NvicProcess, NvicReset, AccStep,
                AccResetStep, AccReset, SpiInterfaceStep, SpiInterface, UpdateIrqStep,
                UpdateIrq, LoopStep, LoopWakes, LoopDelayed, LoopSamples, AccOnly, Evaluate
  <2> QED BY <2>1, <2>2 DEF TxInv, ReadyToTransmit
<1>8. CASE CpuStep
  <2>1. CASE EndReturn \/ StartHandler \/ BeginReturn \/ Idles
    <3>1. UNCHANGED <<cr, txFifo, spiEvents>>
      BY <2>1 DEF EndReturn, StartHandler, BeginReturn, Idles, spiVars
    <3>2. nReset' = nReset /\ spiPhase' = spiPhase /\ ("spi" \in run => "spi" \in run')
      BY <1>8, CpuTurn
    <3> QED BY <3>1, <3>2 DEF TxInv, ReadyToTransmit
  <2> QED BY <1>8, <2>1, TxProgram, CpuCases
<1> QED BY <1>1, <1>2, <1>3, <1>4, <1>5, <1>6, <1>7, <1>8 DEF Next, SpiStep

-----------------------------------------------------------------------------
(* The interrupt of the accelerometer *)

\* The line follows m_setIrq as soon as the method that copies it has run, and
\* m_setIrq means that there is something to read.
IrqInv ==
    /\ setIrq # irq => Pending("updateIrq")
    /\ setIrq /\ ~lost => fifo # <<>>

LEMMA IrqInterface == ASSUME Types, Turns, IrqInv, SpiInterfaceStep PROVE IrqInv'
<1>1. /\ SpiInterface /\ "spiInterface" \in run /\ run' = run \ {"spiInterface"}
      /\ lost' = (lost \/ (fifo # <<>> /\ spiState.mode = "DataWrite"
                              /\ slaveIn.kind = "reset"))
  BY InterfaceCases DEF SpiInterfaceStep, AccOnly, Evaluate
<1>2. AccTypeOK /\ lost \in BOOLEAN /\ setIrq \in BOOLEAN /\ irq \in BOOLEAN
  BY TypeParts DEF Types, AccTypeOK, NodeTypeOK
<1>3. CASE chipSelect /\ ReadsData
  <2> DEFINE bytes == IF spiState.addr = "DATA" THEN Popped(fifo) ELSE fifo
  <2>1. setIrq = irq
    BY <1>1, <1>2, <1>3 DEF IrqInv, Turns
  <2>2. /\ fifo' = bytes /\ setIrq' = (setIrq /\ ~ClearsIrq(bytes)) /\ irq' = irq
        /\ soon' = (IF ClearsIrq(bytes) THEN soon \cup {"updateIrq"} ELSE soon)
    BY <1>3 DEF ReadsData
  <2>3. irq /\ bytes = <<>> => ClearsIrq(bytes)
    BY DEF ClearsIrq
  <2>4. ClearsIrq(bytes) \in BOOLEAN
    BY DEF ClearsIrq
  <2> HIDE DEF bytes
  <2>5. setIrq' # irq' => Pending("updateIrq")'
    BY <1>2, <2>1, <2>2, <2>4 DEF Pending
  <2>6. setIrq' => fifo' # <<>>
    BY <1>2, <2>1, <2>2, <2>3
  <2> QED BY <2>5, <2>6 DEF IrqInv
<1>4. CASE spiState.mode = "DataWrite" /\ slaveIn.kind = "reset" /\ SoftwareReset
  BY <1>1, <1>4 DEF SoftwareReset, Resets, IrqInv, Pending
<1>5. CASE \/ SetsAddress \/ WritesRegister
           \/ UNCHANGED <<slaveIn, slaveOut, ctrl, thr, fifo, measures, loopPhase,
                          setting, setIrq, irq, slaveEvent, pushed, soon>>
  <2>1. UNCHANGED <<fifo, setIrq, irq>> /\ soon \subseteq soon'
    BY <1>5 DEF SetsAddress, WritesRegister
  <2> QED BY <1>1, <1>2, <2>1 DEF IrqInv, Pending
<1>6. spiState.mode \in {"Address", "DataRead", "DataWrite"}
  BY <1>2 DEF AccTypeOK
<1> QED BY <1>1, <1>3, <1>4, <1>5, <1>6, InterfaceCases

LEMMA IrqLoop == ASSUME Types, IrqInv, LoopStep PROVE IrqInv'
<1>1. /\ LoopWakes \/ LoopDelayed \/ LoopSamples
      /\ lost' = (lost /\ ~(loopPhase = "sample" /\ fifo' # <<>>))
      /\ run' = run \ {"measurementLoop"}
  BY DEF LoopStep, AccOnly, LoopWakes, LoopDelayed, LoopSamples, Evaluate
<1>2. CASE LoopSamples
  <2>1. fifo' # <<>>
    BY <1>2, SampleFacts
  <2>2. /\ setIrq' = (setIrq \/ (ctrl.ie /\ DataReady(fifo')))
        /\ soon' = (IF ctrl.ie /\ DataReady(fifo') THEN soon \cup {"updateIrq"} ELSE soon)
        /\ irq' = irq
    BY <1>2 DEF LoopSamples
  <2>3. setIrq \in BOOLEAN /\ irq \in BOOLEAN
    BY TypeParts DEF Types, AccTypeOK
  <2>4. setIrq' # irq' => Pending("updateIrq")'
    BY <1>1, <2>2, <2>3 DEF IrqInv, Pending
  <2> QED BY <2>1, <2>4 DEF IrqInv
<1>3. CASE LoopWakes
  BY <1>1, <1>3 DEF LoopWakes, IrqInv, Pending
<1>4. CASE LoopDelayed
  BY <1>1, <1>4 DEF LoopDelayed, IrqInv, Pending
<1> QED BY <1>1, <1>2, <1>3, <1>4

LEMMA IrqPreserved == ASSUME Types, Turns, IrqInv, [Next]_vars PROVE IrqInv'
<1>1. CASE UNCHANGED vars
  BY <1>1 DEF IrqInv, Pending, vars, kernelVars, accVars, historyVars
<1>2. CASE DeltaCycle
  BY <1>2 DEF DeltaCycle, NextDelta, accVars, historyVars, IrqInv, Pending
<1>3. CASE TimePasses
  BY <1>3 DEF TimePasses, Advance, Settled, historyVars, IrqInv, Pending
<1>4. CASE SpiStep \/ NvicStep \/ CpuStep
  <2>1. UNCHANGED <<setIrq, irq, fifo, lost>>
    BY <1>4, CpuCases
       DEF SpiStep, SpiWakeStep, SpiReceiveStep, SpiOnly, SpiIrqControlStep, SpiResetStep,
           NvicStep, accVars, historyVars
  <2>2. "updateIrq" \in run => "updateIrq" \in run'
    BY <1>4, CpuCases
       DEF SpiStep, SpiWakeStep, SpiReceiveStep, SpiOnly, SpiIrqControlStep, SpiResetStep,
           SpiWake, SpiReceive, SpiIrqControl, SpiReset, NvicStep, NvicProcess, NvicReset,
           Evaluate
  <2>3. "updateIrq" \in soon => "updateIrq" \in soon'
    <3>1. CASE SpiStep \/ NvicStep
      BY <3>1 DEF SpiStep, SpiWakeStep, SpiReceiveStep, SpiOnly, SpiIrqControlStep,
             SpiResetStep, SpiWake, SpiReceive, SpiIrqControl, SpiReset, NvicStep,
             NvicProcess, NvicReset
    <3>2. CASE CpuStep
      BY <3>2, CpuCases DEF Program, Configure, Select, Deselect, Receive, SendAddress,
             SendZero, SendValue, Sends, Access, EndReturn, StartHandler, BeginReturn, Idles
    <3> QED BY <1>4, <3>1, <3>2
  <2> QED BY <2>1, <2>2, <2>3 DEF IrqInv, Pending
<1>5. CASE AccResetStep
  BY <1>5 DEF AccResetStep, AccOnly, AccReset, Resets, Evaluate, IrqInv, Pending
<1>6. CASE SpiInterfaceStep
  BY <1>6, IrqInterface
<1>7. CASE UpdateIrqStep
  BY <1>7 DEF UpdateIrqStep, AccOnly, UpdateIrq, IrqInv
<1>8. CASE LoopStep
  BY <1>8, IrqLoop
<1> QED BY <1>1, <1>2, <1>3, <1>4, <1>5, <1>6, <1>7, <1>8 DEF Next, AccStep

-----------------------------------------------------------------------------
(* The interrupt of the SPI *)

OutOfReset == nReset /\ "nvicReset" \notin run

\* An interrupt that is owed is on its way through one of three stages: the thread
\* has asked for it and the line is down; the line is up and the NVIC has not seen
\* it; or it is pending, and the start of a handler does not take it away.
Requested == spiSetIrq /\ ~spiIrq /\ ~seen.irq
Raised == spiIrq /\ ~seen.irq /\ ~Pending("spiIrqControl")
Offered == pended /\ (active => seen.active)

\* Between its turns the NVIC has seen the line as it is.  What is still to happen
\* when it has not is in the other parts: the line is up until irqControl runs.
RxInv ==
    /\ spiSetIrq => Pending("spiIrqControl")
    /\ rxOwed => IF nReset THEN run \cap Resetters = {} ELSE "spiReset" \in run
    /\ OutOfReset /\ ~Pending("nvic") => seen = [irq |-> spiIrq, active |-> active]
    /\ OutOfReset /\ seen.irq /\ Pending("spiIrqControl") => spiIrq
    /\ OutOfReset /\ seen.irq /\ spiIrq => pended \/ (active /\ Pending("spiIrqControl"))
    /\ OutOfReset /\ seen.irq /\ spiIrq /\ active /\ ~seen.active => Pending("spiIrqControl")
    /\ nReset /\ ("cpu" \in run \/ ("spi" \in run /\ spiPhase = "transfer")) =>
         /\ seen.irq = spiIrq /\ (spiIrq => pended)
         /\ active /\ ~seen.active => "spiIrqControl" \in soon
    /\ nReset /\ "cpu" \in run => seen.active = active
    /\ OutOfReset /\ run \cap Resetters # {} => ~seen.irq
    /\ rxOwed /\ nReset => Requested \/ Raised \/ Offered

\* The types that the proofs about it use.
LEMMA RxTypes ==
    ASSUME Types
    PROVE  /\ nReset \in BOOLEAN /\ spiSetIrq \in BOOLEAN /\ spiIrq \in BOOLEAN
           /\ active \in BOOLEAN /\ pended \in BOOLEAN /\ rxOwed \in BOOLEAN
           /\ seen \in [irq : BOOLEAN, active : BOOLEAN]
           /\ seen.irq \in BOOLEAN /\ seen.active \in BOOLEAN
BY TypeParts DEF Types, KernelTypeOK, SpiTypeOK, NodeTypeOK

\* A step that touches neither the line nor the NVIC, and whose process is not one
\* of those that RxInv waits for.
LEMMA RxFrame ==
    ASSUME RxInv, NEW p, p \notin {"nvic", "nvicReset", "spiIrqControl", "spiReset"},
           run' = run \ {p},
           "spiIrqControl" \in soon' <=> "spiIrqControl" \in soon,
           "nvic" \in soon => "nvic" \in soon',
           "spi" \in run' => spiPhase' = spiPhase,
           UNCHANGED <<nReset, spiSetIrq, spiIrq, active, pended, seen, rxOwed>>
    PROVE  RxInv'
<1>1. Pending("spiIrqControl")' <=> Pending("spiIrqControl")
  BY DEF Pending
<1>2. Pending("nvic") => Pending("nvic")'
  BY DEF Pending
<1>3. OutOfReset' <=> OutOfReset
  BY DEF OutOfReset
<1>4. run' \cap Resetters # {} => run \cap Resetters # {}
  OBVIOUS
<1>5. "spiReset" \in run => "spiReset" \in run'
  OBVIOUS
<1>6. /\ "cpu" \in run' => "cpu" \in run
      /\ "spi" \in run' /\ spiPhase' = "transfer" => "spi" \in run /\ spiPhase = "transfer"
  OBVIOUS
<1> QED BY <1>1, <1>2, <1>3, <1>4, <1>5, <1>6 DEF RxInv, Requested, Raised, Offered

LEMMA RxDelta == ASSUME Types, Turns, RxInv, DeltaCycle PROVE RxInv'
<1>1. /\ run = {} /\ soon' = {} /\ chipSelect' = chipSelect
      /\ nReset' = (nReset # ("nReset" \in soon))
      /\ run' = {p \in soon \ {"nReset"} : p = "measurementLoop" => loopPhase = "waitMode"}
                  \cup (IF "nReset" \in soon THEN Resetters ELSE {})
                  \cup (IF nReset' /\ ~nReset /\ spiPhase = "idle" THEN {"spi"} ELSE {})
      /\ UNCHANGED <<spiPhase, spiSetIrq, spiIrq, active, pended, seen, rxOwed>>
  BY DEF DeltaCycle, NextDelta, spiVars, accVars, nvicVars, historyVars
<1>2. "cpu" \notin run' /\ ("spi" \in run' => spiPhase' = "idle")
  BY <1>1 DEF Turns, Resetters
<1>3. CASE "nReset" \in soon
  <2>1. nReset' = ~nReset /\ Resetters \subseteq run'
    BY <1>1, <1>3, RxTypes
  <2>2. "nvicReset" \in run' /\ "spiReset" \in run'
    BY <2>1 DEF Resetters
  <2>3. ~OutOfReset'
    BY <2>2 DEF OutOfReset
  <2>4. nReset' => ~rxOwed
    BY <1>1, <2>1, RxTypes DEF RxInv
  <2>5. Pending("spiIrqControl") => Pending("spiIrqControl")'
    BY <1>1 DEF Pending
  <2> QED BY <1>1, <1>2, <2>2, <2>3, <2>4, <2>5, RxTypes DEF RxInv
<1>4. CASE "nReset" \notin soon
  <2>1. nReset' = nReset
    BY <1>1, <1>4, RxTypes
  <2>2. run' \cap Resetters = {} /\ (OutOfReset' <=> OutOfReset)
    BY <1>1, <1>4, <2>1 DEF Turns, Resetters, OutOfReset
  <2>3. /\ Pending("spiIrqControl")' <=> Pending("spiIrqControl")
        /\ Pending("nvic")' <=> Pending("nvic")
    BY <1>1, <1>4, <2>1 DEF Pending
  <2>4. rxOwed => nReset
    BY <1>1, RxTypes DEF RxInv
  <2> QED BY <1>1, <1>2, <2>1, <2>2, <2>3, <2>4, RxTypes
          DEF RxInv, Requested, Raised, Offered
<1> QED BY <1>3, <1>4

LEMMA RxTime == ASSUME Types, Turns, RxInv, TimePasses PROVE RxInv'
<1> PICK now \in SUBSET Due, power \in BOOLEAN :
       /\ power => used.power < MaxPower /\ "cpu" \notin now
       /\ Advance(now, power)
  BY DEF TimePasses
<1>1. /\ run = {} /\ soon = {} /\ soon' \subseteq {"nReset"}
      /\ run' \subseteq {"spi", "cpu", "measurementLoop", "spiInterface"}
      /\ UNCHANGED <<nReset, spiPhase, spiSetIrq, spiIrq, active, pended, seen, rxOwed>>
  BY DEF Advance, Settled, Due, nvicVars, historyVars
<1>2. /\ ~Pending("spiIrqControl") /\ ~Pending("spiIrqControl")'
      /\ ~Pending("nvic") /\ ~Pending("nvic")'
      /\ run' \cap Resetters = {}
  BY <1>1 DEF Pending, Resetters
<1>3. (OutOfReset <=> nReset) /\ (OutOfReset' <=> nReset)
  BY <1>1 DEF OutOfReset
<1>4. ~spiSetIrq /\ (rxOwed => nReset)
  BY <1>1, <1>2, RxTypes DEF RxInv
<1>5. nReset => /\ seen.irq = spiIrq /\ seen.active = active
                /\ spiIrq => pended
  BY <1>2, <1>3, RxTypes DEF RxInv
<1> QED BY <1>1, <1>2, <1>3, <1>4, <1>5, RxTypes DEF RxInv, Requested, Raised, Offered

\* The end of a transfer asks for an interrupt in a phase of threads, when the
\* NVIC has seen the line as it is.
LEMMA RxReceive == ASSUME Types, Turns, RxInv, SpiReceiveStep PROVE RxInv'
<1> DEFINE asks == AsksForIrq(Put(rxFifo, flight.response))
<1>1. /\ Evaluate("spi") /\ "spi" \in Threads /\ spiPhase = "transfer"
      /\ spiSetIrq' = (spiSetIrq \/ asks)
      /\ soon' = (IF asks THEN soon \cup {"spiIrqControl"} ELSE soon)
      /\ rxOwed' = (rxOwed \/ (nReset /\ asks /\ ~(active /\ "spiIrqControl" \in soon)))
      /\ UNCHANGED <<nReset, spiIrq, active, pended, seen>>
  BY DEF SpiReceiveStep, SpiOnly, SpiReceive, Transmit, Threads, nvicVars
<1>2. /\ run \cap Methods = {} /\ run \cap Resetters = {} /\ run' = run \ {"spi"}
      /\ run' \cap Resetters = {} /\ "spi" \in run /\ "spi" \notin run'
      /\ "nvicReset" \notin run /\ "nvicReset" \notin run' /\ "spiReset" \notin run
      /\ "spiIrqControl" \notin run
  BY <1>1, ThreadTurn DEF Methods, Resetters
<1>3. (OutOfReset <=> nReset) /\ (OutOfReset' <=> nReset')
  BY <1>2 DEF OutOfReset
<1>4. /\ Pending("spiIrqControl") <=> "spiIrqControl" \in soon
      /\ Pending("spiIrqControl")' <=> asks \/ "spiIrqControl" \in soon
      /\ Pending("nvic")' <=> Pending("nvic")
  BY <1>1, <1>2 DEF Pending
<1>5. nReset => /\ seen.irq = spiIrq /\ (spiIrq => pended)
                /\ active /\ ~seen.active => "spiIrqControl" \in soon
  BY <1>1, <1>2 DEF RxInv
<1>6. rxOwed => nReset
  BY <1>2, RxTypes DEF RxInv
<1> HIDE DEF asks
<1>7. asks \in BOOLEAN
  BY SpiFacts, TypeParts DEF Types, asks
<1>8. (spiSetIrq => Pending("spiIrqControl"))'
  BY <1>1, <1>4, <1>7, RxTypes DEF RxInv
<1>9. (rxOwed /\ nReset => Requested \/ Raised \/ Offered)'
  <2>1. CASE rxOwed
    BY <1>1, <1>4, <1>5, <1>6, <1>7, <2>1, RxTypes DEF RxInv, Requested, Raised, Offered
  <2>2. CASE ~rxOwed
    BY <1>1, <1>4, <1>5, <1>7, <2>2, RxTypes DEF Requested, Offered
  <2> QED BY <2>1, <2>2, RxTypes
<1>10. (rxOwed => IF nReset THEN run \cap Resetters = {} ELSE "spiReset" \in run)'
  BY <1>1, <1>2, <1>6, RxTypes
<1>11. (OutOfReset /\ ~Pending("nvic") => seen = [irq |-> spiIrq, active |-> active])'
  BY <1>1, <1>3, <1>4 DEF RxInv
<1>12. (OutOfReset /\ seen.irq /\ Pending("spiIrqControl") => spiIrq)'
  BY <1>1, <1>3, <1>5
<1>13. (OutOfReset /\ seen.irq /\ spiIrq => pended \/ (active /\ Pending("spiIrqControl")))'
  BY <1>1, <1>3, <1>5
<1>14. (OutOfReset /\ seen.irq /\ spiIrq /\ active /\ ~seen.active
          => Pending("spiIrqControl"))'
  BY <1>1, <1>3, <1>4, <1>5
<1>15. (nReset /\ ("cpu" \in run \/ ("spi" \in run /\ spiPhase = "transfer")) =>
         /\ seen.irq = spiIrq /\ (spiIrq => pended)
         /\ active /\ ~seen.active => "spiIrqControl" \in soon)'
  BY <1>1, <1>5
<1>16. (nReset /\ "cpu" \in run => seen.active = active)'
  BY <1>1, <1>2 DEF RxInv
<1>17. (OutOfReset /\ run \cap Resetters # {} => ~seen.irq)'
  BY <1>2
<1> QED BY <1>8, <1>9, <1>10, <1>11, <1>12, <1>13, <1>14, <1>15, <1>16, <1>17 DEF RxInv

\* irqControl raises the line for a request, or drops it for a handler: then the
\* NVIC has taken the interrupt, since a line it has seen was pending.
LEMMA RxIrqControl == ASSUME Types, Turns, RxInv, SpiIrqControlStep PROVE RxInv'
<1>1. /\ "spiIrqControl" \in run /\ run' = run \ {"spiIrqControl"}
      /\ spiIrq' = (IF spiSetIrq /\ ~spiIrq THEN TRUE ELSE spiIrq /\ ~active)
      /\ spiSetIrq' = FALSE
      /\ soon' = (IF spiIrq' # spiIrq THEN soon \cup {"nvic"} ELSE soon)
      /\ UNCHANGED <<nReset, active, pended, seen, rxOwed, spiPhase>>
  BY DEF SpiIrqControlStep, SpiIrqControl, Evaluate, nvicVars, historyVars
<1>2. "cpu" \notin run /\ ~("spi" \in run /\ spiPhase = "transfer")
  BY MethodTurn DEF SpiIrqControlStep, SpiIrqControl, Methods
<1>3. Pending("spiIrqControl") /\ ~Pending("spiIrqControl")'
  BY <1>1 DEF Turns, Pending
<1>4. (OutOfReset' <=> OutOfReset) /\ (rxOwed /\ nReset => OutOfReset)
  BY <1>1 DEF OutOfReset, RxInv, Resetters
<1>5. run' \cap Resetters = run \cap Resetters /\ ("spiReset" \in run => "spiReset" \in run')
  BY <1>1 DEF Resetters
<1>6. OutOfReset' /\ ~Pending("nvic")' => seen' = [irq |-> spiIrq', active |-> active']
  <2>1. ~Pending("nvic")' => ~Pending("nvic") /\ spiIrq' = spiIrq
    BY <1>1 DEF Pending
  <2> QED BY <1>1, <1>4, <2>1 DEF RxInv
<1>7. OutOfReset /\ seen.irq => spiIrq /\ spiIrq' = ~active /\ (spiIrq' => pended)
  BY <1>1, <1>3, RxTypes DEF RxInv
<1>8. rxOwed /\ nReset => Raised' \/ Offered'
  BY <1>1, <1>3, RxTypes DEF RxInv, Requested, Raised, Offered
<1> QED BY <1>1, <1>2, <1>3, <1>4, <1>5, <1>6, <1>7, <1>8, RxTypes DEF RxInv

\* The reset of the SPI withdraws the request: nothing is owed any more, and the
\* NVIC, reset in the same delta cycle, has seen no line.
LEMMA RxSpiReset == ASSUME Types, Turns, RxInv, SpiResetStep PROVE RxInv'
<1>1. /\ "spiReset" \in run /\ run' = run \ {"spiReset"}
      /\ spiSetIrq' = FALSE /\ rxOwed' = FALSE /\ soon' = soon \ {"spiIrqControl"}
      /\ UNCHANGED <<nReset, spiIrq, active, pended, seen, spiPhase>>
  BY DEF SpiResetStep, SpiReset, Evaluate, nvicVars
<1>2. "cpu" \notin run /\ ~("spi" \in run /\ spiPhase = "transfer")
  BY MethodTurn DEF SpiResetStep, SpiReset, Methods
<1>3. (OutOfReset' <=> OutOfReset) /\ (OutOfReset => ~seen.irq)
  BY <1>1 DEF OutOfReset, RxInv, Resetters
<1>4. Pending("nvic")' <=> Pending("nvic")
  BY <1>1 DEF Pending
<1> QED BY <1>1, <1>2, <1>3, <1>4, RxTypes DEF RxInv

\* The NVIC takes a rising edge for pending, and keeps what is pending unless the
\* start of its handler takes it.
LEMMA RxNvicProcess == ASSUME Types, Turns, RxInv, NvicStep, NvicProcess PROVE RxInv'
<1>1. /\ "nvic" \in run /\ run' = run \ {"nvic"} /\ soon' = soon
      /\ IF nReset
         THEN /\ pended' = (SetPend \/ (pended /\ ~(active /\ ~seen.active)))
              /\ seen' = [irq |-> spiIrq, active |-> active]
         ELSE pended' = pended /\ seen' = seen
      /\ UNCHANGED <<nReset, spiSetIrq, spiIrq, active, rxOwed, spiPhase>>
  BY DEF NvicStep, NvicProcess, Evaluate, nvicVars, spiVars, historyVars
<1>2. "cpu" \notin run /\ ~("spi" \in run /\ spiPhase = "transfer")
      /\ run \cap Resetters = {}
  <2>1. "cpu" \notin run /\ ~("spi" \in run /\ spiPhase = "transfer")
    BY MethodTurn DEF NvicProcess, Methods
  <2> QED BY <1>1, <2>1 DEF Turns
<1>3. Pending("spiIrqControl")' <=> Pending("spiIrqControl")
  BY <1>1 DEF Pending
<1>4. CASE nReset
  <2>1. OutOfReset
    BY <1>2, <1>4 DEF OutOfReset, Resetters
  <2>2. seen'.irq = spiIrq /\ seen'.active = active
    BY <1>1, <1>4
  <2>3. spiIrq => pended' \/ (active /\ Pending("spiIrqControl"))
    BY <1>1, <1>4, <2>1, RxTypes DEF RxInv, SetPend
  <2>4. rxOwed => Requested' \/ Offered'
    BY <1>1, <1>4, <2>2, RxTypes DEF RxInv, Requested, Raised, Offered, SetPend
  <2>5. run' \cap Resetters = {} /\ "cpu" \notin run'
        /\ ~("spi" \in run' /\ spiPhase' = "transfer")
    BY <1>1, <1>2
  <2> QED BY <1>1, <1>3, <1>4, <2>2, <2>3, <2>4, <2>5, RxTypes DEF RxInv
<1>5. CASE ~nReset
  BY <1>1, <1>2, <1>3, <1>5, RxTypes DEF RxInv, OutOfReset
<1> QED BY <1>4, <1>5, RxTypes

LEMMA RxNvicReset == ASSUME Types, Turns, RxInv, NvicStep, NvicReset PROVE RxInv'
<1>1. /\ "nvicReset" \in run /\ run' = run \ {"nvicReset"} /\ soon' = soon \cup {"nvic"}
      /\ pended' = FALSE /\ seen' = [irq |-> FALSE, active |-> FALSE]
      /\ UNCHANGED <<nReset, spiSetIrq, spiIrq, active, rxOwed, spiPhase>>
  BY DEF NvicStep, NvicReset, Evaluate, nvicVars, spiVars, historyVars
<1>2. "cpu" \notin run /\ ~("spi" \in run /\ spiPhase = "transfer")
  BY MethodTurn DEF NvicReset, Methods
<1>3. Pending("spiIrqControl")' <=> Pending("spiIrqControl")
  BY <1>1 DEF Pending
<1>4. Pending("nvic")' /\ ~seen'.irq
  BY <1>1 DEF Pending
<1>5. rxOwed => ~nReset /\ "spiReset" \in run'
  BY <1>1, RxTypes DEF RxInv, Resetters
<1> QED BY <1>1, <1>2, <1>3, <1>4, <1>5, RxTypes DEF RxInv

\* The CPU starts a handler, which irqControl and the NVIC hear of next, or ends it.
LEMMA RxCpu == ASSUME Types, Turns, RxInv, CpuStep PROVE RxInv'
<1>1. /\ run \cap Methods = {} /\ run' = run \ {"cpu"} /\ "cpu" \in run /\ nReset /\ nReset'
      /\ UNCHANGED <<spiPhase, spiSetIrq, spiIrq, pended, seen>>
  BY CpuTurn DEF nvicVars
<1>2. /\ run' \cap Resetters = {} /\ run \cap Resetters = {} /\ OutOfReset /\ OutOfReset'
      /\ "cpu" \notin run'
  BY <1>1 DEF Methods, Resetters, OutOfReset
<1>3. /\ seen.irq = spiIrq /\ (spiIrq => pended) /\ seen.active = active
      /\ spiSetIrq => "spiIrqControl" \in soon
  BY <1>1, RxTypes DEF RxInv, Pending, Methods
<1>4. CASE Program /\ UNCHANGED <<handler, rxOwed>>
  <2>1. active' = active /\ (soon' = soon \/ soon' = soon \cup {"spiInterface"})
    BY <1>4 DEF Program, Configure, Select, Deselect, Receive, SendAddress, SendZero,
           SendValue, Sends, Access, spiVars
  <2> QED BY <1>1, <1>4, <2>1, RxFrame, RxTypes
<1>5. CASE StartHandler
  <2>1. /\ active' = TRUE /\ rxOwed' = FALSE /\ pended
        /\ soon' = (IF active THEN soon ELSE soon \cup {"spiIrqControl", "nvic"})
    BY <1>5 DEF StartHandler
  <2>2. CASE active
    <3>1. /\ Pending("spiIrqControl")' <=> Pending("spiIrqControl")
          /\ Pending("nvic")' <=> Pending("nvic")
      BY <1>1, <2>1, <2>2 DEF Pending
    <3> QED BY <1>1, <1>2, <1>3, <2>1, <2>2, <3>1, RxTypes DEF RxInv
  <2>3. CASE ~active
    <3>1. Pending("spiIrqControl")' /\ Pending("nvic")' /\ "spiIrqControl" \in soon'
      BY <2>1, <2>3 DEF Pending
    <3> QED BY <1>1, <1>2, <1>3, <2>1, <3>1, RxTypes DEF RxInv
  <2> QED BY <2>2, <2>3
<1>6. CASE BeginReturn
  <2>1. UNCHANGED <<active, rxOwed>> /\ soon' = soon \cup {"nvic"}
    BY <1>6 DEF BeginReturn, spiVars
  <2> QED BY <1>1, <2>1, RxFrame, RxTypes
<1>7. CASE EndReturn
  <2>1. active' = FALSE /\ rxOwed' = rxOwed
        /\ soon' = soon \cup {"spiIrqControl", "nvic"}
    BY <1>7 DEF EndReturn
  <2>2. Pending("spiIrqControl")' /\ Pending("nvic")' /\ "spiIrqControl" \in soon'
    BY <2>1 DEF Pending
  <2>3. rxOwed => Requested' \/ Offered'
    BY <1>1, <1>3, <2>1, RxTypes DEF RxInv, Requested, Raised, Offered
  <2> QED BY <1>1, <1>2, <1>3, <2>1, <2>2, <2>3, RxTypes DEF RxInv
<1>8. CASE Idles
  <2>1. active' = active /\ soon' = soon /\ rxOwed' = rxOwed
    BY <1>8 DEF Idles, spiVars
  <2> QED BY <1>1, <2>1, RxFrame, RxTypes
<1> QED BY <1>4, <1>5, <1>6, <1>7, <1>8, CpuCases

\* The device and a thread of the SPI that wakes touch none of this.
LEMMA RxOthers == ASSUME Types, Turns, RxInv, SpiWakeStep \/ AccStep PROVE RxInv'
<1>1. UNCHANGED <<nReset, spiSetIrq, spiIrq, active, pended, seen, rxOwed>>
  BY DEF SpiWakeStep, SpiOnly, SpiWake, Transmit, AccStep, AccResetStep, AccReset,
         SpiInterfaceStep, SpiInterface, UpdateIrqStep, UpdateIrq, LoopStep, LoopWakes,
         LoopDelayed, LoopSamples, AccOnly, spiVars, nvicVars
<1>2. /\ "spiIrqControl" \in soon' <=> "spiIrqControl" \in soon
      /\ "nvic" \in soon => "nvic" \in soon'
  <2>1. CASE SpiInterfaceStep
    <3>1. SpiInterface
      BY <2>1 DEF SpiInterfaceStep, AccOnly
    <3> QED BY <3>1, InterfaceCases, TypeParts
            DEF SetsAddress, ReadsData, WritesRegister, SoftwareReset, Resets, Types,
                AccTypeOK
  <2>2. CASE ~SpiInterfaceStep
    BY <2>2 DEF SpiWakeStep, SpiOnly, SpiWake, AccStep, AccResetStep, AccReset, Resets,
           UpdateIrqStep, UpdateIrq, LoopStep, LoopWakes, LoopDelayed, LoopSamples, AccOnly
  <2> QED BY <2>1, <2>2
<1>3. CASE SpiWakeStep
  <2>1. run' = run \ {"spi"}
    BY <1>3 DEF SpiWakeStep, SpiOnly, SpiWake, Evaluate
  <2> QED BY <1>1, <1>2, <2>1, RxFrame
<1>4. CASE AccStep
  <2>1. spiPhase' = spiPhase
    BY <1>4 DEF AccStep, AccResetStep, SpiInterfaceStep, UpdateIrqStep, LoopStep, AccOnly,
           spiVars
  <2>2. \E p \in {"slaveReset", "spiInterface", "updateIrq", "measurementLoop"} :
            run' = run \ {p}
    BY <1>4 DEF AccStep, AccResetStep, AccReset, SpiInterfaceStep, SpiInterface,
           UpdateIrqStep, UpdateIrq, LoopStep, LoopWakes, LoopDelayed, LoopSamples, AccOnly,
           Evaluate
  <2> QED BY <1>1, <1>2, <2>1, <2>2, RxFrame
<1> QED BY <1>3, <1>4

LEMMA RxPreserved == ASSUME Types, Turns, RxInv, [Next]_vars PROVE RxInv'
<1>1. CASE UNCHANGED vars
  BY <1>1 DEF RxInv, OutOfReset, Requested, Raised, Offered, Pending, vars, kernelVars,
         spiVars, nvicVars, historyVars
<1>2. CASE DeltaCycle
  BY <1>2, RxDelta
<1>3. CASE TimePasses
  BY <1>3, RxTime
<1>4. CASE SpiStep
  BY <1>4, RxReceive, RxIrqControl, RxSpiReset, RxOthers DEF SpiStep
<1>5. CASE NvicStep
  BY <1>5, RxNvicProcess, RxNvicReset DEF NvicStep
<1>6. CASE AccStep
  BY <1>6, RxOthers
<1>7. CASE CpuStep
  BY <1>7, RxCpu
<1> QED BY <1>1, <1>2, <1>3, <1>4, <1>5, <1>6, <1>7 DEF Next

-----------------------------------------------------------------------------
(* The protocol of the bus *)

\* The device has not yet dealt with the transfer.
Landing == slaveEvent \/ ("spiInterface" \in run /\ chipSelect)

\* The next byte that is sent is an address.
AddressNext ==
    IF txFifo = <<>> THEN sending \in {"none", "address"} ELSE Head(txFifo).kind # "zero"

\* A device that a transfer left over from before a reset cannot bring to answer.
Stale == slaveOut = Nothing /\ slaveIn.kind # "read" /\ spiState.mode # "DataRead"

\* A response is ready only for a program that reads data: the zero that fetches it
\* finds the device in the state DataRead, or else an address comes first.  The SPI
\* is idle while the device is deselected, but for a transfer that power failed in.
ProtocolInv ==
    /\ ~chipSelect =>
         /\ txFifo = <<>> /\ sending = "none" /\ ~sr.bsy
         /\ spiPhase = "transfer" => Stale
    /\ /\ spiPhase = "transfer" /\ (~sr.bsy \/ "spiReset" \in run)
       /\ "slaveReset" \notin run
       => Stale
    /\ spiPhase = "transfer" /\ flight.data => slaveIn = Zero
    /\ slaveOut # Nothing =>
         /\ spiState.addr = "DATA"
         /\ \/ spiState.mode = "DataRead"
            \/ /\ spiState.mode = "Address"
               /\ IF Landing THEN slaveIn.kind # "zero" ELSE AddressNext

\* A step that leaves the bus alone, of a process other than the three below.
LEMMA ProtocolFrame ==
    ASSUME ProtocolInv, NEW p, p \notin {"spiReset", "slaveReset", "spiInterface"},
           run' = run \ {p},
           UNCHANGED <<chipSelect, txFifo, sending, sr, spiPhase, flight, slaveIn, slaveOut,
                       spiState, slaveEvent>>
    PROVE  ProtocolInv'
<1>1. (Landing' <=> Landing) /\ (AddressNext' <=> AddressNext) /\ (Stale' <=> Stale)
  BY DEF Landing, AddressNext, Stale
<1>2. /\ "spiReset" \in run' <=> "spiReset" \in run
      /\ "slaveReset" \in run' <=> "slaveReset" \in run
  OBVIOUS
<1> QED BY <1>1, <1>2 DEF ProtocolInv

LEMMA ProtocolDelta == ASSUME Types, Turns, ProtocolInv, DeltaCycle PROVE ProtocolInv'
<1>1. /\ run = {} /\ chipSelect' = chipSelect
      /\ run' = {p \in soon \ {"nReset"} : p = "measurementLoop" => loopPhase = "waitMode"}
                  \cup (IF "nReset" \in soon THEN Resetters ELSE {})
                  \cup (IF nReset' /\ ~nReset /\ spiPhase = "idle" THEN {"spi"} ELSE {})
      /\ UNCHANGED <<txFifo, sending, sr, spiPhase, flight, slaveIn, slaveOut,
                     spiState, slaveEvent>>
  BY DEF DeltaCycle, NextDelta, spiVars, accVars
<1>2. "spiInterface" \in run' => ~chipSelect
  BY <1>1 DEF Turns, Resetters
<1>3. "spiReset" \in run' => "slaveReset" \in run'
  BY <1>1 DEF Turns, Resetters
<1>4. (Landing' <=> Landing) /\ (AddressNext' <=> AddressNext) /\ (Stale' <=> Stale)
  BY <1>1, <1>2 DEF Landing, AddressNext, Stale
<1> QED BY <1>1, <1>3, <1>4 DEF ProtocolInv

LEMMA ProtocolTime == ASSUME Types, Turns, ProtocolInv, TimePasses PROVE ProtocolInv'
<1> PICK now \in SUBSET Due, power \in BOOLEAN : Advance(now, power)
  BY DEF TimePasses
<1>1. /\ run = {}
      /\ "spiReset" \notin run' /\ "slaveReset" \notin run'
      /\ "spiInterface" \in run' <=> ("spi" \in now /\ slaveEvent)
      /\ slaveEvent' = (slaveEvent /\ "spi" \notin now)
      /\ sending' = (IF power THEN "none" ELSE sending)
      /\ UNCHANGED <<chipSelect, txFifo, sr, spiPhase, flight, slaveIn, slaveOut, spiState>>
  BY DEF Advance, Settled, Due
<1>2. AddressNext => AddressNext'
  BY <1>1 DEF AddressNext
<1>3. Stale' <=> Stale
  BY <1>1 DEF Stale
<1>4. IF Landing THEN Landing' \/ AddressNext' ELSE ~Landing'
  BY <1>1 DEF Landing, ProtocolInv, AddressNext
<1> QED BY <1>1, <1>2, <1>3, <1>4 DEF ProtocolInv

\* The SPI begins a transfer: the device is selected, and takes over the byte.
LEMMA BeginsTransfer ==
    ASSUME Types, Turns, ProtocolInv, SpiWakeStep \/ SpiReceiveStep
    PROVE  /\ ~Landing /\ run' = run \ {"spi"} /\ "spiReset" \notin run
           /\ "spiInterface" \notin run /\ "spi" \in run
           /\ UNCHANGED <<chipSelect, slaveOut, spiState, sending, ctrl, fifo, pushed>>
           /\ IF ReadyToTransmit
              THEN /\ chipSelect /\ txFifo # <<>> /\ spiPhase' = "transfer" /\ sr'.bsy
                   /\ slaveIn' = Head(txFifo) /\ slaveEvent' = TRUE /\ Landing'
                   /\ flight'.response = slaveOut
                   /\ flight'.data = (Head(txFifo).kind = "zero")
              ELSE /\ spiPhase' = "idle" /\ UNCHANGED <<txFifo, slaveIn, slaveEvent>>
                   /\ sr' = sr \/ ~sr'.bsy
                   /\ ~Landing'
<1>1. /\ Evaluate("spi") /\ "spi" \in Threads /\ Transaction
      /\ UNCHANGED <<chipSelect, slaveOut, spiState, sending, ctrl, fifo, pushed>>
  BY DEF SpiWakeStep, SpiReceiveStep, SpiOnly, SpiWake, SpiReceive, Threads
<1>2. /\ run \cap Methods = {} /\ run' = run \ {"spi"} /\ "spi" \in run
      /\ "spiInterface" \notin run /\ "spiReset" \notin run
  BY <1>1, ThreadTurn DEF Methods
<1>3. ~slaveEvent /\ ~Landing
  BY <1>2 DEF Turns, Landing
<1>4. CASE ReadyToTransmit
  <2>1. chipSelect /\ txFifo # <<>>
    BY <1>4 DEF ReadyToTransmit, ProtocolInv
  <2>2. \E rx, request : Transmit(slaveOut, rx, request)
    BY <1>4 DEF SpiWakeStep, SpiReceiveStep, SpiOnly, SpiWake, SpiReceive
  <2>3. /\ spiPhase' = "transfer" /\ sr'.bsy
        /\ flight'.response = slaveOut /\ flight'.data = (Head(txFifo).kind = "zero")
    BY <1>4, <2>1, <2>2 DEF Transmit, Status
  <2>4. slaveIn' = Head(txFifo) /\ slaveEvent' = TRUE /\ Landing'
    BY <1>1, <1>4, <2>1, <2>3, TransactionCases DEF Landing
  <2> QED BY <1>1, <1>2, <1>3, <1>4, <2>1, <2>3, <2>4
<1>5. CASE ~ReadyToTransmit
  <2>1. spiPhase' = "idle" /\ txFifo' = txFifo /\ (sr' = sr \/ ~sr'.bsy)
    <3>1. CASE SpiWakeStep
      BY <1>5, <3>1 DEF SpiWakeStep, SpiOnly, SpiWake
    <3>2. CASE SpiReceiveStep
      BY <1>5, <3>2 DEF SpiReceiveStep, SpiOnly, SpiReceive, Transmit, Status
    <3> QED BY <3>1, <3>2
  <2>2. slaveIn' = slaveIn /\ slaveEvent' = slaveEvent
    BY <1>1, <1>5, TransactionCases
  <2>3. ~Landing'
    BY <1>2, <1>3, <2>2 DEF Landing
  <2> QED BY <1>1, <1>2, <1>3, <1>5, <2>1, <2>2, <2>3
<1> QED BY <1>4, <1>5

LEMMA ProtocolSpi ==
    ASSUME Types, Turns, ProtocolInv, SpiWakeStep \/ SpiReceiveStep
    PROVE  ProtocolInv'
<1>1. CASE ReadyToTransmit
  <2>1. /\ chipSelect' /\ spiPhase' = "transfer" /\ sr'.bsy /\ "spiReset" \notin run'
        /\ slaveIn' = Head(txFifo) /\ Landing' /\ ~Landing /\ txFifo # <<>>
        /\ flight'.data = (Head(txFifo).kind = "zero")
        /\ UNCHANGED <<slaveOut, spiState>>
    <3>1. /\ chipSelect /\ spiPhase' = "transfer" /\ sr'.bsy /\ txFifo # <<>>
          /\ slaveIn' = Head(txFifo) /\ Landing'
          /\ flight'.data = (Head(txFifo).kind = "zero")
      BY <1>1, BeginsTransfer, Zenon
    <3>2. /\ ~Landing /\ run' = run \ {"spi"} /\ "spiReset" \notin run
          /\ UNCHANGED <<chipSelect, slaveOut, spiState>>
      BY BeginsTransfer
    <3> QED BY <3>1, <3>2
  <2>2. Head(txFifo) \in Commands
    BY <2>1, HeadTailProperties, TypeParts DEF Types, SpiTypeOK
  <2>3. flight'.data => slaveIn' = Zero
    BY <2>1, <2>2, CommandTypes
  <2> QED BY <2>1, <2>3 DEF ProtocolInv, AddressNext
<1>2. CASE ~ReadyToTransmit
  <2>1. /\ spiPhase' = "idle" /\ ~Landing /\ ~Landing' /\ (sr' = sr \/ ~sr'.bsy)
        /\ UNCHANGED <<txFifo, sending, slaveOut, spiState, chipSelect, slaveIn>>
    BY <1>2, BeginsTransfer
  <2>2. AddressNext' <=> AddressNext
    BY <2>1 DEF AddressNext
  <2> QED BY <2>1, <2>2 DEF ProtocolInv
<1> QED BY <1>1, <1>2

LEMMA ProtocolSpiReset == ASSUME Types, Turns, ProtocolInv, SpiResetStep PROVE ProtocolInv'
<1>1. /\ "spiReset" \in run /\ run' = run \ {"spiReset"} /\ txFifo' = <<>> /\ ~sr'.bsy
      /\ UNCHANGED <<chipSelect, sending, spiPhase, flight, slaveIn, slaveOut, spiState,
                     slaveEvent>>
  BY DEF SpiResetStep, SpiReset, SrReset, Evaluate, accVars
<1>2. sending = "none"
  BY <1>1 DEF Turns, Resetters
<1>3. AddressNext' /\ (Landing' <=> Landing) /\ (Stale' <=> Stale)
  BY <1>1, <1>2 DEF AddressNext, Landing, Stale
<1> QED BY <1>1, <1>2, <1>3 DEF ProtocolInv

\* A reset of the device, by the line or by the program.
LEMMA ProtocolResets ==
    ASSUME ProtocolInv, Resets, UNCHANGED <<spiVars, chipSelect, sending>>,
           "spiReset" \in run' => "spiReset" \in run
    PROVE  ProtocolInv'
<1>1. /\ slaveIn' = Zero /\ slaveOut' = Nothing /\ spiState'.mode = "Address"
      /\ UNCHANGED <<txFifo, sr, spiPhase, flight>>
  BY DEF Resets, spiVars
<1>2. Stale'
  BY <1>1 DEF Stale, Zero, Command
<1> QED BY <1>1, <1>2 DEF ProtocolInv

LEMMA ProtocolAccReset == ASSUME Types, ProtocolInv, AccResetStep PROVE ProtocolInv'
<1>1. Resets /\ UNCHANGED <<spiVars, chipSelect, sending>> /\ run' = run \ {"slaveReset"}
  BY DEF AccResetStep, AccOnly, AccReset, Evaluate
<1> QED BY <1>1, ProtocolResets

\* The turn of spiInterface: with the device selected, the transfer is at its end.
LEMMA InterfaceTurn ==
    ASSUME Types, Turns, ProtocolInv, SpiInterfaceStep
    PROVE  /\ SpiInterface /\ "spiInterface" \in run /\ run' = run \ {"spiInterface"}
           /\ UNCHANGED <<spiVars, chipSelect, sending, slaveEvent>>
           /\ UNCHANGED <<handed, inOrder, pushed>>
           /\ spiState.mode \in {"Address", "DataRead", "DataWrite"}
           /\ chipSelect => /\ Landing /\ ~slaveEvent /\ ~Landing'
                            /\ spiPhase = "transfer"
<1>1. /\ SpiInterface /\ UNCHANGED <<spiVars, sending, handed, inOrder>>
      /\ "spiInterface" \in run /\ run' = run \ {"spiInterface"} /\ chipSelect' = chipSelect
  BY InterfaceCases DEF SpiInterfaceStep, AccOnly, Evaluate
<1>2. spiState.mode \in {"Address", "DataRead", "DataWrite"}
  BY TypeParts DEF Types, AccTypeOK
<1>3. slaveEvent' = slaveEvent /\ pushed' = pushed
  BY <1>1, <1>2, InterfaceCases
     DEF SetsAddress, ReadsData, WritesRegister, SoftwareReset, Resets
<1>4. chipSelect => Landing /\ ~slaveEvent /\ ~Landing' /\ spiPhase = "transfer"
  BY <1>1, <1>3 DEF Turns, Landing
<1> QED BY <1>1, <1>2, <1>3, <1>4

LEMMA ProtocolInterface ==
    ASSUME Types, Turns, ProtocolInv, SpiInterfaceStep
    PROVE  ProtocolInv'
<1>1. /\ SpiInterface /\ run' = run \ {"spiInterface"}
      /\ UNCHANGED <<txFifo, sr, spiPhase, flight, chipSelect, sending, slaveEvent>>
      /\ "spiReset" \in run' <=> "spiReset" \in run
      /\ "slaveReset" \in run' <=> "slaveReset" \in run
  BY InterfaceTurn DEF spiVars
<1>2. slaveIn \in Commands /\ spiState.addr \in {"none", "DATA", "STATUS", "CTRL", "FIFO_THR"}
  BY TypeParts DEF Types, AccTypeOK
<1>3. CASE chipSelect /\ spiState.mode = "Address" /\ SetsAddress
  <2>1. /\ spiState' = [mode |-> IF slaveIn.kind = "read" THEN "DataRead" ELSE "DataWrite",
                        addr |-> slaveIn.addr]
        /\ slaveOut' = Prepared(spiState', fifo) /\ slaveIn' = slaveIn
    BY <1>3 DEF SetsAddress
  <2>2. slaveIn.kind # "read" => slaveOut' = Nothing /\ spiState'.mode = "DataWrite"
    BY <2>1 DEF Prepared
  <2>3. slaveOut' # Nothing => spiState'.mode = "DataRead" /\ spiState'.addr = "DATA"
    BY <2>1 DEF Prepared
  <2>4. Stale => Stale'
    BY <2>1, <2>2 DEF Stale
  <2> QED BY <1>1, <1>3, <2>1, <2>3, <2>4 DEF ProtocolInv
<1>4. CASE chipSelect /\ spiState.mode = "DataRead" /\ ReadsData
  <2>1. /\ spiState' = spiState /\ slaveIn' = slaveIn
        /\ \E bytes : slaveOut' = Prepared(spiState, bytes)
    BY <1>4 DEF ReadsData
  <2>2. slaveOut' # Nothing => spiState.addr = "DATA"
    BY <2>1 DEF Prepared
  <2>3. ~Stale
    BY <1>4 DEF Stale
  <2> QED BY <1>1, <1>4, <2>1, <2>2, <2>3 DEF ProtocolInv
<1>5. CASE SoftwareReset
  BY <1>1, <1>5, InterfaceTurn, ProtocolResets DEF SoftwareReset
<1>6. CASE chipSelect /\ spiState.mode = "DataWrite" /\ WritesRegister
  <2>1. slaveOut' = Nothing /\ slaveIn' = slaveIn /\ spiState'.mode = "Address"
    BY <1>6, TypeParts DEF WritesRegister, Types, AccTypeOK
  <2>2. Stale => Stale'
    BY <2>1 DEF Stale
  <2> QED BY <1>1, <1>6, <2>1, <2>2 DEF ProtocolInv
<1>7. CASE /\ ~chipSelect /\ spiState' = [spiState EXCEPT !.mode = "Address"]
           /\ UNCHANGED <<slaveIn, slaveOut, ctrl, thr, fifo, measures, loopPhase,
                          setting, setIrq, irq, slaveEvent, pushed, soon>>
  <2>1. /\ spiState'.mode = "Address" /\ spiState'.addr = spiState.addr
        /\ slaveIn' = slaveIn /\ slaveOut' = slaveOut
    BY <1>7, TypeParts DEF Types, AccTypeOK
  <2>2. Stale => Stale'
    BY <2>1 DEF Stale
  <2>3. AddressNext'
    BY <1>1, <1>7 DEF ProtocolInv, AddressNext
  <2>4. Landing' => spiPhase = "transfer"
    BY <1>1, <1>7 DEF Landing, Turns
  <2> QED BY <1>1, <1>7, <2>1, <2>2, <2>3, <2>4 DEF ProtocolInv, Stale
<1> QED BY <1>3, <1>4, <1>5, <1>6, <1>7, InterfaceCases, InterfaceTurn

\* The program sends an address first, and deselects the device when the bus is idle.
LEMMA ProtocolProgram ==
    ASSUME Types, Turns, ProtocolInv, CpuStep, Program
    PROVE  ProtocolInv'
<1>1. /\ run \cap Methods = {} /\ run' = run \ {"cpu"}
      /\ UNCHANGED <<spiPhase, flight, slaveIn, slaveOut, spiState, slaveEvent>>
  BY CpuTurn DEF accVars
<1>2. /\ "spiReset" \notin run' /\ "slaveReset" \notin run /\ "spiReset" \notin run
      /\ (Landing' <=> slaveEvent) /\ (Landing <=> slaveEvent) /\ (Stale' <=> Stale)
  BY <1>1 DEF Methods, Landing, Stale
<1>3. SpiTypeOK
  BY TypeParts DEF Types
<1>4. CASE Configure \/ Receive
  <2>1. UNCHANGED <<txFifo, sending, chipSelect>> /\ sr'.bsy = sr.bsy
    <3>1. CASE Configure
      BY <3>1 DEF Configure, Access, WriteCR1, WriteCR2
    <3>2. CASE Receive
      BY <3>2 DEF Receive, Access, ReadDR, Status
    <3> QED BY <1>4, <3>1, <3>2
  <2>2. AddressNext' <=> AddressNext
    BY <2>1 DEF AddressNext
  <2> QED BY <1>1, <1>2, <2>1, <2>2 DEF ProtocolInv
<1>5. CASE Select
  <2>1. ~chipSelect /\ chipSelect' /\ sending' = "address" /\ txFifo' = txFifo /\ sr' = sr
    BY <1>5 DEF Select, spiVars
  <2>2. AddressNext'
    BY <2>1 DEF ProtocolInv, AddressNext
  <2> QED BY <1>1, <1>2, <2>1, <2>2 DEF ProtocolInv
<1>6. CASE Deselect
  <2>1. /\ chipSelect /\ ~sr.bsy /\ txFifo = <<>> /\ txFifo' = txFifo /\ sr' = sr
        /\ ~chipSelect' /\ sending' = "none"
    BY <1>6 DEF Deselect, spiVars
  <2>2. AddressNext'
    BY <2>1 DEF AddressNext
  <2>3. spiPhase = "transfer" => Stale
    BY <1>2, <2>1 DEF ProtocolInv
  <2> QED BY <1>1, <1>2, <2>1, <2>2, <2>3 DEF ProtocolInv
<1>7. CASE SendAddress \/ SendZero \/ SendValue
  <2>1. PICK byte \in Commands, next \in {"none", "zeros", "CTRL", "FIFO_THR"} :
            /\ Sends(byte, next) /\ sending # "none"
            /\ byte.kind = "zero" => sending = "zeros"
    BY <1>7, SendCases
  <2>2. /\ txFifo' = Put(txFifo, byte) /\ chipSelect' = chipSelect /\ sr'.bsy = sr.bsy
    BY <2>1 DEF Sends, Access, WriteDR, Status
  <2>3. chipSelect
    BY <2>1 DEF ProtocolInv
  <2>4. AddressNext => AddressNext'
    <3>1. CASE txFifo = <<>>
      <4>1. txFifo' = Append(<<>>, byte)
        BY <2>2, <3>1, EmptySeq DEF Put, SPI_FIFO_BYTES
      <4>2. txFifo' # <<>> /\ Head(txFifo') = byte
        BY <4>1
      <4> QED BY <2>1, <3>1, <4>2 DEF AddressNext
    <3>2. CASE txFifo # <<>>
      <4>1. txFifo' # <<>> /\ Head(txFifo') = Head(txFifo)
        BY <1>3, <2>2, <3>2, AppendProperties, HeadTailProperties DEF Put, SpiTypeOK
      <4> QED BY <3>2, <4>1 DEF AddressNext
    <3> QED BY <3>1, <3>2
  <2> QED BY <1>1, <1>2, <2>2, <2>3, <2>4 DEF ProtocolInv
<1> QED BY <1>4, <1>5, <1>6, <1>7 DEF Program

\* The steps that leave the bus alone.
LEMMA BusUntouched ==
    ASSUME Types, Turns,
           \/ SpiIrqControlStep \/ NvicStep \/ UpdateIrqStep \/ LoopStep
           \/ CpuStep /\ (EndReturn \/ StartHandler \/ BeginReturn \/ Idles)
    PROVE  /\ UNCHANGED <<chipSelect, txFifo, sending, sr, spiPhase, flight, slaveIn,
                          slaveOut, spiState, slaveEvent>>
           /\ \E p \in {"spiIrqControl", "nvic", "nvicReset", "updateIrq",
                        "measurementLoop", "cpu"} : run' = run \ {p}
<1>1. CASE SpiIrqControlStep \/ NvicStep
  BY <1>1 DEF SpiIrqControlStep, SpiIrqControl, NvicStep, NvicProcess, NvicReset, Evaluate,
         spiVars, accVars
<1>2. CASE UpdateIrqStep \/ LoopStep
  BY <1>2 DEF UpdateIrqStep, UpdateIrq, LoopStep, LoopWakes, LoopDelayed, LoopSamples,
         AccOnly, Evaluate, spiVars
<1>3. CASE CpuStep /\ (EndReturn \/ StartHandler \/ BeginReturn \/ Idles)
  <2>1. /\ run' = run \ {"cpu"}
        /\ UNCHANGED <<spiPhase, flight, slaveIn, slaveOut, spiState, slaveEvent>>
    BY <1>3, CpuTurn DEF accVars
  <2>2. UNCHANGED <<chipSelect, txFifo, sending, sr>>
    BY <1>3 DEF EndReturn, StartHandler, BeginReturn, Idles, spiVars
  <2> QED BY <2>1, <2>2
<1> QED BY <1>1, <1>2, <1>3

LEMMA ProtocolPreserved ==
    ASSUME Types, Turns, ProtocolInv, [Next]_vars
    PROVE  ProtocolInv'
<1>1. CASE UNCHANGED vars
  BY <1>1 DEF ProtocolInv, Stale, Landing, AddressNext, vars, kernelVars, spiVars, accVars
<1>2. CASE DeltaCycle
  BY <1>2, ProtocolDelta
<1>3. CASE TimePasses
  BY <1>3, ProtocolTime
<1>4. CASE SpiWakeStep \/ SpiReceiveStep
  BY <1>4, ProtocolSpi
<1>5. CASE SpiResetStep
  BY <1>5, ProtocolSpiReset
<1>6. CASE AccResetStep
  BY <1>6, ProtocolAccReset
<1>7. CASE SpiInterfaceStep
  BY <1>7, ProtocolInterface
<1>8. CASE \/ SpiIrqControlStep \/ NvicStep \/ UpdateIrqStep \/ LoopStep
           \/ CpuStep /\ (EndReturn \/ StartHandler \/ BeginReturn \/ Idles)
  BY <1>8, BusUntouched, ProtocolFrame
<1>9. CASE CpuStep /\ Program
  BY <1>9, ProtocolProgram
<1> QED BY <1>1, <1>2, <1>3, <1>4, <1>5, <1>6, <1>7, <1>8, <1>9, CpuCases
        DEF Next, SpiStep, AccStep

-----------------------------------------------------------------------------
(* The order of the bytes *)

\* The number of the byte that the transfer brings.
Carried == IF spiPhase = "transfer" /\ flight.data THEN flight.response.nr ELSE 0

\* The transfer brings the response that the device still offers, and the device is
\* about to pop what it offers.
Popping ==
    /\ Landing /\ chipSelect
    /\ spiState.mode = "DataRead" /\ spiState.addr = "DATA"
    /\ Carried = slaveOut.nr

\* A byte is in up to three places: at the head of the FIFO, in the response that is
\* ready, and in the transfer that brings it.  What has been received is older than
\* all of these, and the transfer brings an older byte than the response unless
\* this very transfer is about to pop it.
OrderInv ==
    /\ inOrder
    /\ \A i, j \in 1..Len(fifo) : i < j => fifo[i].nr < fifo[j].nr
    /\ \A i \in 1..Len(fifo) :
         /\ handed < fifo[i].nr /\ fifo[i].nr <= pushed
         /\ slaveOut.nr <= fifo[i].nr
         /\ Carried < fifo[i].nr \/ Popping
    /\ handed <= pushed /\ Carried <= pushed /\ slaveOut.nr <= pushed
    /\ Carried # 0 => Carried > handed
    /\ slaveOut # Nothing =>
          slaveOut.nr > handed /\ (slaveOut.nr > Carried \/ Popping)

LEMMA OrderTypes ==
    ASSUME Types
    PROVE  /\ fifo \in Seq(DataBytes) /\ Len(fifo) \in Nat
           /\ \A i \in 1..Len(fifo) : fifo[i] \in DataBytes /\ fifo[i].nr \in Nat \ {0}
           /\ slaveOut \in Responses /\ slaveOut.nr \in Nat
           /\ Carried \in Nat /\ handed \in Nat /\ pushed \in Nat /\ inOrder \in BOOLEAN
           /\ slaveOut = Nothing <=> slaveOut.nr = 0
<1>1. /\ fifo \in Seq(DataBytes) /\ slaveOut \in Responses /\ flight.response \in Responses
      /\ pushed \in 0..(4 * MaxFrames) /\ handed \in 0..(4 * MaxFrames)
      /\ inOrder \in BOOLEAN
  BY TypeParts DEF Types, AccTypeOK, SpiTypeOK, NodeTypeOK
<1>2. Len(fifo) \in Nat /\ \A i \in 1..Len(fifo) : fifo[i] \in DataBytes
  BY <1>1, LenProperties
<1>3. slaveOut.nr \in Nat /\ flight.response.nr \in Nat
  BY <1>1, ResponseTypes, SensorAssumption
<1>4. \A i \in 1..Len(fifo) : fifo[i].nr \in Nat \ {0}
  BY <1>2, ResponseTypes
<1>5. Carried \in Nat
  BY <1>3 DEF Carried
<1>6. pushed \in Nat /\ handed \in Nat
  BY <1>1, SensorAssumption
<1>7. slaveOut = Nothing <=> slaveOut.nr = 0
  BY <1>1, ResponseTypes
<1> QED BY <1>1, <1>2, <1>3, <1>4, <1>5, <1>6, <1>7

\* A step that moves no byte.
LEMMA OrderFrame ==
    ASSUME Types, OrderInv,
           UNCHANGED <<inOrder, handed, pushed, fifo, slaveOut, spiPhase, flight>>,
           Popping => Popping'
    PROVE  OrderInv'
<1>1. Carried' = Carried
  BY DEF Carried
<1> QED BY <1>1 DEF OrderInv

\* The response that is ready is Popping's until spiInterface has run.
LEMMA PoppingStays ==
    ASSUME Popping, NEW p, run' = run \ {p}, p # "spiInterface",
           UNCHANGED <<chipSelect, spiState, slaveEvent, spiPhase, flight, slaveOut>>
    PROVE  Popping'
BY DEF Popping, Landing, Carried

LEMMA OrderTimeDelta ==
    ASSUME Types, Turns, OrderInv, DeltaCycle \/ TimePasses
    PROVE  OrderInv'
<1>1. CASE DeltaCycle
  <2>1. /\ run = {}
        /\ UNCHANGED <<inOrder, handed, pushed, fifo, slaveOut, spiPhase, flight,
                       chipSelect, spiState, slaveEvent>>
    BY <1>1 DEF DeltaCycle, NextDelta, spiVars, accVars, historyVars
  <2>2. Popping => Popping'
    BY <2>1 DEF Popping, Landing, Carried
  <2> QED BY <2>1, <2>2, OrderFrame
<1>2. CASE TimePasses
  <2> PICK now \in SUBSET Due, power \in BOOLEAN : Advance(now, power)
    BY <1>2 DEF TimePasses
  <2>1. /\ run = {}
        /\ slaveEvent => slaveEvent' \/ "spiInterface" \in run'
        /\ UNCHANGED <<inOrder, handed, pushed, fifo, slaveOut, spiPhase, flight,
                       chipSelect, spiState>>
    BY DEF Advance, Settled, historyVars
  <2>2. Popping => Popping'
    BY <2>1 DEF Popping, Landing, Carried
  <2> QED BY <2>1, <2>2, OrderFrame
<1> QED BY <1>1, <1>2

\* What is in flight once the SPI has begun a transfer, or has nothing to send.
LEMMA OrderBegins ==
    ASSUME Types, Turns, ProtocolInv, OrderInv, SpiWakeStep \/ SpiReceiveStep
    PROVE  \/ Carried' = 0
           \/ Carried' = slaveOut.nr /\ slaveOut # Nothing /\ Popping'
<1>1. CASE ReadyToTransmit
  <2>1. /\ chipSelect /\ txFifo # <<>> /\ spiPhase' = "transfer" /\ Landing'
        /\ flight'.response = slaveOut
        /\ flight'.data = (Head(txFifo).kind = "zero")
    BY <1>1, BeginsTransfer, Zenon
  <2>2. /\ chipSelect' = chipSelect /\ slaveOut' = slaveOut /\ spiState' = spiState
        /\ ~Landing
    BY BeginsTransfer
  <2>3. Carried' = IF Head(txFifo).kind = "zero" THEN slaveOut.nr ELSE 0
    BY <2>1 DEF Carried
  <2>4. CASE Head(txFifo).kind = "zero" /\ slaveOut # Nothing
    <3>1. spiState.mode = "DataRead" /\ spiState.addr = "DATA"
      BY <2>1, <2>2, <2>4 DEF ProtocolInv, AddressNext
    <3> QED BY <2>1, <2>2, <2>3, <2>4, <3>1 DEF Popping
  <2>5. CASE ~(Head(txFifo).kind = "zero" /\ slaveOut # Nothing)
    BY <2>3, <2>5, OrderTypes
  <2> QED BY <2>4, <2>5
<1>2. CASE ~ReadyToTransmit
  <2>1. spiPhase' = "idle"
    BY <1>2, BeginsTransfer
  <2> QED BY <2>1 DEF Carried
<1> QED BY <1>1, <1>2

\* The byte that a transfer brings is newer than all that were received before.
LEMMA OrderSpi ==
    ASSUME Types, Turns, ProtocolInv, OrderInv, SpiWakeStep \/ SpiReceiveStep
    PROVE  OrderInv'
<1>1. UNCHANGED <<slaveOut, fifo, pushed>> /\ ~Landing /\ ~Popping
  BY BeginsTransfer DEF Popping
<1>2. /\ handed' = (IF Carried > handed THEN Carried ELSE handed)
      /\ inOrder' = (inOrder /\ (Carried = 0 \/ Carried > handed))
  <2>1. CASE SpiWakeStep
    <3>1. Carried = 0 /\ handed' = handed /\ inOrder' = inOrder
      BY <2>1 DEF SpiWakeStep, SpiOnly, SpiWake, Carried
    <3> QED BY <3>1, OrderTypes
  <2>2. CASE SpiReceiveStep
    BY <2>2 DEF SpiReceiveStep, SpiOnly, SpiReceive, Carried
  <2> QED BY <2>1, <2>2
<1>3. /\ handed' \in Nat /\ handed <= handed' /\ Carried <= handed'
      /\ handed' = handed \/ handed' = Carried
  BY <1>2, OrderTypes
<1>4. inOrder'
  BY <1>2 DEF OrderInv
<1>5. \A i \in 1..Len(fifo) : handed' < fifo[i].nr
  BY <1>1, <1>2, OrderTypes DEF OrderInv
<1>6. slaveOut # Nothing => slaveOut.nr > handed'
  BY <1>1, <1>2, OrderTypes DEF OrderInv
<1>7. handed' <= pushed
  BY <1>2 DEF OrderInv
<1>8. \/ Carried' = 0
      \/ Carried' = slaveOut.nr /\ slaveOut # Nothing /\ Popping'
  BY OrderBegins
<1>9. CASE Carried' = 0
  <2>1. \A i \in 1..Len(fifo) : 0 < fifo[i].nr
    BY OrderTypes
  <2>2. slaveOut # Nothing => slaveOut.nr > 0
    BY OrderTypes
  <2> QED BY <1>1, <1>4, <1>5, <1>6, <1>7, <1>9, <2>1, <2>2, OrderTypes DEF OrderInv
<1>10. CASE Carried' = slaveOut.nr /\ slaveOut # Nothing /\ Popping'
  BY <1>1, <1>4, <1>5, <1>6, <1>7, <1>10, OrderTypes DEF OrderInv
<1> QED BY <1>8, <1>9, <1>10

\* A device that has been reset holds no byte.
LEMMA OrderResets ==
    ASSUME Types, OrderInv, Resets, UNCHANGED <<inOrder, handed, spiPhase, flight>>
    PROVE  OrderInv'
<1>1. fifo' = <<>> /\ slaveOut' = Nothing /\ pushed' = pushed
  BY DEF Resets
<1>2. Carried' = Carried /\ Len(fifo') = 0
  BY <1>1, EmptySeq DEF Carried
<1> QED BY <1>1, <1>2, OrderTypes, ResponseTypes DEF OrderInv

\* spiInterface() prepares the next response and pops the one that has been read.
LEMMA OrderInterface ==
    ASSUME Types, Turns, ProtocolInv, OrderInv, SpiInterfaceStep
    PROVE  OrderInv'
<1>1. /\ SpiInterface
      /\ UNCHANGED <<inOrder, handed, pushed, spiPhase, flight>>
      /\ Carried' = Carried
  BY InterfaceTurn DEF spiVars, Carried
<1>2. fifo # <<>> => /\ Head(fifo) = fifo[1] /\ 1 \in 1..Len(fifo)
                     /\ Head(fifo) # Nothing
  <2>1. fifo # <<>> => Head(fifo) = fifo[1] /\ 1 \in 1..Len(fifo)
    BY OrderTypes, HeadTailProperties, EmptySeq
  <2> QED BY <2>1, OrderTypes, ResponseTypes
<1>3. CASE chipSelect /\ spiState.mode = "Address" /\ SetsAddress
  <2>1. fifo' = fifo /\ \E state : slaveOut' = Prepared(state, fifo)
    BY <1>3 DEF SetsAddress
  <2>2. slaveOut' = Nothing \/ (fifo # <<>> /\ slaveOut' = fifo[1])
    BY <1>2, <2>1 DEF Prepared
  <2>3. \A i \in 1..Len(fifo) : Carried < fifo[i].nr
    BY <1>3 DEF OrderInv, Popping
  <2>4. CASE slaveOut' = Nothing
    BY <1>1, <2>1, <2>3, <2>4, OrderTypes, ResponseTypes DEF OrderInv
  <2>5. CASE fifo # <<>> /\ slaveOut' = fifo[1]
    <3>1. \A i \in 1..Len(fifo) : fifo[1].nr <= fifo[i].nr
      BY <1>2, <2>5, OrderTypes DEF OrderInv
    <3>2. fifo[1].nr > handed /\ fifo[1].nr > Carried /\ fifo[1].nr <= pushed
      BY <1>2, <2>3, <2>5, OrderTypes DEF OrderInv
    <3> QED BY <1>1, <2>1, <2>3, <2>5, <3>1, <3>2, OrderTypes DEF OrderInv
  <2> QED BY <2>2, <2>4, <2>5
<1>4. CASE chipSelect /\ spiState.mode = "DataRead" /\ ReadsData
  <2>1. CASE spiState.addr = "DATA" /\ fifo # <<>>
    <3>1. fifo' = Tail(fifo) /\ slaveOut' = Prepared(spiState, Tail(fifo))
      BY <1>4, <2>1 DEF ReadsData, Popped
    <3>2. /\ Tail(fifo) \in Seq(DataBytes) /\ Len(Tail(fifo)) = Len(fifo) - 1
          /\ \A i \in 1..Len(Tail(fifo)) : Tail(fifo)[i] = fifo[i + 1]
      BY <2>1, OrderTypes, HeadTailProperties
    <3>3. ASSUME NEW i \in 1..Len(Tail(fifo))
          PROVE  /\ i + 1 \in 1..Len(fifo) /\ 1 < i + 1
                 /\ Carried < fifo[i + 1].nr
      <4>1. i + 1 \in 1..Len(fifo) /\ 1 \in 1..Len(fifo) /\ 1 < i + 1
        BY <3>2, OrderTypes
      <4>2. fifo[1].nr < fifo[i + 1].nr /\ slaveOut.nr <= fifo[1].nr
        BY <4>1 DEF OrderInv
      <4>3. Carried < fifo[i + 1].nr \/ Carried = slaveOut.nr
        BY <4>1 DEF OrderInv, Popping
      <4> QED BY <4>1, <4>2, <4>3, OrderTypes
    <3>4. slaveOut' = Nothing \/ (1 \in 1..Len(fifo') /\ slaveOut' = fifo'[1])
      BY <3>1, <3>2, HeadTailProperties, EmptySeq DEF Prepared
    <3>5. \A i \in 1..Len(fifo') : /\ fifo'[i] = fifo[i + 1] /\ i + 1 \in 1..Len(fifo)
                                   /\ Carried < fifo'[i].nr
      BY <3>1, <3>2, <3>3
    <3>6. Len(fifo') \in Nat
      BY <3>1, <3>2, OrderTypes, LenProperties
    <3>7. \A i, j \in 1..Len(fifo') : i < j => fifo'[i].nr < fifo'[j].nr
      <4> SUFFICES ASSUME NEW i \in 1..Len(fifo'), NEW j \in 1..Len(fifo'), i < j
                   PROVE  fifo'[i].nr < fifo'[j].nr
        OBVIOUS
      <4>1. i + 1 < j + 1 /\ i + 1 \in 1..Len(fifo) /\ j + 1 \in 1..Len(fifo)
        BY <3>5
      <4>2. fifo[i + 1].nr < fifo[j + 1].nr
        BY <4>1 DEF OrderInv
      <4> QED BY <3>5, <4>2
    <3>8. \A i \in 1..Len(fifo') : /\ handed < fifo'[i].nr /\ fifo'[i].nr <= pushed
                                   /\ fifo'[i].nr \in Nat \ {0}
      BY <3>5, OrderTypes DEF OrderInv
    <3>9. \A i \in 1..Len(fifo') : slaveOut'.nr <= fifo'[i].nr
      <4>1. CASE slaveOut' = Nothing
        BY <3>8, <4>1, ResponseTypes
      <4>2. CASE 1 \in 1..Len(fifo') /\ slaveOut' = fifo'[1]
        <5> SUFFICES ASSUME NEW i \in 1..Len(fifo') PROVE fifo'[1].nr <= fifo'[i].nr
          BY <4>2
        <5>1. i = 1 \/ 1 < i
          BY <3>6
        <5> QED BY <3>7, <3>8, <4>2, <5>1
      <4> QED BY <3>4, <4>1, <4>2
    <3>10. slaveOut' # Nothing => slaveOut'.nr > handed /\ slaveOut'.nr > Carried
      BY <3>4, <3>5, <3>8
    <3>11. slaveOut'.nr <= pushed
      BY <3>4, <3>8, OrderTypes, ResponseTypes
    <3> QED BY <1>1, <3>5, <3>7, <3>8, <3>9, <3>10, <3>11 DEF OrderInv
  <2>2. CASE spiState.addr = "DATA" /\ fifo = <<>>
    <3>1. fifo' = <<>> /\ slaveOut' = Nothing
      BY <1>4, <2>2 DEF ReadsData, Popped, Prepared
    <3>2. Len(fifo') = 0
      BY <3>1, EmptySeq
    <3> QED BY <1>1, <3>1, <3>2, OrderTypes, ResponseTypes DEF OrderInv
  <2>3. CASE spiState.addr # "DATA"
    <3>1. fifo' = fifo /\ slaveOut' = Nothing
      BY <1>4, <2>3 DEF ReadsData, Prepared
    <3>2. \A i \in 1..Len(fifo) : Carried < fifo[i].nr
      BY <2>3 DEF OrderInv, Popping
    <3> QED BY <1>1, <3>1, <3>2, OrderTypes, ResponseTypes DEF OrderInv
  <2> QED BY <2>1, <2>2, <2>3
<1>5. CASE SoftwareReset
  BY <1>1, <1>5, OrderResets DEF SoftwareReset
<1>6. CASE chipSelect /\ spiState.mode = "DataWrite" /\ WritesRegister
  <2>1. fifo' = fifo /\ slaveOut' = Nothing
    BY <1>6 DEF WritesRegister
  <2>2. \A i \in 1..Len(fifo) : Carried < fifo[i].nr
    BY <1>6 DEF OrderInv, Popping
  <2> QED BY <1>1, <2>1, <2>2, OrderTypes, ResponseTypes DEF OrderInv
<1>7. CASE ~chipSelect /\ fifo' = fifo /\ slaveOut' = slaveOut
  BY <1>1, <1>7, OrderFrame DEF Popping
<1> QED BY <1>1, <1>3, <1>4, <1>5, <1>6, <1>7, InterfaceCases, InterfaceTurn

\* A frame has newer numbers than everything before it, and what overflows is old.
LEMMA OrderSamples ==
    ASSUME Types, Turns, OrderInv, LoopStep, LoopSamples
    PROVE  OrderInv'
<1> DEFINE all == fifo \o Frame
<1>1. /\ EndOf(fifo', all) /\ pushed' = pushed + Len(Frame)
      /\ UNCHANGED <<slaveOut, spiState, slaveEvent, chipSelect>>
      /\ UNCHANGED <<inOrder, handed, spiPhase, flight>>
      /\ run' = run \ {"measurementLoop"}
      /\ loopPhase = "sample" /\ "measurementLoop" \in run
  BY SampleFacts DEF LoopStep, AccOnly, LoopSamples, Evaluate, spiVars
<1>2. /\ Frame \in Seq(DataBytes) /\ Len(Frame) \in 1..4
      /\ \A i \in 1..Len(Frame) : Frame[i].nr = pushed + i
  BY <1>1, FrameFacts
<1>3. /\ all \in Seq(DataBytes) /\ Len(all) = Len(fifo) + Len(Frame)
      /\ \A i \in 1..(Len(fifo) + Len(Frame)) :
             all[i] = IF i <= Len(fifo) THEN fifo[i] ELSE Frame[i - Len(fifo)]
  BY <1>2, OrderTypes, ConcatProperties
<1>4. Carried' = Carried /\ (Popping => Popping')
  BY <1>1, PoppingStays DEF Carried
<1> HIDE DEF all
<1> DEFINE N == Len(fifo)
           M == Len(Frame)
<1>5. N \in Nat /\ M \in 1..4
  BY <1>2, OrderTypes
<1>6. ASSUME NEW i \in 1..(N + M)
      PROVE  /\ i <= N => i \in 1..N /\ all[i] = fifo[i]
             /\ ~(i <= N) => i - N \in 1..M /\ all[i].nr = pushed + (i - N)
  <2>1. i <= N => i \in 1..N
    BY <1>5
  <2>2. ~(i <= N) => i - N \in 1..M
    BY <1>5
  <2> QED BY <1>2, <1>3, <2>1, <2>2
<1> HIDE DEF N, M
<1>7. \A i \in 1..N : /\ fifo[i].nr \in Nat /\ fifo[i].nr <= pushed /\ handed < fifo[i].nr
                      /\ slaveOut.nr <= fifo[i].nr
                      /\ Carried < fifo[i].nr \/ Popping
  BY OrderTypes DEF OrderInv, N
<1>8. \A i, j \in 1..N : i < j => fifo[i].nr < fifo[j].nr
  BY DEF OrderInv, N
<1>9. handed <= pushed /\ Carried <= pushed /\ slaveOut.nr <= pushed
  BY DEF OrderInv
<1>10. /\ pushed \in Nat /\ handed \in Nat /\ Carried \in Nat /\ slaveOut.nr \in Nat
  BY OrderTypes
<1>11. ASSUME NEW i \in 1..(N + M)
       PROVE  /\ all[i].nr \in Nat /\ all[i].nr <= pushed + M /\ handed < all[i].nr
              /\ slaveOut.nr <= all[i].nr /\ (Carried < all[i].nr \/ Popping)
  <2>1. CASE i <= N
    BY <1>5, <1>6, <1>7, <1>10, <2>1
  <2>2. CASE ~(i <= N)
    <3>1. i - N \in 1..M /\ all[i].nr = pushed + (i - N)
      BY <1>6, <2>2
    <3> QED BY <1>5, <1>9, <1>10, <3>1
  <2> QED BY <2>1, <2>2
<1>12. ASSUME NEW i \in 1..(N + M), NEW j \in 1..(N + M), i < j
       PROVE  all[i].nr < all[j].nr
  <2>1. CASE j <= N
    <3>1. i <= N
      BY <1>5, <1>12, <2>1
    <3> QED BY <1>6, <1>8, <1>12, <2>1, <3>1
  <2>2. CASE ~(j <= N) /\ i <= N
    <3>1. all[i].nr <= pushed /\ all[i].nr \in Nat
      BY <1>6, <1>7, <2>2
    <3>2. j - N \in 1..M /\ all[j].nr = pushed + (j - N)
      BY <1>6, <2>2
    <3> QED BY <1>5, <1>10, <3>1, <3>2
  <2>3. CASE ~(j <= N) /\ ~(i <= N)
    <3>1. /\ all[i].nr = pushed + (i - N) /\ all[j].nr = pushed + (j - N)
      BY <1>6, <2>3
    <3> QED BY <1>5, <1>10, <1>12, <3>1
  <2> QED BY <2>1, <2>2, <2>3
<1>13. /\ Len(fifo') \in Nat /\ Len(fifo') <= N + M
       /\ \A i \in 1..Len(fifo') : fifo'[i] = all[N + M - Len(fifo') + i]
  <2>1. Len(all) = N + M
    BY <1>3 DEF N, M
  <2>2. fifo' \in Seq(DataBytes) /\ Len(fifo') <= N + M
        /\ \A i \in 1..Len(fifo') : fifo'[i] = all[N + M - Len(fifo') + i]
    <3>1. /\ fifo' \in Seq(DataBytes) /\ Len(fifo') <= Len(all)
          /\ \A i \in 1..Len(fifo') : fifo'[i] = all[Len(all) - Len(fifo') + i]
      BY <1>1 DEF EndOf
    <3> QED BY <1>5, <2>1, <3>1
  <2> QED BY <2>2, LenProperties
<1>14. \A i \in 1..Len(fifo') : N + M - Len(fifo') + i \in 1..(N + M)
  BY <1>5, <1>13
<1>15. \A i, j \in 1..Len(fifo') : i < j => fifo'[i].nr < fifo'[j].nr
  <2> SUFFICES ASSUME NEW i \in 1..Len(fifo'), NEW j \in 1..Len(fifo'), i < j
               PROVE  fifo'[i].nr < fifo'[j].nr
    OBVIOUS
  <2>1. N + M - Len(fifo') + i < N + M - Len(fifo') + j
    BY <1>5, <1>13
  <2> QED BY <1>12, <1>13, <1>14, <2>1
<1>16. \A i \in 1..Len(fifo') :
          /\ fifo'[i].nr <= pushed + M /\ handed < fifo'[i].nr
          /\ slaveOut.nr <= fifo'[i].nr /\ (Carried < fifo'[i].nr \/ Popping)
  BY <1>11, <1>13, <1>14
<1>17. pushed' = pushed + M /\ pushed <= pushed'
  BY <1>1, <1>5, <1>10 DEF M
<1>18. handed <= pushed' /\ Carried <= pushed' /\ slaveOut.nr <= pushed'
  BY <1>5, <1>9, <1>10, <1>17
<1> QED BY <1>1, <1>4, <1>15, <1>16, <1>17, <1>18 DEF OrderInv

LEMMA OrderPreserved ==
    ASSUME Types, Turns, ProtocolInv, OrderInv, [Next]_vars
    PROVE  OrderInv'
<1>1. CASE UNCHANGED vars
  BY <1>1 DEF OrderInv, Popping, Carried, Landing, vars, kernelVars, spiVars, accVars,
         historyVars
<1>2. CASE DeltaCycle \/ TimePasses
  BY <1>2, OrderTimeDelta
<1>3. CASE SpiWakeStep \/ SpiReceiveStep
  BY <1>3, OrderSpi
<1>4. CASE SpiResetStep
  <2>1. /\ run' = run \ {"spiReset"}
        /\ UNCHANGED <<inOrder, handed, pushed, fifo, slaveOut, spiPhase, flight,
                       chipSelect, spiState, slaveEvent>>
    BY <1>4 DEF SpiResetStep, SpiReset, Evaluate, accVars
  <2> QED BY <2>1, PoppingStays, OrderFrame
<1>5. CASE AccResetStep
  BY <1>5, OrderResets DEF AccResetStep, AccOnly, AccReset, spiVars
<1>6. CASE SpiInterfaceStep
  BY <1>6, OrderInterface
<1>7. CASE LoopStep /\ LoopSamples
  BY <1>7, OrderSamples
<1>8. CASE \/ SpiIrqControlStep \/ NvicStep \/ UpdateIrqStep
           \/ LoopStep /\ ~LoopSamples
           \/ CpuStep /\ (EndReturn \/ StartHandler \/ BeginReturn \/ Idles)
  <2>1. /\ UNCHANGED <<chipSelect, spiPhase, flight, slaveOut, spiState, slaveEvent>>
        /\ \E p \in {"spiIrqControl", "nvic", "nvicReset", "updateIrq",
                     "measurementLoop", "cpu"} : run' = run \ {p}
    BY <1>8, BusUntouched
  <2>2. Popping => Popping'
    BY <2>1, PoppingStays
  <2>3. UNCHANGED <<inOrder, handed, pushed, fifo>>
    BY <1>8, CpuCases DEF SpiIrqControlStep, NvicStep, UpdateIrqStep, UpdateIrq, LoopStep,
           LoopWakes, LoopDelayed, AccOnly, accVars, historyVars
  <2> QED BY <2>1, <2>2, <2>3, OrderFrame
<1>9. CASE CpuStep /\ Program
  <2>1. /\ run' = run \ {"cpu"} /\ run \cap Methods = {}
        /\ UNCHANGED <<inOrder, handed, pushed, fifo, slaveOut, spiPhase, flight,
                       spiState, slaveEvent>>
    BY <1>9, CpuTurn DEF accVars
  <2>2. CASE chipSelect' = chipSelect
    BY <2>1, <2>2, PoppingStays, OrderFrame
  <2>3. CASE chipSelect' # chipSelect
    <3>1. ~chipSelect \/ (chipSelect /\ ~sr.bsy)
      BY <1>9, <2>3 DEF Program, Configure, Select, Deselect, Receive, SendAddress, SendZero,
             SendValue, Sends, Access
    <3>2. ~Popping
      <4>1. Landing => slaveEvent
        BY <2>1 DEF Landing, Methods
      <4>2. "slaveReset" \notin run
        BY <2>1 DEF Methods
      <4> QED BY <3>1, <4>1, <4>2 DEF Popping, ProtocolInv, Stale, Turns
    <3> QED BY <2>1, <3>2, OrderFrame
  <2> QED BY <2>2, <2>3
<1>10. CASE CpuStep
  BY <1>8, <1>9, <1>10, CpuCases
<1> QED BY <1>1, <1>2, <1>3, <1>4, <1>5, <1>6, <1>7, <1>8, <1>10
        DEF Next, SpiStep, AccStep

-----------------------------------------------------------------------------
(* The theorems *)

NodeInv == Types /\ Turns /\ TxInv /\ IrqInv /\ RxInv /\ ProtocolInv /\ OrderInv

LEMMA NodeInvInitially == Init => NodeInv
<1> SUFFICES ASSUME Init PROVE NodeInv
  OBVIOUS
<1>1. Types /\ Turns
  BY TypesInitially, TurnsInitially
<1>2. TxInv /\ IrqInv
  BY DEF Init, SpiInit, AccInit, TxInv, ReadyToTransmit, IrqInv
<1>3. RxInv
  BY DEF Init, SpiInit, RxInv, OutOfReset, Pending, Resetters
<1>4. ProtocolInv
  BY DEF Init, SpiInit, SrReset, AccInit, ProtocolInv
<1>5. OrderInv
  <2>1. fifo = <<>> /\ pushed = 0 /\ handed = 0 /\ slaveOut = Nothing /\ Carried = 0 /\ inOrder
    BY DEF Init, SpiInit, AccInit, Carried
  <2>2. Len(fifo) = 0 /\ slaveOut.nr = 0
    BY <2>1, EmptySeq, ResponseTypes
  <2> QED BY <2>1, <2>2 DEF OrderInv
<1> QED BY <1>1, <1>2, <1>3, <1>4, <1>5 DEF NodeInv

LEMMA NodeInvPreserved == NodeInv /\ [Next]_vars => NodeInv'
BY TypesPreserved, TurnsPreserved, TxPreserved, IrqPreserved, RxPreserved,
   ProtocolPreserved, OrderPreserved DEF NodeInv

LEMMA NodeInvHolds == Spec => []NodeInv
BY NodeInvInitially, NodeInvPreserved, PTL DEF Spec

\* No lost wake-up of the SPI, which waits for events that do not persist
\* (Spi::process): an enabled SPI with a byte to send, waiting while nothing else
\* happens, has its event on the way, however the writes of CR1, CR2 and DR, the end
\* of a transfer and a power failure follow on each other.
THEOREM SpiNeverSleepsOnBytes == Spec => []TxWoken
<1>1. NodeInv => TxWoken
  BY DEF NodeInv, TxInv, TxWoken, Settled
<1> QED BY <1>1, NodeInvHolds, PTL

\* The interrupt line of the accelerometer, which updateIrq copies a delta cycle
\* after the FIFO has changed, means data to read unless the device was reset.
THEOREM AccelerometerIrqIsTrue == Spec => []IrqMeansData
<1>1. NodeInv => IrqMeansData
  <2>1. Types => setIrq \in BOOLEAN /\ irq \in BOOLEAN
    BY TypeParts DEF Types, AccTypeOK
  <2> QED BY <2>1 DEF NodeInv, IrqInv, IrqMeansData, Settled, Pending
<1> QED BY <1>1, NodeInvHolds, PTL

\* An interrupt that the SPI owes for a received byte stays pending until a handler
\* starts, whatever Spi::irqControl makes of a request, the start and the end of a
\* handler that meet in one delta cycle.
THEOREM SpiInterruptSurvives == Spec => []RxIrqNotLost
<1>1. NodeInv => RxIrqNotLost
  <2> SUFFICES ASSUME NodeInv, Settled, nReset, rxOwed PROVE pended
    BY DEF RxIrqNotLost
  <2>1. ~Pending("spiIrqControl") /\ ~Pending("nvic") /\ OutOfReset
    BY DEF Settled, Pending, OutOfReset
  <2>2. seen.irq = spiIrq /\ ~spiSetIrq
    BY <2>1 DEF NodeInv, RxInv
  <2> QED BY <2>2, RxTypes DEF NodeInv, RxInv, Requested, Raised, Offered
<1> QED BY <1>1, NodeInvHolds, PTL

\* The device answers a transaction ahead and pops the byte when the next has
\* fetched it (Accelerometer::spiInterface); frames are pushed and dropped and the
\* device and the SPI are reset meanwhile.  No byte is received twice, and none
\* after a newer one, for any number of bytes, frames and power failures.
THEOREM BytesComeInOrder == Spec => []DataInOrder
<1>1. NodeInv => DataInOrder
  BY DEF NodeInv, OrderInv, DataInOrder
<1> QED BY <1>1, NodeInvHolds, PTL

=============================================================================
