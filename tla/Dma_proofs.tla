----------------------------- MODULE Dma_proofs -----------------------------
(***************************************************************************)
(* The DMA controller never counts a block below zero, moves every element *)
(* of a job once and in place, never loses a completion, and copies blocks *)
(* as BlockCopy promises: for every set of channels, jobs and triggers,    *)
(* any time the memory takes, and any number of accesses and power         *)
(* failures.                                                               *)
(*                                                                         *)
(* The invariants: the types (Types), to which NoCompletionLost adds the   *)
(* news of a completion (CompletionInv); the handshake between the bus     *)
(* thread and the threads of the channels (HandshakeInv); the job of a     *)
(* channel against its members (JobsInv); and for the copy the count of a  *)
(* channel (CountsInv) and the element that is held (DataInv).             *)
(***************************************************************************)
EXTENDS DmaCopy, WellFoundedInduction, TLAPS

-----------------------------------------------------------------------------
(* Type correctness *)

\* The sc_signals of Dma.cpp, its channels and its multiplexers.
Signals ==
    [pwrOn : BOOLEAN, in : [Triggers -> BOOLEAN], select : [Channels -> Triggers],
     trigger : [Channels -> BOOLEAN], pending : [Channels -> BOOLEAN],
     accept : [Channels -> BOOLEAN], busStall : BOOLEAN, irq : BOOLEAN, active : BOOLEAN]

\* The signals and the scheduler.
KernelTypes ==
    sig \in Signals /\ nxt \in Signals /\ run \subseteq Processes /\ delta \subseteq Events

\* The values of DMAIV, one bit per channel.
Vectors == {0} \cup {2^(c + 1) : c \in Channels}

\* The register file.
RegTypes ==
    regs \in [sa : [Channels -> Nat], da : [Channels -> Nat], sz : [Channels -> Nat],
              en : [Channels -> BOOLEAN], iv : Vectors]

\* Where Dma::process waits.
ProcTypes ==
    proc \in [at : {"idle", "sync", "read", "write"}, channel : Channels, time : Nat,
              from : Int]

\* The flags of the controller, and the history.
FlagTypes ==
    /\ flagTimed \in BOOLEAN /\ setIrq \in BOOLEAN /\ clearIfg \in BOOLEAN
    /\ cpuStalled \in BOOLEAN /\ acked \in BOOLEAN
    /\ due \subseteq Channels

\* A channel that is enabled, or whose DMAxSZ holds a size the software wrote, has
\* elements to count, and so has its block (Dma.cpp:533, 549).
Sound(k, n) ==
    /\ n \in Sizes => k.size >= 1
    /\ k.enable => k.size >= 1 /\ n >= 1
    /\ k.size >= 1 => k.tSize >= 1

\* The inductive strengthening of TypeOK.
Types ==
    /\ KernelTypes /\ RegTypes /\ ProcTypes /\ FlagTypes
    /\ ch \in [Channels -> ChannelType]
    /\ \A c \in Channels : Sound(ch[c], regs.sz[c])

\* The loops of Dma.cpp:181 and 240 find a lowest channel.
LEMMA LowestChannel ==
    ASSUME NEW S \in SUBSET Channels, S # {}
    PROVE  Min(S) \in S
<1>1. S \subseteq Nat
  BY DmaAssumption
<1>2. \E m \in S : \A n \in S : ~(<<n, m>> \in OpToRel(<, Nat))
  BY <1>1, WFMin, NatLessThanWellFounded
<1>3. ASSUME NEW m \in S, NEW n \in S, ~(<<n, m>> \in OpToRel(<, Nat))
      PROVE  m =< n
  BY <1>1, <1>3 DEF OpToRel
<1>4. \E m \in S : \A n \in S : m =< n
  BY <1>2, <1>3
<1>. QED  BY <1>4 DEF Min

\* The sizes of the jobs are positive, and not what the reset leaves in DMAxSZ.
LEMMA SizesPositive == (\A n \in Sizes : n \in Nat /\ n >= 1) /\ Undef \in Nat \ Sizes
<1>1. \A cfg \in Configs : cfg.sz \in Nat /\ cfg.sz >= 1
  BY DmaAssumption DEF ConfigType
<1>. QED  BY <1>1, DmaAssumption DEF Sizes

\* The members of a channel after a piece of its thread: they keep their types and
\* the flag, and have elements to count if they had before.
Follows(k, k2) ==
    /\ k2 \in ChannelType
    /\ k.flag => k2.flag
    /\ k2.ie = k.ie
    /\ \A n \in Nat : Sound(k, n) => Sound(k2, n)

\* Following is transitive.
LEMMA FollowsTwice ==
    ASSUME NEW k, NEW k2, NEW k3, Follows(k, k2), Follows(k2, k3)
    PROVE  Follows(k, k3)
BY DEF Follows

\* Loading and advancing the internal addresses (Dma.cpp:290, 418).
LEMMA AddressesFollow ==
    ASSUME NEW k \in ChannelType
    PROVE  /\ Follows(k, Loaded(k)) /\ Follows(k, UpdateAddresses(k))
           /\ Loaded(k).size = k.size /\ Loaded(k).tSize = k.tSize
           /\ UpdateAddresses(k).size = k.size /\ UpdateAddresses(k).tSize = k.tSize
<1>1. k.tSa + k.sInc \in Int /\ k.tDa + k.dInc \in Int /\ k.sa \in Int /\ k.da \in Int
  BY DEF ChannelType
<1>2. Loaded(k) \in ChannelType /\ UpdateAddresses(k) \in ChannelType
  BY <1>1 DEF ChannelType, Loaded, UpdateAddresses
<1>. QED  BY <1>2 DEF Follows, Sound, Loaded, UpdateAddresses, ChannelType

\* A trigger starts a block of an enabled channel (Dma.cpp:393).
LEMMA StartFollows ==
    ASSUME NEW k \in ChannelType, \E n \in Nat : Sound(k, n), k.enable
    PROVE  Follows(k, Start(k))
<1>. DEFINE l == IF LoadsAddresses(k) THEN Loaded(k) ELSE k
            size == IF k.mode \in Singles THEN l.size ELSE k.tSize
<1>1. /\ l \in ChannelType /\ l.flag = k.flag /\ l.ie = k.ie /\ l.enable = k.enable
      /\ l.size = k.size /\ l.tSize = k.tSize
  BY AddressesFollow DEF Follows, Loaded, ChannelType
<1>2. size \in Nat /\ size >= 1 /\ k.tSize >= 1
  BY <1>1 DEF Sound, ChannelType
<1>3. Start(k) = [l EXCEPT !.size = size, !.at = "accept", !.case = k.mode]
  BY DEF Start
<1>. HIDE DEF l, size
<1>4. Start(k) \in ChannelType
  BY <1>1, <1>2, <1>3 DEF ChannelType
<1>5. /\ Start(k).flag = k.flag /\ Start(k).ie = k.ie /\ Start(k).enable = k.enable
      /\ Start(k).size >= 1 /\ Start(k).tSize >= 1
  BY <1>1, <1>2, <1>3 DEF ChannelType
<1>. QED  BY <1>4, <1>5 DEF Follows, Sound

\* After a beat: the count goes down but not below one, or the block is done
\* (Dma.cpp:423).
LEMMA AfterBeatFollows ==
    ASSUME NEW k \in ChannelType, \E n \in Nat : Sound(k, n)
    PROVE  Follows(k, AfterBeat(k))
<1>1. CASE LastBeat(k)
  <2>. DEFINE done == [k EXCEPT !.size = k.tSize, !.flag = TRUE]
  <2>1. done \in ChannelType /\ Follows(k, done)
    BY DEF ChannelType, Follows, Sound
  <2>2. ASSUME NEW at \in {"trigger", "accept"}
        PROVE  Follows(done, [done EXCEPT !.at = at])
    BY <2>1 DEF ChannelType, Follows, Sound
  <2>3. Follows(done, [done EXCEPT !.at = "trigger", !.enable = FALSE])
    BY <2>1 DEF ChannelType, Follows, Sound
  <2>4. Follows(done, Loaded([done EXCEPT !.at = "accept"]))
    <3>. DEFINE a == [done EXCEPT !.at = "accept"]
    <3>1. Follows(done, a)
      BY <2>2
    <3>2. a \in ChannelType
      BY <3>1 DEF Follows
    <3>. HIDE DEF a, done
    <3>. QED  BY <3>1, <3>2, AddressesFollow, FollowsTwice DEF a
  <2>5. \/ AfterBeat(k) = Loaded([done EXCEPT !.at = "accept"])
        \/ AfterBeat(k) = [done EXCEPT !.at = "trigger"]
        \/ AfterBeat(k) = [done EXCEPT !.at = "trigger", !.enable = FALSE]
    BY <1>1 DEF AfterBeat, Finished
  <2>. HIDE DEF done
  <2>. QED  BY <2>1, <2>2, <2>3, <2>4, <2>5, FollowsTwice
<1>2. CASE ~LastBeat(k)
  <2>. DEFINE size == IF k.case = "RepeatedBlock" THEN k.size ELSE k.size - 1
              at == IF k.case \in Singles THEN "trigger" ELSE "accept"
  <2>1. size \in Nat /\ size >= 1
    <3>1. CASE k.case \in Singles
      BY <1>2, <3>1 DEF LastBeat, Singles, ChannelType
    <3>2. CASE k.case = "RepeatedBlock"
      BY <1>2, <3>2 DEF LastBeat, Singles, ChannelType, Sound
    <3>3. CASE k.case \notin Singles /\ k.case # "RepeatedBlock"
      BY <1>2, <3>3 DEF LastBeat, ChannelType, Sound
    <3>. QED  BY <3>1, <3>2, <3>3
  <2>2. AfterBeat(k) = [k EXCEPT !.size = size, !.at = at]
    BY <1>2 DEF AfterBeat
  <2>3. at \in {"trigger", "accept"}
    OBVIOUS
  <2>4. k.size >= 1
    BY <2>1 DEF ChannelType
  <2>. HIDE DEF size, at
  <2>. QED  BY <2>1, <2>2, <2>3, <2>4 DEF ChannelType, Follows, Sound
<1>. QED  BY <1>1, <1>2

\* The pause of a burst (Dma.cpp:448).
LEMMA PauseFollows ==
    ASSUME NEW k \in ChannelType
    PROVE  Follows(k, [k EXCEPT !.at = "pause", !.pause = 2])
<1>. DEFINE p == [k EXCEPT !.at = "pause", !.pause = 2]
<1>1. p \in ChannelType
  <2>1. ASSUME NEW at \in {"trigger", "accept", "pause"}, NEW pause \in 0..2
        PROVE  [k EXCEPT !.at = at, !.pause = pause] \in ChannelType
    BY DEF ChannelType
  <2>2. 2 \in 0..2
    OBVIOUS
  <2>. QED  BY <2>1, <2>2
<1>2. /\ p.flag = k.flag /\ p.ie = k.ie /\ p.size = k.size /\ p.tSize = k.tSize
      /\ p.enable = k.enable
  BY DEF ChannelType
<1>. HIDE DEF p
<1>3. Follows(k, p)
  BY <1>1, <1>2 DEF Follows, Sound
<1>. QED  BY <1>3 DEF p

\* A piece of a channel's thread, whatever it waited for.
LEMMA ChannelEffect ==
    ASSUME Types, NEW c \in Channels,
           ChannelTrigger(c) \/ ChannelAccept(c) \/ ChannelResume(c)
    PROVE  /\ \E k : Follows(ch[c], k) /\ ChannelBecomes(c, k)
           /\ Evaluate("channel", c)
<1>0. /\ ch[c] \in ChannelType /\ regs.sz[c] \in Nat /\ Sound(ch[c], regs.sz[c])
  BY DEF Types, RegTypes
<1>00. Follows(ch[c], ch[c])
  BY <1>0 DEF Follows
<1>1. CASE ChannelTrigger(c)
  BY <1>0, <1>00, <1>1, StartFollows DEF ChannelTrigger
<1>2. CASE ChannelAccept(c)
  <2>. DEFINE k == UpdateAddresses(ch[c])
              p == [k EXCEPT !.at = "pause", !.pause = 2]
  <2>1. Follows(ch[c], k) /\ k \in ChannelType
    BY <1>0, AddressesFollow DEF Follows
  <2>2. Sound(k, regs.sz[c])
    BY <1>0, <2>1 DEF Follows
  <2>. HIDE DEF k
  <2>3. Follows(ch[c], AfterBeat(k))
    BY <1>0, <2>1, <2>2, AfterBeatFollows, FollowsTwice
  <2>4. Follows(k, p)
    BY <2>1, PauseFollows
  <2>. HIDE DEF p
  <2>5. Follows(ch[c], p)
    BY <2>1, <2>4, FollowsTwice
  <2>. QED  BY <1>2, <2>3, <2>5 DEF ChannelAccept, k, p
<1>3. CASE ChannelResume(c)
  BY <1>0, <1>3, AfterBeatFollows DEF ChannelResume
<1>. QED  BY <1>1, <1>2, <1>3

\* The elaborated design has the types.
LEMMA TypesInitially == Init => Types
<1>. SUFFICES ASSUME Init PROVE Types
  OBVIOUS
<1>1. Undef \in Nat /\ 0 \in Triggers /\ Channels \in SUBSET Channels /\ Channels # {}
  BY DmaAssumption
<1>2. KernelTypes
  BY <1>1 DEF Init, KernelTypes, SignalInit, Signals, Processes
<1>3. RegTypes
  BY <1>1 DEF Init, RegTypes, RegsReset, Vectors
<1>4. ProcTypes
  <2>1. Min(Channels) \in Channels
    BY <1>1, LowestChannel
  <2>. QED  BY <2>1 DEF Init, ProcTypes
<1>5. FlagTypes
  BY DEF Init, FlagTypes
<1>6. ch \in [Channels -> ChannelType] /\ \A c \in Channels : Sound(ch[c], regs.sz[c])
  <2>1. PICK flagged \in SUBSET Channels :
            ch = [c \in Channels |-> [ChannelInit EXCEPT !.flag = c \in flagged]]
    BY DEF Init
  <2>2. ASSUME NEW b \in BOOLEAN
        PROVE  /\ [ChannelInit EXCEPT !.flag = b] \in ChannelType
               /\ Sound([ChannelInit EXCEPT !.flag = b], Undef)
    <3>1. /\ ChannelInit \in ChannelType /\ ~ChannelInit.enable
          /\ ChannelInit.size = 0 /\ ChannelInit.tSize = 0
      BY DEF ChannelInit, ChannelType, Modes
    <3>. DEFINE k == [ChannelInit EXCEPT !.flag = b]
    <3>2. k \in ChannelType /\ ~k.enable /\ k.size = 0 /\ k.tSize = 0
      BY <3>1 DEF ChannelType
    <3>. QED  BY <3>2, SizesPositive DEF Sound
  <2>3. \A c \in Channels : regs.sz[c] = Undef
    BY DEF Init, RegsReset
  <2>4. ASSUME NEW c \in Channels
        PROVE  ch[c] \in ChannelType /\ Sound(ch[c], regs.sz[c])
    <3>1. (c \in flagged) \in BOOLEAN
      OBVIOUS
    <3>2. ch[c] = [ChannelInit EXCEPT !.flag = c \in flagged]
      BY <2>1
    <3>. QED  BY <2>2, <2>3, <3>1, <3>2
  <2>5. ch = [c \in Channels |-> ch[c]]
    BY <2>1
  <2>. QED  BY <2>4, <2>5
<1>. QED  BY <1>2, <1>3, <1>4, <1>5, <1>6 DEF Types

\* The update phase only copies signals.
LEMMA TypesDelta == ASSUME Types, DeltaCycle PROVE Types'
<1>1. KernelTypes'
  <2>1. Triggered \subseteq Processes
    BY DEF Triggered, Processes
  <2>. QED  BY <2>1 DEF Types, KernelTypes, DeltaCycle
<1>. QED  BY <1>1 DEF Types, DeltaCycle, RegTypes, ProcTypes, FlagTypes, irqVars

\* A cycle later the waits are shorter.
LEMMA TypesTime == ASSUME Types, TimePasses PROVE Types'
<1>1. PICK in \in [Triggers -> BOOLEAN], active \in BOOLEAN, pwrOn \in BOOLEAN,
           cpu \in SUBSET {<<"cpu", 0>>} : Cycle(in, active, pwrOn, cpu)
  BY DEF TimePasses
<1>2. KernelTypes'
  <2>1. Resumed \subseteq Processes /\ cpu \subseteq Processes
    BY DEF Resumed, Processes
  <2>2. [nxt EXCEPT !.in = in, !.active = active, !.pwrOn = pwrOn] \in Signals
    BY DEF Types, KernelTypes, Signals
  <2>. QED  BY <1>1, <2>1, <2>2 DEF Types, KernelTypes, Cycle
<1>3. ProcTypes'
  <2>1. (IF proc.time = 0 THEN 0 ELSE proc.time - 1) \in Nat
    BY DEF Types, ProcTypes
  <2>. QED  BY <1>1, <2>1 DEF Types, ProcTypes, Cycle
<1>4. RegTypes' /\ FlagTypes' /\ regs' = regs
  BY <1>1 DEF Types, RegTypes, FlagTypes, Cycle
<1>5. ASSUME NEW c \in Channels
      PROVE  ch'[c] \in ChannelType /\ Sound(ch'[c], regs'.sz[c])
  <2>. DEFINE k == ch[c]
              pause == IF k.pause = 0 THEN 0 ELSE k.pause - 1
  <2>1. k \in ChannelType /\ Sound(k, regs.sz[c])
    BY DEF Types
  <2>2. pause \in 0..2
    BY <2>1 DEF ChannelType
  <2>3. ch'[c] = [k EXCEPT !.pause = pause]
    BY <1>1 DEF Cycle
  <2>. HIDE DEF k, pause
  <2>. QED  BY <1>4, <2>1, <2>2, <2>3 DEF ChannelType, Sound
<1>6. ch' \in [Channels -> ChannelType]
  <2>1. ch' = [c \in Channels |-> ch'[c]]
    BY <1>1 DEF Cycle
  <2>. QED  BY <1>5, <2>1
<1>. QED  BY <1>2, <1>3, <1>4, <1>5, <1>6 DEF Types

\* A channel's thread or multiplexer drives a signal of its own.
LEMMA TypesChannel ==
    ASSUME Types, NEW c \in Channels, ChannelStep(c) PROVE Types'
<1>1. CASE Mux(c)
  <2>. DEFINE v == sig.pwrOn /\ sig.in[sig.select[c]]
  <2>1. v \in BOOLEAN
    BY DEF Types, KernelTypes, Signals
  <2>2. ASSUME NEW b \in BOOLEAN PROVE [nxt EXCEPT !.trigger[c] = b] \in Signals
    BY DEF Types, KernelTypes, Signals
  <2>3. KernelTypes'
    BY <1>1, <2>1, <2>2 DEF Types, KernelTypes, Mux, Evaluate
  <2>. QED  BY <1>1, <2>3 DEF Mux, Types, RegTypes, ProcTypes, FlagTypes, irqVars
<1>2. CASE ChannelTrigger(c) \/ ChannelAccept(c) \/ ChannelResume(c)
  <2>1. PICK k : Follows(ch[c], k) /\ ChannelBecomes(c, k)
    BY <1>2, ChannelEffect
  <2>2. KernelTypes'
    <3>1. ASSUME NEW b \in BOOLEAN PROVE [nxt EXCEPT !.pending[c] = b] \in Signals
      BY DEF Types, KernelTypes, Signals
    <3>2. (k.at # "trigger") \in BOOLEAN
      OBVIOUS
    <3>3. nxt' \in Signals
      BY <2>1, <3>1, <3>2 DEF ChannelBecomes
    <3>. QED  BY <1>2, <2>1, <3>3, ChannelEffect
              DEF Types, KernelTypes, ChannelBecomes, Evaluate
  <2>3. RegTypes' /\ ProcTypes' /\ regs' = regs
    BY <2>1 DEF Types, RegTypes, ProcTypes, ChannelBecomes
  <2>4. FlagTypes'
    <3>1. acked' = acked /\ due' = due /\ cpuStalled' = cpuStalled /\ UNCHANGED irqVars
      BY <2>1 DEF ChannelBecomes
    <3>. QED  BY <3>1 DEF Types, FlagTypes, irqVars
  <2>5. /\ ch' \in [Channels -> ChannelType]
        /\ \A d \in Channels : Sound(ch'[d], regs'.sz[d])
    <3>1. \A d \in Channels : regs.sz[d] \in Nat
      BY DEF Types, RegTypes
    <3>. QED  BY <2>1, <2>3, <3>1 DEF Types, Follows, ChannelBecomes
  <2>. QED  BY <2>2, <2>3, <2>4, <2>5 DEF Types
<1>. QED  BY <1>1, <1>2 DEF ChannelStep

\* What Dma::process does at the top of its loop.
LEMMA ScannedTypes ==
    ASSUME Types
    PROVE  /\ Scanned.stall \in BOOLEAN
           /\ Scanned.proc \in [at : {"idle", "sync", "read", "write"}, channel : Channels,
                                time : Nat, from : Int]
<1>1. Pending # {} => Min(Pending) \in Channels
  BY LowestChannel DEF Pending
<1>. QED  BY <1>1 DEF Scanned, Types, ProcTypes

\* The thread Dma::process keeps the types; a channel it leaves keeps its size in DMAxSZ.
LEMMA TypesProcess ==
    ASSUME Types, ProcessScan \/ ProcessSynced \/ ProcessWrite \/ ProcessWritten
    PROVE  Types'
<1>. DEFINE c == proc.channel
<1>0. /\ c \in Channels /\ \A d \in Delays : d \in Nat
      /\ ch[c].tSa \in Int /\ ch[c].size \in Nat /\ ch[c] \in ChannelType
      /\ Sound(ch[c], regs.sz[c]) /\ sig.pending[c] \in BOOLEAN
  BY DmaAssumption DEF Types, ProcTypes, ChannelType, KernelTypes, Signals
<1>. DEFINE Reads == ReadNext(c)
            Leaves == Leave(c)
<1>1. \/ ProcessScan
      \/ ProcessWrite
      \/ Reads
      \/ Leaves
  BY DEF ProcessSynced, ProcessWritten
<1>2. nxt' \in Signals
  <2>1. ASSUME NEW b \in BOOLEAN, NEW s \in BOOLEAN
        PROVE  /\ [nxt EXCEPT !.accept[c] = b] \in Signals
               /\ [nxt EXCEPT !.busStall = s] \in Signals
               /\ [nxt EXCEPT !.accept[c] = b, !.busStall = s] \in Signals
    BY <1>0 DEF Types, KernelTypes, Signals
  <2>2. CASE ProcessScan
    BY <2>1, <2>2, ScannedTypes DEF ProcessScan
  <2>3. CASE ProcessWrite
    BY <2>1, <2>3 DEF ProcessWrite
  <2>4. CASE Reads
    BY <2>1, <2>4 DEF ReadNext
  <2>5. CASE Leaves
    BY <2>1, <2>5, ScannedTypes DEF Leave
  <2>. QED  BY <1>1, <2>2, <2>3, <2>4, <2>5
<1>3. ProcTypes'
  <2>1. CASE ProcessScan
    BY <2>1, ScannedTypes DEF ProcessScan, ProcTypes
  <2>2. CASE ProcessWrite
    BY <1>0, <2>2 DEF ProcessWrite, Types, ProcTypes
  <2>3. CASE Reads
    BY <1>0, <2>3 DEF ReadNext, Types, ProcTypes
  <2>4. CASE Leaves
    BY <2>4, ScannedTypes DEF Leave, ProcTypes
  <2>. QED  BY <1>1, <2>1, <2>2, <2>3, <2>4
<1>4. sig' = sig /\ run' \subseteq run /\ ch' = ch
  BY DEF ProcessScan, ProcessSynced, ProcessWrite, ProcessWritten, Evaluate
<1>5. delta' \subseteq Events
  BY DEF ProcessScan, ProcessSynced, ProcessWrite, ProcessWritten, ReadNext, Leave,
         NotifyFlagEvent, Events, Types, KernelTypes
<1>6. KernelTypes'
  BY <1>2, <1>4, <1>5 DEF Types, KernelTypes
<1>7. FlagTypes'
  <2>1. setIrq' = setIrq /\ clearIfg' = clearIfg /\ cpuStalled' = cpuStalled /\ acked' = acked
    BY DEF ProcessScan, ProcessSynced, ProcessWrite, ProcessWritten, irqVars
  <2>2. flagTimed' \in BOOLEAN /\ due' \subseteq Channels
    BY <1>0 DEF ProcessScan, ProcessSynced, ProcessWrite, ProcessWritten, ReadNext, Leave,
           NotifyFlagEvent, irqVars, Types, FlagTypes
  <2>. QED  BY <2>1, <2>2 DEF Types, FlagTypes
<1>8. RegTypes' /\ \A d \in Channels : Sound(ch'[d], regs'.sz[d])
  <2>1. CASE ProcessWritten
    <3>1. regs' = [regs EXCEPT !.sz[c] = ch[c].size,
                               !.en[c] = @ /\ (sig.pending[c] \/ ch[c].enable)]
      BY <2>1 DEF ProcessWritten
    <3>2. (regs.en[c] /\ (sig.pending[c] \/ ch[c].enable)) \in BOOLEAN
      OBVIOUS
    <3>3. ASSUME NEW b \in BOOLEAN, NEW n \in Nat
          PROVE  /\ [regs EXCEPT !.sz[c] = n, !.en[c] = b].sz = [regs.sz EXCEPT ![c] = n]
                 /\ [regs EXCEPT !.sz[c] = n, !.en[c] = b]
                      \in [sa : [Channels -> Nat], da : [Channels -> Nat],
                           sz : [Channels -> Nat], en : [Channels -> BOOLEAN], iv : Vectors]
      <4>. DEFINE sz == [regs.sz EXCEPT ![c] = n]
                  en == [regs.en EXCEPT ![c] = b]
      <4>1. sz \in [Channels -> Nat] /\ en \in [Channels -> BOOLEAN]
        BY <1>0 DEF Types, RegTypes
      <4>2. [regs EXCEPT !.sz[c] = n, !.en[c] = b] = [regs EXCEPT !.sz = sz, !.en = en]
        BY DEF Types, RegTypes
      <4>. HIDE DEF sz, en
      <4>3. /\ [regs EXCEPT !.sz = sz, !.en = en].sz = sz
            /\ [regs EXCEPT !.sz = sz, !.en = en]
                 \in [sa : [Channels -> Nat], da : [Channels -> Nat],
                      sz : [Channels -> Nat], en : [Channels -> BOOLEAN], iv : Vectors]
        BY <4>1 DEF Types, RegTypes
      <4>. QED  BY <4>2, <4>3 DEF sz
    <3>4. RegTypes' /\ regs'.sz = [regs.sz EXCEPT ![c] = ch[c].size]
      BY <1>0, <3>1, <3>2, <3>3 DEF RegTypes
    <3>5. Sound(ch[c], ch[c].size)
      <4>1. ch[c].size \in Sizes => ch[c].size >= 1
        BY SizesPositive
      <4>. QED  BY <1>0, <4>1 DEF Sound
    <3>6. regs.sz \in [Channels -> Nat]
      BY DEF Types, RegTypes
    <3>. QED  BY <1>4, <3>4, <3>5, <3>6 DEF Types
  <2>2. CASE ~ProcessWritten
    BY <1>4, <2>2 DEF ProcessScan, ProcessSynced, ProcessWrite, Types, RegTypes
  <2>. QED  BY <2>1, <2>2
<1>. QED  BY <1>3, <1>4, <1>6, <1>7, <1>8 DEF Types

\* The flags and the interrupt line (interruptUpdate, irqControl).
LEMMA TypesIrq == ASSUME Types, ClearFlag \/ UpdateVector \/ IrqControl PROVE Types'
<1>0. Flagged # {} => Min(Flagged) \in Channels
  BY LowestChannel DEF Flagged
<1>1. KernelTypes'
  <2>1. nxt' \in Signals
    <3>1. ASSUME NEW b \in BOOLEAN PROVE [nxt EXCEPT !.irq = b] \in Signals
      BY DEF Types, KernelTypes, Signals
    <3>2. CASE IrqControl
      <4>. DEFINE irq == CASE ~sig.pwrOn -> FALSE
                           [] sig.pwrOn /\ setIrq /\ ~sig.irq -> TRUE
                           [] Acknowledges -> FALSE
                           [] OTHER -> nxt.irq
      <4>1. irq \in BOOLEAN
        BY DEF Types, KernelTypes, Signals
      <4>2. nxt' = [nxt EXCEPT !.irq = irq]
        BY <3>2 DEF IrqControl
      <4>. HIDE DEF irq
      <4>. QED  BY <3>1, <4>1, <4>2
    <3>3. CASE ClearFlag \/ UpdateVector
      BY <3>3 DEF ClearFlag, UpdateVector, Types, KernelTypes
    <3>. QED  BY <3>2, <3>3
  <2>2. sig' = sig /\ run' \subseteq run
    BY DEF ClearFlag, UpdateVector, IrqControl, Evaluate
  <2>3. delta' \subseteq delta \cup Events
    BY DEF ClearFlag, UpdateVector, IrqControl, NotifyFlagEvent, Events
  <2>. QED  BY <2>1, <2>2, <2>3 DEF Types, KernelTypes
<1>2. FlagTypes'
  <2>1. cpuStalled' = cpuStalled /\ due' \subseteq due
    BY DEF ClearFlag, UpdateVector, IrqControl
  <2>2. /\ acked' \in BOOLEAN /\ setIrq' \in BOOLEAN
        /\ clearIfg' \in BOOLEAN /\ flagTimed' \in BOOLEAN
    BY DEF ClearFlag, UpdateVector, IrqControl, NotifyFlagEvent, Types, FlagTypes
  <2>. QED  BY <2>1, <2>2 DEF Types, FlagTypes
<1>3. RegTypes' /\ regs'.sz = regs.sz
  <2>1. CASE UpdateVector
    <3>. DEFINE iv == IF Flagged = {} THEN 0 ELSE 2^(Min(Flagged) + 1)
    <3>1. iv \in Vectors
      BY <1>0 DEF Vectors
    <3>2. regs' = [regs EXCEPT !.iv = iv]
      BY <2>1 DEF UpdateVector
    <3>. HIDE DEF iv
    <3>. QED  BY <3>1, <3>2 DEF Types, RegTypes
  <2>2. CASE ClearFlag \/ IrqControl
    BY <2>2 DEF ClearFlag, IrqControl, Types, RegTypes
  <2>. QED  BY <2>1, <2>2
<1>4. ProcTypes'
  BY DEF ClearFlag, UpdateVector, IrqControl, Types, ProcTypes
<1>5. ch' \in [Channels -> ChannelType] /\ \A c \in Channels : Sound(ch'[c], regs.sz[c])
  <2>1. CASE ClearFlag
    <3>. DEFINE m == Min(Flagged)
                k == [ch[m] EXCEPT !.flag = FALSE]
    <3>1. m \in Channels /\ ch' = [ch EXCEPT ![m] = k]
      BY <1>0, <2>1 DEF ClearFlag
    <3>. HIDE DEF m
    <3>2. k \in ChannelType /\ \A n \in Nat : Sound(ch[m], n) => Sound(k, n)
      BY <3>1 DEF Types, ChannelType, Sound
    <3>. HIDE DEF k
    <3>. QED  BY <3>1, <3>2 DEF Types, RegTypes
  <2>2. CASE UpdateVector \/ IrqControl
    BY <2>2 DEF UpdateVector, IrqControl, Types
  <2>. QED  BY <2>1, <2>2
<1>. QED  BY <1>1, <1>2, <1>3, <1>4, <1>5 DEF Types

\* The reset leaves no channel enabled and no size that the software wrote.
LEMMA TypesReset == ASSUME Types, Reset PROVE Types'
<1>1. KernelTypes' /\ ProcTypes'
  BY DEF Reset, Evaluate, Types, KernelTypes, ProcTypes
<1>2. FlagTypes'
  BY DEF Reset, Types, FlagTypes, irqVars
<1>3. RegTypes' /\ \A c \in Channels : regs'.sz[c] = Undef
  BY SizesPositive DEF Reset, RegsReset, RegTypes, Vectors
<1>4. ASSUME NEW c \in Channels
      PROVE  ch'[c] \in ChannelType /\ Sound(ch'[c], regs'.sz[c])
  <2>1. ch'[c] = ChannelReset(ch[c]) /\ ch[c] \in ChannelType
    BY DEF Reset, Types
  <2>2. ASSUME NEW k \in ChannelType
        PROVE  ChannelReset(k) \in ChannelType /\ Sound(ChannelReset(k), Undef)
    <3>. DEFINE r == ChannelReset(k)
    <3>1. r \in ChannelType
      <4>1. "Single" \in Modes /\ 0 \in -1..1
        BY DEF Modes
      <4>. QED  BY <4>1 DEF ChannelReset, ChannelType
    <3>2. r.size = 0 /\ ~r.enable
      BY DEF ChannelReset, ChannelType
    <3>. QED  BY <3>1, <3>2, SizesPositive DEF Sound
  <2>. QED  BY <1>3, <2>1, <2>2
<1>5. ch' \in [Channels -> ChannelType]
  <2>1. ch' = [c \in Channels |-> ch'[c]]
    BY DEF Reset
  <2>. QED  BY <1>4, <2>1
<1>. QED  BY <1>1, <1>2, <1>3, <1>4, <1>5 DEF Types

\* The address and size registers after an access in their range: an enabled channel
\* keeps the size it has (the software programs a disabled one).
Programmed(r) ==
    /\ r \in [sa : [Channels -> Nat], da : [Channels -> Nat], sz : [Channels -> Nat],
              en : [Channels -> BOOLEAN], iv : Vectors]
    /\ \A c \in Channels : ch[c].enable => r.sz[c] = regs.sz[c]

\* An access to them rewrites the members of every channel (Dma.cpp:533).
LEMMA AccessAddressesTypes ==
    ASSUME Types, NEW r, Programmed(r), AccessAddresses(r)
    PROVE  Types'
<1>1. KernelTypes' /\ ProcTypes' /\ RegTypes' /\ regs' = r
  BY DEF AccessAddresses, Access, Evaluate, Types, KernelTypes, ProcTypes, RegTypes,
         Programmed
<1>2. FlagTypes'
  BY DEF AccessAddresses, Access, Types, FlagTypes
<1>3. ASSUME NEW c \in Channels
      PROVE  ch'[c] \in ChannelType /\ Sound(ch'[c], r.sz[c])
  <2>. DEFINE k == ch[c]
              tSize == IF k.enable THEN k.tSize ELSE r.sz[c]
  <2>1. k \in ChannelType /\ Sound(k, regs.sz[c]) /\ regs.sz[c] \in Nat
    BY DEF Types, RegTypes
  <2>2. r.sa[c] \in Nat /\ r.da[c] \in Nat /\ r.sz[c] \in Nat
    BY DEF Programmed
  <2>3. k.enable => r.sz[c] = regs.sz[c]
    BY DEF Programmed
  <2>4. tSize \in Nat
    BY <2>1, <2>2 DEF ChannelType
  <2>5. ch'[c] = [k EXCEPT !.sa = r.sa[c], !.da = r.da[c], !.size = r.sz[c],
                           !.tSize = tSize]
    BY DEF AccessAddresses, UpdateChannelAddresses
  <2>6. (k.enable => tSize >= 1) /\ (~k.enable => tSize = r.sz[c])
        /\ (k.enable => r.sz[c] >= 1)
    BY <2>1, <2>3 DEF Sound
  <2>. HIDE DEF k, tSize
  <2>7. ch'[c] \in ChannelType
    BY <2>1, <2>2, <2>4, <2>5 DEF ChannelType
  <2>8. ch'[c].size = r.sz[c] /\ ch'[c].tSize = tSize /\ ch'[c].enable = k.enable
    BY <2>1, <2>5 DEF ChannelType
  <2>. QED  BY <2>2, <2>6, <2>7, <2>8, SizesPositive DEF Sound
<1>4. ch' \in [Channels -> ChannelType]
  <2>1. ch' = [c \in Channels |-> ch'[c]]
    BY DEF AccessAddresses, UpdateChannelAddresses
  <2>. QED  BY <1>3, <2>1
<1>. QED  BY <1>1, <1>2, <1>3, <1>4 DEF Types

\* DMAxCTL: a channel is enabled only with a size the software wrote.
LEMMA WriteCTLTypes ==
    ASSUME Types, NEW c \in Channels, NEW cfg \in Configs, NEW enable \in BOOLEAN,
           NEW request \in BOOLEAN,
           ch[c].enable \/ regs.sz[c] = cfg.sz,
           WriteCTL(c, cfg, enable, request)
    PROVE  Types'
<1>1. KernelTypes' /\ ProcTypes'
  BY DEF WriteCTL, Access, Evaluate, Types, KernelTypes, ProcTypes, Events
<1>2. FlagTypes'
  BY DEF WriteCTL, Access, Types, FlagTypes
<1>3. RegTypes' /\ regs'.sz = regs.sz
  BY DEF WriteCTL, Types, RegTypes
<1>. DEFINE k == ch[c]
            k2 == [k EXCEPT !.mode = cfg.mode, !.ie = cfg.ie, !.sInc = cfg.sInc,
                            !.dInc = cfg.dInc, !.enable = enable]
<1>4. ch' = [ch EXCEPT ![c] = k2]
  BY DEF WriteCTL, Types
<1>5. k \in ChannelType /\ Sound(k, regs.sz[c]) /\ cfg \in ConfigType
  BY DmaAssumption DEF Types
<1>6. cfg.sz \in Sizes
  BY DEF Sizes
<1>7. k.size >= 1 /\ regs.sz[c] >= 1
  BY <1>5, <1>6, SizesPositive DEF Sound
<1>. HIDE DEF k
<1>8. k2 \in ChannelType
  <2>1. /\ cfg.mode \in Modes /\ cfg.ie \in BOOLEAN /\ cfg.sInc \in -1..1
        /\ cfg.dInc \in -1..1
    BY <1>5 DEF ConfigType
  <2>. QED  BY <1>5, <2>1 DEF ChannelType
<1>9. k2.size = k.size /\ k2.tSize = k.tSize
  BY <1>5 DEF ChannelType
<1>. HIDE DEF k2
<1>10. Sound(k2, regs.sz[c])
  BY <1>5, <1>7, <1>9 DEF Sound
<1>. QED  BY <1>1, <1>2, <1>3, <1>4, <1>8, <1>10 DEF Types

\* The software keeps the types.
LEMMA TypesSoftware == ASSUME Types, Software PROVE Types'
<1>1. CASE CpuWaits
  <2>1. KernelTypes' /\ ProcTypes' /\ RegTypes' /\ ch' = ch /\ regs' = regs
    BY <1>1 DEF CpuWaits, Evaluate, Types, KernelTypes, ProcTypes, RegTypes
  <2>2. FlagTypes'
    BY <1>1 DEF CpuWaits, Types, FlagTypes, irqVars
  <2>. QED  BY <2>1, <2>2 DEF Types
<1>2. CASE ReadAddresses
  BY <1>2, AccessAddressesTypes DEF ReadAddresses, Programmed, Types, RegTypes
<1>3. CASE WriteAddresses
  <2>1. PICK c \in Channels :
          /\ ~ch[c].enable
          /\ \/ \E a \in Addresses : AccessAddresses([regs EXCEPT !.sa[c] = a])
             \/ \E a \in Addresses : AccessAddresses([regs EXCEPT !.da[c] = a])
             \/ \E n \in Sizes : AccessAddresses([regs EXCEPT !.sz[c] = n])
    BY <1>3 DEF WriteAddresses
  <2>2. ASSUME NEW n \in Nat
        PROVE  /\ Programmed([regs EXCEPT !.sa[c] = n])
               /\ Programmed([regs EXCEPT !.da[c] = n])
               /\ Programmed([regs EXCEPT !.sz[c] = n])
    BY <2>1 DEF Programmed, Types, RegTypes
  <2>3. Addresses \subseteq Nat /\ Sizes \subseteq Nat
    BY DmaAssumption, SizesPositive
  <2>. QED  BY <2>1, <2>2, <2>3, AccessAddressesTypes
<1>4. CASE Configure
  BY <1>4, WriteCTLTypes DEF Configure
<1>5. CASE SelectTrigger
  <2>1. PICK select \in [Channels -> Triggers] : nxt' = [nxt EXCEPT !.select = select]
    BY <1>5 DEF SelectTrigger
  <2>2. nxt' \in Signals
    BY <2>1 DEF Types, KernelTypes, Signals
  <2>3. KernelTypes' /\ ProcTypes' /\ RegTypes' /\ ch' = ch /\ regs' = regs
    BY <1>5, <2>2 DEF SelectTrigger, Access, Evaluate, Types, KernelTypes, ProcTypes, RegTypes
  <2>4. FlagTypes'
    BY <1>5 DEF SelectTrigger, Access, Types, FlagTypes
  <2>. QED  BY <2>3, <2>4 DEF Types
<1>6. CASE AccessIV
  <2>1. RegTypes' /\ regs'.sz = regs.sz
    BY <1>6 DEF AccessIV, Types, RegTypes, Vectors
  <2>2. KernelTypes' /\ ProcTypes' /\ ch' = ch
    BY <1>6 DEF AccessIV, Access, Evaluate, Types, KernelTypes, ProcTypes
  <2>3. FlagTypes'
    BY <1>6 DEF AccessIV, Access, Types, FlagTypes
  <2>. QED  BY <2>1, <2>2, <2>3 DEF Types
<1>. QED  BY <1>1, <1>2, <1>3, <1>4, <1>5, <1>6 DEF Software

\* A step that changes nothing.
LEMMA TypesStutter == ASSUME Types, UNCHANGED vars PROVE Types'
BY DEF vars, kernelVars, irqVars, Types, KernelTypes, RegTypes, ProcTypes, FlagTypes

\* The types are inductive.
LEMMA TypesStep == ASSUME Types, [Next]_vars PROVE Types'
BY TypesDelta, TypesTime, TypesChannel, TypesProcess, TypesIrq, TypesReset, TypesSoftware,
   TypesStutter DEF Next, ControllerStep

LEMMA TypesInvariant == Spec => []Types
<1>1. Types /\ [Next]_vars => Types'
  BY TypesStep
<1>. QED  BY TypesInitially, <1>1, PTL DEF Spec

\* In every behaviour the members of the channels keep their types; above all the count
\* of a channel that is reset, disabled or reprogrammed in the middle of a block never
\* goes below zero (DmaChannel::process, reset, updateChannelAddresses).
THEOREM DmaTypeCorrect == Spec => []TypeOK
<1>1. Types => TypeOK
  BY DEF Types, KernelTypes, Signals, ProcTypes, FlagTypes, TypeOK
<1>. QED  BY TypesInvariant, <1>1, PTL

-----------------------------------------------------------------------------
(* No completion is lost *)

\* The news of a flagged channel is on its way to the line, or has reached it.
Reporting ==
    \/ <<"updateIrqFlag", 0>> \in delta
    \/ <<"interruptUpdate", 0>> \in run
    \/ flagTimed
    \/ setIrq /\ (<<"updateIrq", 0>> \in delta \/ <<"irqControl", 0>> \in run)
    \/ nxt.irq

\* Completions are flagged with their interrupt enabled; irqControl() sees the line as
\* it will be; and while every flagged channel is to be reported, one of them is.
CompletionInv ==
    /\ \A c \in due : ch[c].flag /\ ch[c].ie
    /\ <<"irqControl", 0>> \in run => nxt.irq = sig.irq
    /\ sig.pwrOn /\ <<"reset", 0>> \notin run /\ due # {} /\ Flagged \subseteq due
           => Reporting
\* A completion stays reported in a step that runs none of the interrupt processes and
\* lowers no flag.
LEMMA CompletionFrame ==
    ASSUME Types, CompletionInv,
           sig' = sig, nxt'.irq = nxt.irq, setIrq' = setIrq, delta \subseteq delta',
           flagTimed => flagTimed' \/ <<"updateIrqFlag", 0>> \in delta',
           \A p \in {<<"interruptUpdate", 0>>, <<"irqControl", 0>>, <<"reset", 0>>} :
               p \in run' <=> p \in run,
           due' \subseteq due,
           \A c \in Channels : ch[c].flag => ch'[c].flag,
           \A c \in due' : ch'[c].ie = ch[c].ie
    PROVE  CompletionInv'
<1>1. due \subseteq Channels
  BY DEF Types, FlagTypes
<1>2. \A c \in due' : ch'[c].flag /\ ch'[c].ie
  BY <1>1 DEF CompletionInv
<1>3. <<"irqControl", 0>> \in run' => nxt'.irq = sig'.irq
  BY DEF CompletionInv
<1>4. Flagged' \subseteq due' => Flagged \subseteq due
  BY DEF Flagged
<1>5. Reporting => Reporting'
  BY DEF Reporting
<1>. QED  BY <1>2, <1>3, <1>4, <1>5 DEF CompletionInv

\* After power-up nothing is flagged that was reported.
LEMMA CompletionInitially == Init => CompletionInv
BY DEF Init, CompletionInv

\* What was notified runs; a change of the supply runs the reset.
LEMMA CompletionDelta == ASSUME Types, CompletionInv, DeltaCycle PROVE CompletionInv'
<1>1. /\ sig' = nxt /\ nxt' = nxt /\ run' = Triggered /\ run = {} /\ ch' = ch /\ due' = due
      /\ setIrq' = setIrq /\ flagTimed' = flagTimed
  BY DEF DeltaCycle, irqVars
<1>2. /\ <<"updateIrqFlag", 0>> \in delta => <<"interruptUpdate", 0>> \in Triggered
      /\ <<"updateIrq", 0>> \in delta => <<"irqControl", 0>> \in Triggered
      /\ nxt.pwrOn # sig.pwrOn => <<"reset", 0>> \in Triggered
  BY DEF Triggered, Changed, Processes
<1>3. CASE nxt.pwrOn = sig.pwrOn
  <2>1. Reporting => Reporting'
    BY <1>1, <1>2 DEF Reporting
  <2>2. Flagged' = Flagged
    BY <1>1 DEF Flagged
  <2>. QED  BY <1>1, <1>3, <2>1, <2>2 DEF CompletionInv
<1>4. CASE nxt.pwrOn # sig.pwrOn
  BY <1>1, <1>2, <1>4 DEF CompletionInv
<1>. QED  BY <1>3, <1>4

\* Time passes once everything has settled; a timed notification becomes a run of
\* interruptUpdate().
LEMMA CompletionTime == ASSUME Types, CompletionInv, TimePasses PROVE CompletionInv'
<1>1. PICK in \in [Triggers -> BOOLEAN], active \in BOOLEAN, pwrOn \in BOOLEAN,
           cpu \in SUBSET {<<"cpu", 0>>} : Cycle(in, active, pwrOn, cpu)
  BY DEF TimePasses
<1>2. run = {} /\ delta = {} /\ nxt = sig /\ sig' = sig /\ due' = due
  BY <1>1 DEF Cycle, Settled
<1>3. nxt'.irq = nxt.irq
  BY <1>1 DEF Cycle, Types, KernelTypes, Signals
<1>4. flagTimed => <<"interruptUpdate", 0>> \in run'
  BY <1>1 DEF Cycle, Resumed
<1>5. <<"irqControl", 0>> \notin run' /\ <<"reset", 0>> \notin run'
  BY <1>1 DEF Cycle, Resumed
<1>6. \A c \in Channels : ch'[c].flag = ch[c].flag /\ ch'[c].ie = ch[c].ie
  <2>1. ASSUME NEW c \in Channels PROVE ch'[c].flag = ch[c].flag /\ ch'[c].ie = ch[c].ie
    <3>1. ch[c] \in ChannelType
      BY DEF Types
    <3>2. ch'[c] = [ch[c] EXCEPT !.pause = IF @ = 0 THEN 0 ELSE @ - 1]
      BY <1>1 DEF Cycle
    <3>. QED  BY <3>1, <3>2 DEF ChannelType
  <2>. QED  BY <2>1
<1>7. due \subseteq Channels /\ Flagged' = Flagged
  BY <1>6 DEF Types, FlagTypes, Flagged
<1>8. Reporting => Reporting'
  BY <1>2, <1>3, <1>4 DEF Reporting
<1>. QED  BY <1>2, <1>3, <1>5, <1>6, <1>7, <1>8 DEF CompletionInv

\* A channel's thread raises flags and leaves interruptEnable alone.
LEMMA CompletionChannel ==
    ASSUME Types, CompletionInv, NEW c \in Channels, ChannelStep(c) PROVE CompletionInv'
<1>1. \A p \in {<<"interruptUpdate", 0>>, <<"irqControl", 0>>, <<"reset", 0>>} :
          p \in run' <=> p \in run
  BY ChannelEffect DEF ChannelStep, Mux, Evaluate
<1>2. CASE Mux(c)
  <2>1. nxt'.irq = nxt.irq
    BY <1>2 DEF Mux, Types, KernelTypes, Signals
  <2>. QED  BY <1>1, <1>2, <2>1, CompletionFrame DEF Mux, irqVars
<1>3. CASE ChannelTrigger(c) \/ ChannelAccept(c) \/ ChannelResume(c)
  <2>1. PICK k : Follows(ch[c], k) /\ ChannelBecomes(c, k)
    BY <1>3, ChannelEffect
  <2>2. nxt'.irq = nxt.irq
    BY <2>1 DEF ChannelBecomes, Types, KernelTypes, Signals
  <2>3. /\ sig' = sig /\ delta' = delta /\ due' = due /\ setIrq' = setIrq
        /\ flagTimed' = flagTimed
    BY <2>1 DEF ChannelBecomes, irqVars
  <2>4. \A d \in Channels : (ch[d].flag => ch'[d].flag) /\ ch'[d].ie = ch[d].ie
    BY <2>1 DEF ChannelBecomes, Follows, Types
  <2>5. due \subseteq Channels
    BY DEF Types, FlagTypes
  <2>. QED  BY <1>1, <2>2, <2>3, <2>4, <2>5, CompletionFrame
<1>. QED  BY <1>2, <1>3 DEF ChannelStep

\* The thread that leaves a channel reports its completion (Dma.cpp:225).
LEMMA CompletionProcess ==
    ASSUME Types, CompletionInv,
           ProcessScan \/ ProcessSynced \/ ProcessWrite \/ ProcessWritten
    PROVE  CompletionInv'
<1>. DEFINE c == proc.channel
<1>1. /\ sig' = sig /\ ch' = ch /\ setIrq' = setIrq
      /\ \A p \in {<<"interruptUpdate", 0>>, <<"irqControl", 0>>, <<"reset", 0>>} :
             p \in run' <=> p \in run
  BY DEF ProcessScan, ProcessSynced, ProcessWrite, ProcessWritten, Evaluate, irqVars
<1>2. nxt'.irq = nxt.irq
  BY DEF ProcessScan, ProcessSynced, ProcessWrite, ProcessWritten, ReadNext, Leave,
         Types, KernelTypes, Signals
<1>3. c \in Channels
  BY DEF Types, ProcTypes
<1>4. \/ delta' = delta /\ flagTimed' = flagTimed /\ due' = due
      \/ /\ NotifyFlagEvent /\ due' = due \cup {c}
         /\ ch[c].flag /\ ch[c].ie
  BY DEF ProcessScan, ProcessSynced, ProcessWrite, ProcessWritten, ReadNext, Leave, irqVars
<1>5. CASE delta' = delta /\ flagTimed' = flagTimed /\ due' = due
  BY <1>1, <1>2, <1>5, CompletionFrame
<1>6. CASE NotifyFlagEvent /\ due' = due \cup {c} /\ ch[c].flag /\ ch[c].ie
  BY <1>1, <1>2, <1>6 DEF CompletionInv, Reporting, NotifyFlagEvent
<1>. QED  BY <1>4, <1>5, <1>6

\* interruptUpdate(): a cleared flag is no longer due, and the function comes again;
\* otherwise the vector is that of a channel whose completion is due.
LEMMA CompletionFlags ==
    ASSUME Types, CompletionInv, ClearFlag \/ UpdateVector PROVE CompletionInv'
<1>0. Flagged # {} => Min(Flagged) \in Flagged /\ Min(Flagged) \in Channels
  BY LowestChannel DEF Flagged
<1>1. CASE ClearFlag
  <2>. DEFINE m == Min(Flagged)
  <2>1. /\ sig' = sig /\ nxt' = nxt /\ run' = run \ {<<"interruptUpdate", 0>>}
        /\ <<"updateIrqFlag", 0>> \in delta' /\ due' = due \ {m}
        /\ ch' = [ch EXCEPT ![m].flag = FALSE] /\ m \in Channels
    BY <1>0, <1>1 DEF ClearFlag, Evaluate, NotifyFlagEvent
  <2>. HIDE DEF m
  <2>2. \A d \in due' : ch'[d] = ch[d]
    BY <2>1 DEF Types, FlagTypes
  <2>. QED  BY <2>1, <2>2 DEF CompletionInv, Reporting
<1>2. CASE UpdateVector
  <2>1. /\ sig' = sig /\ nxt' = nxt /\ run' = run \ {<<"interruptUpdate", 0>>}
        /\ due' = due /\ ch' = ch
    BY <1>2 DEF UpdateVector, Evaluate
  <2>2. ASSUME due # {}, Flagged \subseteq due PROVE Reporting'
    <3>1. Flagged # {}
      BY <2>2 DEF CompletionInv, Flagged, Types, FlagTypes
    <3>2. ch[Min(Flagged)].ie
      BY <1>0, <2>2, <3>1 DEF CompletionInv
    <3>. QED  BY <1>2, <3>1, <3>2 DEF UpdateVector, Reporting
  <2>3. Flagged' = Flagged
    BY <2>1 DEF Flagged
  <2>. QED  BY <2>1, <2>2, <2>3 DEF CompletionInv
<1>. QED  BY <1>1, <1>2

\* irqControl(): m_setIrq raises the line, or the line is up already; the start of the
\* handler lowers it and has the flags read again.
LEMMA CompletionIrqControl == ASSUME Types, CompletionInv, IrqControl PROVE CompletionInv'
<1>1. /\ sig' = sig /\ ch' = ch /\ due' = due /\ run' = run \ {<<"irqControl", 0>>}
      /\ <<"irqControl", 0>> \in run
  BY DEF IrqControl, Evaluate
<1>2. nxt.irq = sig.irq
  BY <1>1 DEF CompletionInv
<1>3. /\ delta \subseteq delta'
      /\ flagTimed => flagTimed' \/ <<"updateIrqFlag", 0>> \in delta'
      /\ Acknowledges => <<"updateIrqFlag", 0>> \in delta'
  BY DEF IrqControl, NotifyFlagEvent
<1>4. ASSUME sig.pwrOn, setIrq \/ nxt.irq PROVE nxt'.irq \/ Acknowledges
  <2>1. nxt'.irq = CASE ~sig.pwrOn -> FALSE
                     [] sig.pwrOn /\ setIrq /\ ~sig.irq -> TRUE
                     [] Acknowledges -> FALSE
                     [] OTHER -> nxt.irq
    BY DEF IrqControl, Types, KernelTypes, Signals
  <2>. QED  BY <1>2, <1>4, <2>1
<1>5. sig.pwrOn /\ Reporting => Reporting'
  BY <1>1, <1>3, <1>4 DEF Reporting
<1>6. Flagged' = Flagged
  BY <1>1 DEF Flagged
<1>. QED  BY <1>1, <1>5, <1>6 DEF CompletionInv

\* The reset clears all flags: nothing is due.
LEMMA CompletionReset == ASSUME Types, CompletionInv, Reset PROVE CompletionInv'
BY DEF Reset, Evaluate, CompletionInv

\* The software lowers no flag by itself; a job whose interrupt it disables is not due.
LEMMA CompletionSoftware == ASSUME Types, CompletionInv, Software PROVE CompletionInv'
<1>. DEFINE Kept == /\ sig' = sig /\ setIrq' = setIrq /\ nxt'.irq = nxt.irq
                    /\ delta \subseteq delta' /\ due' \subseteq due
                    /\ flagTimed => flagTimed' \/ <<"updateIrqFlag", 0>> \in delta'
                    /\ \A p \in {<<"interruptUpdate", 0>>, <<"irqControl", 0>>, <<"reset", 0>>} :
                           p \in run' <=> p \in run
<1>0. Access => /\ sig' = sig /\ setIrq' = setIrq
                /\ \A p \in {<<"interruptUpdate", 0>>, <<"irqControl", 0>>, <<"reset", 0>>} :
                       p \in run' <=> p \in run
  BY DEF Access, Evaluate
<1>1. CpuWaits => Kept
  BY DEF CpuWaits, Evaluate, irqVars
<1>2. ReadAddresses \/ WriteAddresses => Kept
  <2>1. ASSUME NEW r, AccessAddresses(r) PROVE Kept
    BY <1>0, <2>1 DEF AccessAddresses
  <2>. HIDE DEF Kept
  <2>. QED  BY <2>1 DEF ReadAddresses, WriteAddresses
<1>3. Configure => Kept
  <2>1. ASSUME NEW c \in Channels, NEW cfg \in Configs, NEW enable \in BOOLEAN,
               NEW request \in BOOLEAN, WriteCTL(c, cfg, enable, request)
        PROVE  Kept
    BY <1>0, <2>1 DEF WriteCTL
  <2>. HIDE DEF Kept
  <2>. QED  BY <2>1 DEF Configure
<1>4. SelectTrigger => Kept
  <2>1. SelectTrigger => nxt'.irq = nxt.irq
    BY DEF SelectTrigger, Types, KernelTypes, Signals
  <2>. QED  BY <1>0, <2>1 DEF SelectTrigger
<1>5. AccessIV => Kept
  BY <1>0 DEF AccessIV
<1>6. Kept
  <2>. HIDE DEF Kept
  <2>. QED  BY <1>1, <1>2, <1>3, <1>4, <1>5 DEF Software
<1>7. /\ \A d \in Channels : ch[d].flag => ch'[d].flag
      /\ \A d \in due' : ch'[d].ie = ch[d].ie
  <2>0. \A d \in Channels : ch[d] \in ChannelType
    BY DEF Types
  <2>00. due \subseteq Channels
    BY DEF Types, FlagTypes
  <2>1. ASSUME NEW r, AccessAddresses(r), NEW d \in Channels
        PROVE  ch'[d].flag = ch[d].flag /\ ch'[d].ie = ch[d].ie
    BY <2>0, <2>1 DEF AccessAddresses, UpdateChannelAddresses, ChannelType
  <2>2. CASE ReadAddresses \/ WriteAddresses
    BY <1>6, <2>00, <2>1, <2>2 DEF ReadAddresses, WriteAddresses
  <2>3. CASE CpuWaits \/ SelectTrigger \/ AccessIV
    BY <2>3 DEF CpuWaits, SelectTrigger, AccessIV
  <2>4. ASSUME NEW c \in Channels, NEW cfg \in Configs, NEW enable \in BOOLEAN,
               NEW request \in BOOLEAN, WriteCTL(c, cfg, enable, request)
        PROVE  /\ \A d \in Channels : ch[d].flag => ch'[d].flag
               /\ \A d \in due' : ch'[d].ie = ch[d].ie
    <3>1. ch' = [ch EXCEPT ![c] = [ch[c] EXCEPT !.mode = cfg.mode, !.ie = cfg.ie,
                                     !.sInc = cfg.sInc, !.dInc = cfg.dInc,
                                     !.enable = enable]]
      BY <2>4 DEF WriteCTL, Types
    <3>2. cfg.ie \in BOOLEAN /\ (c \in due' => cfg.ie) /\ (c \in due => ch[c].ie)
      BY <2>4, DmaAssumption DEF WriteCTL, ConfigType, CompletionInv
    <3>3. ch[c] \in ChannelType
      BY <2>0
    <3>4. ch'[c].flag = ch[c].flag /\ ch'[c].ie = cfg.ie
      BY <3>1, <3>3 DEF ChannelType, Types
    <3>5. c \in due' => ch'[c].ie = ch[c].ie
      BY <1>6, <3>2, <3>3, <3>4 DEF ChannelType
    <3>6. \A d \in Channels \ {c} : ch'[d] = ch[d]
      BY <3>1 DEF Types
    <3>. QED  BY <1>6, <2>00, <3>4, <3>5, <3>6
  <2>5. CASE Configure
    BY <2>4, <2>5 DEF Configure
  <2>. QED  BY <2>2, <2>3, <2>5 DEF Software
<1>. QED  BY <1>6, <1>7, CompletionFrame

\* In every behaviour, once an instant is over, the line is up while a job that finished
\* with its interrupt enabled is flagged, unless a channel with its interrupt disabled
\* hides it (Dma::process, interruptUpdate, irqControl).
THEOREM NoCompletionLost == Spec => []NoLostCompletion
<1>1. Types /\ CompletionInv /\ [Next]_vars => CompletionInv'
  <2>1. Types /\ CompletionInv /\ UNCHANGED vars => CompletionInv'
    BY CompletionFrame DEF vars, kernelVars, irqVars
  <2>. QED  BY <2>1, CompletionDelta, CompletionTime, CompletionChannel, CompletionProcess,
                CompletionFlags, CompletionIrqControl, CompletionReset, CompletionSoftware
            DEF Next, ControllerStep
<1>2. CompletionInv => NoLostCompletion
  BY DEF CompletionInv, Reporting, NoLostCompletion, Settled
<1>. QED  BY TypesInvariant, CompletionInitially, <1>1, <1>2, PTL DEF Spec
-----------------------------------------------------------------------------
(* The handshake of the two threads *)

\* The first evaluation of an instant in which the wait of Dma::process is over, or
\* the one in which it has just left its last channel.
FirstPhase == IF proc.at = "idle" THEN sig.busStall ELSE proc.time = 0

\* Dma::process holds the bus and accept while it works on a channel, and looks at a
\* pending channel before it waits (Dma.cpp:178).
ThreadInv ==
    /\ nxt.busStall <=> proc.at # "idle"
    /\ proc.at \in {"read", "write"} => sig.busStall
    /\ proc.at = "sync" => sig.pending[proc.channel] /\ (proc.time = 0 => sig.busStall)
    /\ proc.at = "idle" =>
          proc.time = 0 /\ (<<"dma", 0>> \notin run => \A c \in Channels : ~sig.pending[c])
    /\ proc.at # "idle" => (<<"dma", 0>> \in run <=> proc.time = 0)
    /\ \A c \in Channels : nxt.accept[c] <=> On(c, {"write"})
    /\ proc.time = 0 => \A c \in Channels : On(c, {"read"}) => ~sig.accept[c]
    /\ proc.time = 0 => \A c \in Channels : On(c, {"write"}) => sig.accept[c]

\* A channel drives pending until its block ends, and sees accept only while its
\* element is written.
ChannelInv(c) ==
    /\ nxt.pending[c] <=> ch[c].at # "trigger"
    /\ ch[c].at # "pause" => ch[c].pause = 0
    /\ sig.pending[c] /\ ~On(c, {"read", "write"}) => ch[c].at = "accept"
    /\ <<"channel", c>> \in run /\ ch[c].at = "accept" =>
           On(c, {"write"}) /\ sig.accept[c] /\ proc.time > 0 /\ sig.pending[c]

\* The pause of a burst is over before accept rises again (Dma.cpp:449).
PauseInv(c) ==
    ch[c].at = "pause" =>
        /\ On(c, {"read", "write"}) /\ sig.pending[c] /\ ch[c].case \in Bursts
        /\ ch[c].enable => ch[c].size >= 2
        /\ ch[c].pause = 0 <=> <<"channel", c>> \in run
        /\ ch[c].pause <= proc.time + (IF proc.at = "write" THEN 1 ELSE 0)
        /\ proc.at = "write" /\ ~sig.accept[c] => ch[c].pause = 0

\* An element that no channel waits for belongs to one that was reset: it is disabled
\* until the bus is free.
StaleInv(c) ==
    ch[c].at = "trigger" =>
        /\ On(c, {"read"}) => ~ch[c].enable
        /\ On(c, {"write"}) /\ ~sig.accept[c] => ~ch[c].enable
        /\ On(c, {"write"}) /\ proc.time = 0 /\ sig.pending[c] => ~ch[c].enable

\* In the first evaluation of an instant no channel is triggered.
PhaseInv(c) ==
    FirstPhase =>
        /\ <<"channel", c>> \in run => ch[c].at = "pause"
        /\ ch[c].at # "trigger" => sig.pending[c]
        /\ nxt.trigger[c] = sig.trigger[c]
        /\ <<"mux", c>> \notin run /\ <<"softwareTrigger", c>> \notin delta

\* The CPU gets the bus only when no channel works.
CpuInv(c) ==
    <<"cpu", 0>> \in run /\ ~sig.busStall =>
        ch[c].at = "trigger" /\ <<"channel", c>> \notin run

\* The handshake.
HandshakeInv ==
    /\ ThreadInv
    /\ \A c \in Channels :
          ChannelInv(c) /\ PauseInv(c) /\ StaleInv(c) /\ PhaseInv(c) /\ CpuInv(c)

\* After power-up everything is at rest.
LEMMA HandshakeInitially == Init => HandshakeInv
<1>. SUFFICES ASSUME Init PROVE HandshakeInv
  OBVIOUS
<1>1. /\ proc.at = "idle" /\ proc.time = 0 /\ sig = SignalInit /\ nxt = SignalInit
      /\ run = {<<"interruptUpdate", 0>>, <<"reset", 0>>} /\ delta = {}
  BY DEF Init
<1>2. ASSUME NEW c \in Channels
      PROVE  /\ ~sig.pending[c] /\ ~nxt.pending[c] /\ ~sig.accept[c] /\ ~nxt.accept[c]
             /\ ~sig.busStall /\ ~nxt.busStall
             /\ ch[c].at = "trigger" /\ ch[c].pause = 0
  <2>1. PICK flagged \in SUBSET Channels :
            ch = [d \in Channels |-> [ChannelInit EXCEPT !.flag = d \in flagged]]
    BY DEF Init
  <2>2. ch[c] = [ChannelInit EXCEPT !.flag = c \in flagged]
    BY <2>1
  <2>3. [ChannelInit EXCEPT !.flag = c \in flagged].at = "trigger"
        /\ [ChannelInit EXCEPT !.flag = c \in flagged].pause = 0
    BY DEF ChannelInit
  <2>. QED  BY <1>1, <2>2, <2>3 DEF SignalInit
<1>3. ThreadInv
  BY <1>1, <1>2, DmaAssumption DEF ThreadInv, On, SignalInit
<1>4. ASSUME NEW c \in Channels
      PROVE  ChannelInv(c) /\ PauseInv(c) /\ StaleInv(c) /\ PhaseInv(c) /\ CpuInv(c)
  BY <1>1, <1>2 DEF ChannelInv, PauseInv, StaleInv, PhaseInv, CpuInv, FirstPhase, On
<1>. QED  BY <1>3, <1>4 DEF HandshakeInv

\* A step that leaves both threads where they are.
LEMMA HandshakeFrame ==
    ASSUME Types, HandshakeInv,
           sig' = sig, proc' = proc,
           nxt'.busStall = nxt.busStall, nxt'.accept = nxt.accept,
           nxt'.pending = nxt.pending,
           <<"dma", 0>> \in run' <=> <<"dma", 0>> \in run,
           <<"cpu", 0>> \in run' => <<"cpu", 0>> \in run,
           \A c \in Channels :
               /\ <<"channel", c>> \in run' <=> <<"channel", c>> \in run
               /\ <<"mux", c>> \in run' => <<"mux", c>> \in run
               /\ FirstPhase =>
                     /\ nxt'.trigger[c] = nxt.trigger[c]
                     /\ <<"softwareTrigger", c>> \in delta' =>
                            <<"softwareTrigger", c>> \in delta
               /\ ch'[c].at = ch[c].at /\ ch'[c].pause = ch[c].pause
               /\ ch'[c].case = ch[c].case
               /\ \/ ch'[c].enable => ch[c].enable /\ ch'[c].size = ch[c].size
                  \/ ~sig.busStall /\ ch[c].at = "trigger"
    PROVE  HandshakeInv'
<1>1. ThreadInv'
  BY DEF HandshakeInv, ThreadInv, On
<1>2. ASSUME NEW c \in Channels
      PROVE  ChannelInv(c)' /\ PhaseInv(c)' /\ CpuInv(c)'
  BY <1>2 DEF HandshakeInv, ChannelInv, PhaseInv, CpuInv, On, FirstPhase
<1>3. ASSUME NEW c \in Channels PROVE PauseInv(c)'
  BY <1>3 DEF HandshakeInv, PauseInv, On
<1>4. ASSUME NEW c \in Channels PROVE StaleInv(c)'
  BY <1>4 DEF HandshakeInv, ThreadInv, StaleInv, On
<1>. QED  BY <1>1, <1>2, <1>3, <1>4 DEF HandshakeInv

\* An access of the CPU finds all channels waiting for a trigger, and is not in the
\* first evaluation of a wait that is over.
LEMMA AccessAtRest ==
    ASSUME Types, HandshakeInv, Access
    PROVE  /\ ~FirstPhase /\ ~sig.busStall /\ proc.at \notin {"read", "write"}
           /\ \A c \in Channels : ch[c].at = "trigger"
BY DEF Types, ProcTypes, HandshakeInv, ThreadInv, CpuInv, FirstPhase, Access, Evaluate

\* The software accesses the registers unless the CPU waits for the bus; only
\* DMACTL0..2 drive a signal.
LEMMA SoftwareAccesses ==
    ASSUME Software, ~CpuWaits PROVE Access /\ (SelectTrigger \/ nxt' = nxt)
<1>1. ASSUME NEW r, AccessAddresses(r) PROVE Access /\ nxt' = nxt
  BY <1>1 DEF AccessAddresses
<1>2. ASSUME NEW c \in Channels, NEW cfg \in Configs, NEW enable \in BOOLEAN,
             NEW request \in BOOLEAN, WriteCTL(c, cfg, enable, request)
      PROVE  Access /\ nxt' = nxt
  BY <1>2 DEF WriteCTL
<1>3. ReadAddresses \/ WriteAddresses => Access /\ nxt' = nxt
  BY <1>1 DEF ReadAddresses, WriteAddresses
<1>4. Configure => Access /\ nxt' = nxt
  BY <1>2 DEF Configure
<1>5. SelectTrigger => Access
  BY DEF SelectTrigger
<1>6. AccessIV => Access /\ nxt' = nxt
  BY DEF AccessIV
<1>. QED  BY <1>3, <1>4, <1>5, <1>6 DEF Software

\* The software leaves the threads where they are.
LEMMA HandshakeSoftware == ASSUME Types, HandshakeInv, Software PROVE HandshakeInv'
<1>. DEFINE Rest(c) ==
              /\ <<"channel", c>> \in run' <=> <<"channel", c>> \in run
              /\ <<"mux", c>> \in run' => <<"mux", c>> \in run
<1>0. CASE CpuWaits
  BY <1>0, HandshakeFrame DEF CpuWaits, Evaluate
<1>1. CASE Software /\ ~CpuWaits
  <2>1. Access /\ (SelectTrigger \/ nxt' = nxt)
    BY <1>1, SoftwareAccesses
  <2>2. /\ sig' = sig /\ proc' = proc
        /\ <<"dma", 0>> \in run' <=> <<"dma", 0>> \in run
        /\ <<"cpu", 0>> \in run' => <<"cpu", 0>> \in run
        /\ \A c \in Channels : Rest(c)
    BY <2>1 DEF Access, Evaluate
  <2>3. /\ ~FirstPhase /\ ~sig.busStall /\ \A c \in Channels : ch[c].at = "trigger"
    BY <2>1, AccessAtRest
  <2>4. /\ nxt'.busStall = nxt.busStall /\ nxt'.accept = nxt.accept
        /\ nxt'.pending = nxt.pending
    <3>1. CASE SelectTrigger
      BY <3>1 DEF SelectTrigger, Types, KernelTypes, Signals
    <3>. QED  BY <2>1, <3>1
  <2>5. ASSUME NEW c \in Channels
        PROVE  /\ ch'[c].at = ch[c].at /\ ch'[c].pause = ch[c].pause
               /\ ch'[c].case = ch[c].case
    <3>0. \A d \in Channels : ch[d] \in ChannelType
      BY DEF Types
    <3>1. ASSUME NEW r, AccessAddresses(r)
          PROVE  /\ ch'[c].at = ch[c].at /\ ch'[c].pause = ch[c].pause
                 /\ ch'[c].case = ch[c].case
      <4>. DEFINE tSize == IF ch[c].enable THEN ch[c].tSize ELSE r.sz[c]
      <4>1. ch'[c] = [ch[c] EXCEPT !.sa = r.sa[c], !.da = r.da[c], !.size = r.sz[c],
                                   !.tSize = tSize]
        BY <3>1 DEF AccessAddresses, UpdateChannelAddresses
      <4>. HIDE DEF tSize
      <4>. QED  BY <3>0, <4>1 DEF ChannelType
    <3>2. ASSUME NEW d \in Channels, NEW cfg \in Configs, NEW enable \in BOOLEAN,
                 NEW request \in BOOLEAN, WriteCTL(d, cfg, enable, request)
          PROVE  /\ ch'[c].at = ch[c].at /\ ch'[c].pause = ch[c].pause
                 /\ ch'[c].case = ch[c].case
      <4>1. ch' = [ch EXCEPT ![d] = [ch[d] EXCEPT !.mode = cfg.mode, !.ie = cfg.ie,
                                       !.sInc = cfg.sInc, !.dInc = cfg.dInc,
                                       !.enable = enable]]
        BY <3>2 DEF WriteCTL, Types
      <4>2. CASE c = d
        <5>1. ch'[c] = [ch[c] EXCEPT !.mode = cfg.mode, !.ie = cfg.ie, !.sInc = cfg.sInc,
                                     !.dInc = cfg.dInc, !.enable = enable]
          BY <4>1, <4>2 DEF Types
        <5>. QED  BY <3>0, <5>1 DEF ChannelType
      <4>3. CASE c # d
        BY <4>1, <4>3 DEF Types
      <4>. QED  BY <4>2, <4>3
    <3>3. CASE SelectTrigger \/ AccessIV
      BY <3>3 DEF SelectTrigger, AccessIV
    <3>. QED  BY <1>1, <3>1, <3>2, <3>3 DEF Software, ReadAddresses, WriteAddresses, Configure
  <2>. HIDE DEF Rest
  <2>6. \A c \in Channels : Rest(c)
    BY <2>2
  <2>. USE DEF Rest
  <2>. QED  BY <2>2, <2>3, <2>4, <2>5, <2>6, HandshakeFrame
<1>. QED  BY <1>0, <1>1

\* The interrupt functions and the reset leave the threads where they are.
LEMMA HandshakeOthers ==
    ASSUME Types, HandshakeInv, ClearFlag \/ UpdateVector \/ IrqControl \/ Reset
    PROVE  HandshakeInv'
<1>1. sig' = sig /\ proc' = proc
  BY DEF ClearFlag, UpdateVector, IrqControl, Reset
<1>2. /\ nxt'.busStall = nxt.busStall /\ nxt'.accept = nxt.accept
      /\ nxt'.pending = nxt.pending /\ nxt'.trigger = nxt.trigger
  <2>1. CASE IrqControl
    BY <2>1 DEF IrqControl, Types, KernelTypes, Signals
  <2>2. CASE ClearFlag \/ UpdateVector \/ Reset
    BY <2>2 DEF ClearFlag, UpdateVector, Reset
  <2>. QED  BY <2>1, <2>2
<1>3. ASSUME NEW c \in Channels
      PROVE  <<"softwareTrigger", c>> \in delta' => <<"softwareTrigger", c>> \in delta
  <2>1. delta' \subseteq delta \cup {<<"updateIrqFlag", 0>>, <<"updateIrq", 0>>}
    BY DEF ClearFlag, UpdateVector, IrqControl, Reset, NotifyFlagEvent
  <2>. QED  BY <2>1
<1>4. ASSUME NEW c \in Channels
      PROVE  /\ ch'[c].at = ch[c].at /\ ch'[c].pause = ch[c].pause
             /\ ch'[c].case = ch[c].case
             /\ ch'[c].enable => ch[c].enable /\ ch'[c].size = ch[c].size
  <2>0. \A d \in Channels : ch[d] \in ChannelType
    BY DEF Types
  <2>1. CASE ClearFlag
    <3>. DEFINE m == Min(Flagged)
    <3>1. m \in Channels
      BY <2>1, LowestChannel DEF ClearFlag, Flagged
    <3>2. ch' = [ch EXCEPT ![m] = [ch[m] EXCEPT !.flag = FALSE]]
      BY <2>1 DEF ClearFlag
    <3>. HIDE DEF m
    <3>. QED  BY <2>0, <3>1, <3>2 DEF Types, ChannelType
  <2>2. CASE Reset
    <3>1. ch'[c] = ChannelReset(ch[c])
      BY <2>2 DEF Reset
    <3>. QED  BY <2>0, <3>1 DEF ChannelReset, ChannelType
  <2>3. CASE UpdateVector \/ IrqControl
    BY <2>3 DEF UpdateVector, IrqControl
  <2>. QED  BY <2>1, <2>2, <2>3
<1>5. /\ <<"dma", 0>> \in run' <=> <<"dma", 0>> \in run
      /\ <<"cpu", 0>> \in run' <=> <<"cpu", 0>> \in run
      /\ \A c \in Channels : /\ <<"channel", c>> \in run' <=> <<"channel", c>> \in run
                             /\ <<"mux", c>> \in run' <=> <<"mux", c>> \in run
  BY DEF ClearFlag, UpdateVector, IrqControl, Reset, Evaluate
<1>. QED  BY <1>1, <1>2, <1>3, <1>4, <1>5, HandshakeFrame

\* Nor does a multiplexer move a thread; it does not run in a first evaluation.
LEMMA HandshakeMux ==
    ASSUME Types, HandshakeInv, NEW c \in Channels, Mux(c) PROVE HandshakeInv'
<1>1. ~FirstPhase
  BY DEF HandshakeInv, PhaseInv, Mux, Evaluate
<1>2. /\ nxt'.busStall = nxt.busStall /\ nxt'.accept = nxt.accept
      /\ nxt'.pending = nxt.pending
  BY DEF Mux, Types, KernelTypes, Signals
<1>3. /\ <<"dma", 0>> \in run' <=> <<"dma", 0>> \in run
      /\ <<"cpu", 0>> \in run' <=> <<"cpu", 0>> \in run
      /\ \A d \in Channels : /\ <<"channel", d>> \in run' <=> <<"channel", d>> \in run
                             /\ <<"mux", d>> \in run' => <<"mux", d>> \in run
  BY DEF Mux, Evaluate
<1>. QED  BY <1>1, <1>2, <1>3, HandshakeFrame DEF Mux

\* The update phase: a channel sees pending as it drove it, and accept as the thread did;
\* the thread is not over its wait.
LEMMA HandshakeDelta == ASSUME Types, HandshakeInv, DeltaCycle PROVE HandshakeInv'
<1>1. /\ sig' = nxt /\ nxt' = nxt /\ run' = Triggered /\ run = {} /\ delta' = {}
      /\ ch' = ch /\ proc' = proc
  BY DEF DeltaCycle
<1>2. /\ <<"dma", 0>> \in Triggered <=>
            proc.at = "idle" /\ \E c \in Channels : nxt.pending[c] /\ ~sig.pending[c]
      /\ <<"cpu", 0>> \in Triggered => sig.busStall /\ ~nxt.busStall
      /\ \A c \in Channels : <<"channel", c>> \in Triggered <=>
            \/ /\ ch[c].at = "trigger"
               /\ (nxt.trigger[c] /\ ~sig.trigger[c]) \/ <<"softwareTrigger", c>> \in delta
            \/ ch[c].at = "accept" /\ nxt.accept[c] /\ ~sig.accept[c]
  <2>1. ASSUME NEW c \in Channels
        PROVE  <<"channel", c>> \in Triggered <=> Woken(c)
    BY DEF Triggered, Processes
  <2>2. <<"dma", 0>> \in Triggered <=>
            proc.at = "idle" /\ \E c \in Channels : Posedge("pending", c)
    BY DEF Triggered, Processes
  <2>3. <<"cpu", 0>> \in Triggered => sig.busStall /\ ~nxt.busStall
    BY DEF Triggered, Processes
  <2>. QED  BY <2>1, <2>2, <2>3 DEF Woken, Posedge
<1>3. /\ proc.at \in {"idle", "sync", "read", "write"}
      /\ proc.time \in Nat /\ proc.channel \in Channels
  BY DEF Types, ProcTypes
<1>4. proc.at # "idle" => proc.time > 0
  BY <1>1, <1>3 DEF HandshakeInv, ThreadInv
<1>5. \A c \in Channels : ch[c].at = "pause" => ch[c].pause # 0
  BY <1>1 DEF HandshakeInv, PauseInv
<1>6. \A c \in Channels : ch[c].at \in {"trigger", "accept", "pause"}
  BY DEF Types, ChannelType
<1>7. ThreadInv'
  <2>1. proc.at = "idle" /\ <<"dma", 0>> \notin Triggered => \A c \in Channels : ~nxt.pending[c]
    BY <1>1, <1>2 DEF HandshakeInv, ThreadInv
  <2>2. proc.at = "sync" => nxt.pending[proc.channel]
    BY <1>3 DEF HandshakeInv, ThreadInv, ChannelInv, On
  <2>. QED  BY <1>1, <1>2, <1>3, <1>4, <2>1, <2>2 DEF HandshakeInv, ThreadInv, On
<1>8. ASSUME NEW c \in Channels PROVE ChannelInv(c)'
  <2>1. nxt.pending[c] <=> ch[c].at # "trigger"
    BY DEF HandshakeInv, ChannelInv
  <2>2. ch[c].at = "pause" => On(c, {"read", "write"})
    BY DEF HandshakeInv, PauseInv
  <2>3. ch[c].at # "pause" => ch[c].pause = 0
    BY DEF HandshakeInv, ChannelInv
  <2>4. nxt.accept[c] => On(c, {"write"})
    BY DEF HandshakeInv, ThreadInv
  <2>. QED  BY <1>1, <1>2, <1>4, <1>6, <2>1, <2>2, <2>3, <2>4 DEF ChannelInv, On
<1>9. ASSUME NEW c \in Channels PROVE PauseInv(c)'
  <2>1. PauseInv(c) /\ nxt.pending[c] <=> (PauseInv(c) /\ ch[c].at # "trigger")
    BY DEF HandshakeInv, ChannelInv
  <2>2. On(c, {"write"}) => nxt.accept[c]
    BY DEF HandshakeInv, ThreadInv
  <2>3. <<"channel", c>> \in Triggered => ch[c].at # "pause"
    BY <1>2
  <2>. QED  BY <1>1, <1>5, <2>1, <2>2, <2>3 DEF HandshakeInv, PauseInv, On
<1>10. ASSUME NEW c \in Channels PROVE StaleInv(c)'
  BY <1>1, <1>4 DEF HandshakeInv, ThreadInv, StaleInv, On
<1>11. ASSUME NEW c \in Channels PROVE PhaseInv(c)'
  <2>1. ~FirstPhase'
    BY <1>1, <1>3, <1>4 DEF FirstPhase, HandshakeInv, ThreadInv
  <2>. QED  BY <2>1 DEF PhaseInv
<1>12. ASSUME NEW c \in Channels PROVE CpuInv(c)'
  <2>1. SUFFICES ASSUME <<"cpu", 0>> \in Triggered, ~nxt.busStall
                 PROVE  ch[c].at = "trigger" /\ <<"channel", c>> \notin Triggered
    BY <1>1 DEF CpuInv
  <2>2. sig.busStall /\ proc.at = "idle" /\ FirstPhase
    BY <1>2, <2>1 DEF HandshakeInv, ThreadInv, FirstPhase
  <2>3. ~sig.pending[c]
    BY <1>1, <2>2 DEF HandshakeInv, ThreadInv
  <2>4. /\ ch[c].at = "trigger" /\ nxt.trigger[c] = sig.trigger[c]
        /\ <<"softwareTrigger", c>> \notin delta
    BY <2>2, <2>3 DEF HandshakeInv, PhaseInv
  <2>. QED  BY <1>2, <2>4
<1>. QED  BY <1>7, <1>8, <1>9, <1>10, <1>11, <1>12 DEF HandshakeInv

\* Time passes when everything has settled; the waits that are over run.
LEMMA HandshakeTime == ASSUME Types, HandshakeInv, TimePasses PROVE HandshakeInv'
<1>1. PICK in \in [Triggers -> BOOLEAN], active \in BOOLEAN, pwrOn \in BOOLEAN,
           cpu \in SUBSET {<<"cpu", 0>>} :
        Cycle(in, active, pwrOn, cpu) /\ (cpu # {} => ~cpuStalled)
  BY DEF TimePasses
<1>2. run = {} /\ delta = {} /\ nxt = sig /\ sig' = sig /\ delta' = delta
      /\ run' = Resumed \cup cpu
  BY <1>1 DEF Cycle, Settled
<1>3. /\ nxt'.busStall = sig.busStall /\ nxt'.accept = sig.accept
      /\ nxt'.pending = sig.pending /\ nxt'.trigger = sig.trigger
  BY <1>1, <1>2 DEF Cycle, Types, KernelTypes, Signals
<1>4. /\ <<"dma", 0>> \in run' <=> proc.time = 1
      /\ \A c \in Channels : /\ <<"channel", c>> \in run' <=> ch[c].pause = 1
                             /\ <<"mux", c>> \notin run'
  BY <1>2 DEF Resumed
<1>5. /\ proc'.at = proc.at /\ proc'.channel = proc.channel
      /\ proc'.time = IF proc.time = 0 THEN 0 ELSE proc.time - 1
  BY <1>1 DEF Cycle, Types, ProcTypes
<1>6. ASSUME NEW c \in Channels
      PROVE  /\ ch'[c].at = ch[c].at /\ ch'[c].enable = ch[c].enable
             /\ ch'[c].size = ch[c].size /\ ch'[c].case = ch[c].case
             /\ ch'[c].pause = IF ch[c].pause = 0 THEN 0 ELSE ch[c].pause - 1
  <2>1. ch[c] \in ChannelType
    BY DEF Types
  <2>2. ch'[c] = [ch[c] EXCEPT !.pause = IF @ = 0 THEN 0 ELSE @ - 1]
    BY <1>1 DEF Cycle
  <2>. QED  BY <2>1, <2>2 DEF ChannelType
<1>7. /\ proc.at \in {"idle", "sync", "read", "write"}
      /\ proc.time \in Nat /\ proc.channel \in Channels
  BY DEF Types, ProcTypes
<1>8. proc.at # "idle" => proc.time > 0 /\ sig.busStall
  BY <1>2, <1>7 DEF HandshakeInv, ThreadInv
<1>9. \A c \in Channels : ch[c].pause \in 0..2 /\ (ch[c].at = "pause" => ch[c].pause > 0)
  BY <1>2 DEF Types, ChannelType, HandshakeInv, PauseInv
<1>10. ThreadInv'
  BY <1>2, <1>3, <1>4, <1>5, <1>7, <1>8 DEF HandshakeInv, ThreadInv, On
<1>11. ASSUME NEW c \in Channels PROVE ChannelInv(c)'
  <2>1. sig.pending[c] <=> ch[c].at # "trigger"
    BY <1>2 DEF HandshakeInv, ChannelInv
  <2>2. ch[c].at # "pause" => ch[c].pause = 0
    BY DEF HandshakeInv, ChannelInv
  <2>3. sig.pending[c] /\ ~On(c, {"read", "write"}) => ch[c].at = "accept"
    BY DEF HandshakeInv, ChannelInv
  <2>4. ch[c].at # "pause" => <<"channel", c>> \notin run' /\ ch'[c].pause = 0
    <3>1. ch[c].at # "pause" => ch[c].pause # 1
      BY <2>2
    <3>2. ch[c].at # "pause" => <<"channel", c>> \notin run'
      BY <1>4, <3>1
    <3>3. ch[c].at # "pause" => ch'[c].pause = 0
      BY <1>6, <2>2
    <3>. QED  BY <3>2, <3>3
  <2>5. On(c, {"read", "write"})' <=> On(c, {"read", "write"})
    BY <1>5 DEF On
  <2>. QED  BY <1>2, <1>3, <1>6, <2>1, <2>3, <2>4, <2>5 DEF ChannelInv
<1>12. ASSUME NEW c \in Channels PROVE PauseInv(c)'
  <2>1. ch[c].at = "pause" => proc.time > 0 /\ ch[c].pause > 0 /\ ch[c].pause \in 0..2
                              /\ proc.time \in Nat
    BY <1>7, <1>8, <1>9 DEF HandshakeInv, PauseInv, On
  <2>2. (ch'[c].pause = 0) <=> (ch[c].pause \in {0, 1})
    BY <1>6, <1>9
  <2>3. On(c, {"write"}) => sig.accept[c]
    BY <1>2 DEF HandshakeInv, ThreadInv
  <2>4. PauseInv(c)
    BY DEF HandshakeInv
  <2>5. (<<"channel", c>> \in run') <=> ch[c].pause = 1
    BY <1>4
  <2>6. \A s \in {{"write"}, {"read", "write"}} : On(c, s)' <=> On(c, s)
    BY <1>5 DEF On
  <2>7. ch[c].at = "pause" =>
            /\ ch'[c].pause = ch[c].pause - 1 /\ proc'.time = proc.time - 1
            /\ ch[c].pause \in Int
    BY <1>5, <1>6, <2>1
  <2>8. SUFFICES ASSUME ch[c].at = "pause"
                 PROVE  /\ On(c, {"read", "write"}) /\ sig.pending[c] /\ ch[c].case \in Bursts
                        /\ ch[c].enable => ch[c].size >= 2
                        /\ ch'[c].pause = 0 <=> ch[c].pause = 1
                        /\ ch'[c].pause <= proc'.time + (IF proc.at = "write" THEN 1 ELSE 0)
                        /\ proc.at = "write" /\ ~sig.accept[c] => ch'[c].pause = 0
    BY <1>2, <1>5, <1>6, <2>5, <2>6 DEF PauseInv
  <2>9. proc.at = "write" => sig.accept[c]
    BY <2>3, <2>4, <2>8 DEF PauseInv, On
  <2>. QED  BY <2>1, <2>4, <2>7, <2>8, <2>9 DEF PauseInv
<1>13. ASSUME NEW c \in Channels PROVE StaleInv(c)'
  <2>1. sig.pending[c] <=> ch[c].at # "trigger"
    BY <1>2 DEF HandshakeInv, ChannelInv
  <2>. QED  BY <1>2, <1>5, <1>6, <2>1 DEF HandshakeInv, StaleInv, On
<1>14. ASSUME NEW c \in Channels PROVE PhaseInv(c)'
  <2>1. sig.pending[c] <=> ch[c].at # "trigger"
    BY <1>2 DEF HandshakeInv, ChannelInv
  <2>2. ch[c].pause = 1 => ch[c].at = "pause"
    <3>1. ch[c].at # "pause" => ch[c].pause = 0
      BY DEF HandshakeInv, ChannelInv
    <3>. QED  BY <3>1
  <2>3. <<"channel", c>> \in run' => ch'[c].at = "pause"
    BY <1>4, <1>6, <2>2
  <2>4. <<"mux", c>> \notin run' /\ <<"softwareTrigger", c>> \notin delta'
    BY <1>2, <1>4
  <2>. QED  BY <1>2, <1>3, <1>6, <2>1, <2>3, <2>4 DEF PhaseInv
<1>15. ASSUME NEW c \in Channels PROVE CpuInv(c)'
  <2>1. ~sig.busStall => proc.at = "idle" /\ ~sig.pending[c]
    BY <1>2, <1>8 DEF HandshakeInv, ThreadInv
  <2>2. ~sig.busStall => ch[c].at = "trigger" /\ ch[c].pause = 0
    BY <1>2, <2>1 DEF HandshakeInv, ChannelInv
  <2>3. ~sig.busStall => ch'[c].at = "trigger" /\ <<"channel", c>> \notin run'
    <3>1. ~sig.busStall => ch[c].pause # 1
      BY <2>2
    <3>2. ~sig.busStall => <<"channel", c>> \notin run'
      BY <1>4, <3>1
    <3>. QED  BY <1>6, <2>2, <3>2
  <2>. QED  BY <1>2, <2>3 DEF CpuInv
<1>. QED  BY <1>10, <1>11, <1>12, <1>13, <1>14, <1>15 DEF HandshakeInv

\* What the thread Dma::process leaves alone.
ThreadStep ==
    /\ sig' = sig /\ ch' = ch /\ run' = run \ {<<"dma", 0>>} /\ <<"dma", 0>> \in run
    /\ nxt'.pending = nxt.pending /\ nxt'.trigger = nxt.trigger
    /\ \A c \in Channels :
          /\ (<<"softwareTrigger", c>> \in delta') => (<<"softwareTrigger", c>> \in delta)
          /\ (<<"channel", c>> \in run') <=> (<<"channel", c>> \in run)
          /\ (<<"mux", c>> \in run') <=> (<<"mux", c>> \in run)
    /\ (<<"cpu", 0>> \in run') <=> (<<"cpu", 0>> \in run)

\* Every piece of the thread is of this kind, and its wait is over.
LEMMA ThreadSteps ==
    ASSUME Types, HandshakeInv,
           ProcessScan \/ ProcessSynced \/ ProcessWrite \/ ProcessWritten
    PROVE  ThreadStep /\ proc.time = 0
<1>1. /\ sig' = sig /\ ch' = ch /\ run' = run \ {<<"dma", 0>>} /\ <<"dma", 0>> \in run
  BY DEF ProcessScan, ProcessSynced, ProcessWrite, ProcessWritten, Evaluate
<1>2. nxt'.pending = nxt.pending /\ nxt'.trigger = nxt.trigger
  BY DEF ProcessScan, ProcessSynced, ProcessWrite, ProcessWritten, ReadNext, Leave,
         Types, KernelTypes, Signals
<1>3. delta' \subseteq delta \cup {<<"updateIrqFlag", 0>>}
  BY DEF ProcessScan, ProcessSynced, ProcessWrite, ProcessWritten, ReadNext, Leave,
         NotifyFlagEvent
<1>4. proc.time = 0
  BY <1>1 DEF HandshakeInv, ThreadInv
<1>5. ASSUME NEW c \in Channels
      PROVE  /\ (<<"softwareTrigger", c>> \in delta') => (<<"softwareTrigger", c>> \in delta)
             /\ (<<"channel", c>> \in run') <=> (<<"channel", c>> \in run)
             /\ (<<"mux", c>> \in run') <=> (<<"mux", c>> \in run)
  BY <1>1, <1>3
<1>6. (<<"cpu", 0>> \in run') <=> (<<"cpu", 0>> \in run)
  BY <1>1
<1>. QED  BY <1>1, <1>2, <1>4, <1>5, <1>6 DEF ThreadStep

\* At the end of a wait a channel whose beat is under way has been counted down: none
\* is about to run but for the end of its pause.
LEMMA BeatsCounted ==
    ASSUME Types, HandshakeInv, proc.time = 0, NEW c \in Channels
    PROVE  /\ ~(<<"channel", c>> \in run /\ ch[c].at = "accept")
           /\ ch[c].at = "pause" => ch[c].pause <= IF proc.at = "write" THEN 1 ELSE 0
           /\ ch[c].pause \in 0..2
<1>1. ch[c].pause \in 0..2
  BY DEF Types, ChannelType
<1>2. ~(<<"channel", c>> \in run /\ ch[c].at = "accept")
  BY DEF HandshakeInv, ChannelInv
<1>3. ch[c].at = "pause" => ch[c].pause <= IF proc.at = "write" THEN 1 ELSE 0
  <2>1. ch[c].at = "pause" => ch[c].pause <= proc.time + (IF proc.at = "write" THEN 1 ELSE 0)
    BY DEF HandshakeInv, PauseInv
  <2>2. CASE proc.at = "write"
    BY <1>1, <2>1, <2>2
  <2>3. CASE proc.at # "write"
    BY <1>1, <2>1, <2>3
  <2>. QED  BY <2>2, <2>3
<1>. QED  BY <1>1, <1>2, <1>3

\* At the top of the loop the thread picks a channel or lets go of the bus; the channel
\* it leaves is not pending any more.
LEMMA LoopTop ==
    ASSUME Types, HandshakeInv, ThreadStep, proc.time = 0,
           proc.at = "idle" \/ (proc.at = "write" /\ ~sig.pending[proc.channel]),
           proc' = Scanned.proc, nxt'.busStall = Scanned.stall,
           \A c \in Channels : ~nxt'.accept[c]
    PROVE  HandshakeInv'
<1>0. proc.channel \in Channels
  BY DEF Types, ProcTypes
<1>1. \/ /\ \A c \in Channels : ~sig.pending[c]
         /\ proc'.at = "idle" /\ proc'.time = 0 /\ ~nxt'.busStall
      \/ /\ proc'.channel \in Channels /\ sig.pending[proc'.channel]
         /\ proc'.at = "sync" /\ proc'.time = 1 /\ nxt'.busStall
  <2>1. CASE Pending = {}
    <3>1. \A c \in Channels : ~sig.pending[c]
      BY <2>1 DEF Pending
    <3>2. proc' = [proc EXCEPT !.at = "idle"] /\ nxt'.busStall = FALSE
      BY <2>1 DEF Scanned
    <3>. QED  BY <3>1, <3>2 DEF Types, ProcTypes
  <2>2. CASE Pending # {}
    <3>1. Min(Pending) \in Channels /\ sig.pending[Min(Pending)]
      BY <2>2, LowestChannel DEF Pending
    <3>2. /\ proc' = [proc EXCEPT !.at = "sync", !.channel = Min(Pending), !.time = 1]
          /\ nxt'.busStall = TRUE
      BY <2>2 DEF Scanned
    <3>. QED  BY <3>1, <3>2 DEF Types, ProcTypes
  <2>. QED  BY <2>1, <2>2
<1>2. \A c \in Channels : ~On(c, {"read"})' /\ ~On(c, {"write"})' /\ ~On(c, {"read", "write"})'
  BY <1>1 DEF On
<1>3. ThreadInv'
  BY <1>1, <1>2 DEF ThreadStep, HandshakeInv, ThreadInv, On
<1>4. ASSUME NEW c \in Channels
      PROVE  /\ ~(<<"channel", c>> \in run /\ ch[c].at = "accept")
             /\ On(c, {"read", "write"}) => ~sig.pending[c]
             /\ ch[c].at # "pause"
  BY BeatsCounted DEF HandshakeInv, PauseInv, On
<1>5. ASSUME NEW c \in Channels PROVE ChannelInv(c)'
  BY <1>2, <1>4 DEF ThreadStep, HandshakeInv, ChannelInv, On
<1>6. ASSUME NEW c \in Channels PROVE PauseInv(c)' /\ StaleInv(c)'
  BY <1>2, <1>4 DEF ThreadStep, PauseInv, StaleInv
<1>7. ASSUME NEW c \in Channels PROVE PhaseInv(c)'
  <2>1. FirstPhase' => FirstPhase
    BY <1>1 DEF FirstPhase, ThreadStep
  <2>. QED  BY <2>1 DEF ThreadStep, HandshakeInv, PhaseInv
<1>8. ASSUME NEW c \in Channels PROVE CpuInv(c)'
  BY DEF ThreadStep, HandshakeInv, CpuInv
<1>. QED  BY <1>3, <1>5, <1>6, <1>7, <1>8 DEF HandshakeInv

\* The thread reads the next element of a channel that is still pending; accept falls.
LEMMA ReadStarts ==
    ASSUME Types, HandshakeInv, ThreadStep, proc.time = 0,
           proc.at \in {"sync", "write"}, ReadNext(proc.channel)
    PROVE  HandshakeInv'
<1>. DEFINE p == proc.channel
<1>0. p \in Channels /\ proc.at # "idle"
  BY DEF Types, ProcTypes
<1>1. /\ proc'.at = "read" /\ proc'.time > 0 /\ proc'.time \in Nat /\ proc'.channel = p
      /\ sig.pending[p]
  BY DmaAssumption DEF ReadNext, Types, ProcTypes
<1>2. /\ nxt'.busStall = nxt.busStall
      /\ \A c \in Channels : nxt'.accept[c] <=> c # p /\ nxt.accept[c]
  BY <1>0 DEF ReadNext, Types, KernelTypes, Signals
<1>3. /\ nxt.busStall /\ sig.busStall
      /\ \A c \in Channels : nxt.accept[c] => c = p
  BY <1>0 DEF HandshakeInv, ThreadInv, On
<1>4. ThreadInv'
  BY <1>1, <1>2, <1>3 DEF ThreadStep, ThreadInv, On
<1>5. ASSUME NEW c \in Channels
      PROVE  /\ ~(<<"channel", c>> \in run /\ ch[c].at = "accept")
             /\ ch[c].at = "pause" => ch[c].pause <= 1 /\ c = p
             /\ On(c, {"read", "write"})' <=> c = p
             /\ On(c, {"read"})' <=> c = p
             /\ ~On(c, {"write"})'
             /\ On(c, {"read", "write"}) => c = p
  BY <1>1, BeatsCounted DEF HandshakeInv, PauseInv, On
<1>6. ASSUME NEW c \in Channels PROVE ChannelInv(c)'
  BY <1>5 DEF ThreadStep, HandshakeInv, ChannelInv
<1>7. ASSUME NEW c \in Channels PROVE PauseInv(c)'
  <2>0. ch[c].pause \in 0..2
    BY DEF Types, ChannelType
  <2>1. ch[c].at = "pause" => ch[c].pause <= proc'.time /\ c = p
    <3>1. ch[c].at = "pause" => ch[c].pause <= 1 /\ c = p
      BY <1>5
    <3>2. 1 <= proc'.time /\ proc'.time \in Nat
      BY <1>1
    <3>. QED  BY <2>0, <3>1, <3>2
  <2>2. proc'.at # "write"
    BY <1>1
  <2>3. ch[c].at = "pause" => ch[c].pause <= proc'.time + (IF proc'.at = "write" THEN 1 ELSE 0)
    BY <1>1, <2>1, <2>2
  <2>. QED  BY <1>5, <2>1, <2>2, <2>3 DEF ThreadStep, HandshakeInv, PauseInv
<1>8. ASSUME NEW c \in Channels PROVE StaleInv(c)'
  <2>1. ch[c].at = "trigger" /\ c = p => ~ch[c].enable
    <3>1. CASE proc.at = "sync"
      <4>1. sig.pending[p] /\ ~On(p, {"read", "write"})
        BY <1>1, <3>1 DEF On
      <4>2. ch[p].at = "accept"
        BY <1>0, <4>1 DEF HandshakeInv, ChannelInv
      <4>. QED  BY <4>2
    <3>2. CASE proc.at = "write"
      BY <1>0, <1>1, <3>2 DEF HandshakeInv, StaleInv, On
    <3>. QED  BY <3>1, <3>2
  <2>. QED  BY <1>5, <2>1 DEF ThreadStep, StaleInv
<1>9. ASSUME NEW c \in Channels PROVE PhaseInv(c)' /\ CpuInv(c)'
  <2>1. ~FirstPhase'
    BY <1>1 DEF FirstPhase
  <2>. QED  BY <1>3, <2>1 DEF ThreadStep, PhaseInv, CpuInv
<1>. QED  BY <1>4, <1>6, <1>7, <1>8, <1>9 DEF HandshakeInv

\* The thread writes the element: accept rises at a channel that is at accept, or will be
\* before it sees the rise.
LEMMA WriteStarts ==
    ASSUME Types, HandshakeInv, ThreadStep, proc.time = 0, ProcessWrite
    PROVE  HandshakeInv'
<1>. DEFINE p == proc.channel
<1>0. p \in Channels /\ proc.at = "read"
  BY DEF Types, ProcTypes, ProcessWrite
<1>1. proc'.at = "write" /\ proc'.time > 0 /\ proc'.time \in Nat /\ proc'.channel = p
  BY DmaAssumption DEF ProcessWrite, Types, ProcTypes
<1>2. /\ nxt'.busStall = nxt.busStall
      /\ \A c \in Channels : nxt'.accept[c] <=> c = p \/ nxt.accept[c]
  BY <1>0 DEF ProcessWrite, Types, KernelTypes, Signals
<1>3. /\ nxt.busStall /\ sig.busStall /\ ~sig.accept[p]
      /\ \A c \in Channels : ~nxt.accept[c]
  BY <1>0 DEF HandshakeInv, ThreadInv, On
<1>4. ThreadInv'
  BY <1>1, <1>2, <1>3 DEF ThreadStep, ThreadInv, On
<1>5. ASSUME NEW c \in Channels
      PROVE  /\ ~(<<"channel", c>> \in run /\ ch[c].at = "accept")
             /\ ch[c].at = "pause" => ch[c].pause = 0 /\ c = p
             /\ On(c, {"read", "write"})' <=> c = p
             /\ ~On(c, {"read"})'
             /\ On(c, {"write"})' <=> c = p
             /\ On(c, {"read", "write"}) <=> c = p
             /\ On(c, {"read"}) <=> c = p
  BY <1>0, <1>1, BeatsCounted DEF HandshakeInv, PauseInv, On
<1>6. ASSUME NEW c \in Channels PROVE ChannelInv(c)'
  BY <1>5 DEF ThreadStep, HandshakeInv, ChannelInv
<1>7. ASSUME NEW c \in Channels PROVE PauseInv(c)'
  <2>1. ch[c].at = "pause" => ch[c].pause <= proc'.time + (IF proc'.at = "write" THEN 1 ELSE 0)
    <3>1. ch[c].at = "pause" => ch[c].pause = 0
      BY <1>5
    <3>. QED  BY <1>1, <3>1
  <2>. QED  BY <1>5, <2>1 DEF ThreadStep, HandshakeInv, PauseInv
<1>8. ASSUME NEW c \in Channels PROVE StaleInv(c)'
  BY <1>1, <1>5 DEF ThreadStep, HandshakeInv, StaleInv
<1>9. ASSUME NEW c \in Channels PROVE PhaseInv(c)' /\ CpuInv(c)'
  <2>1. ~FirstPhase'
    BY <1>1 DEF FirstPhase
  <2>. QED  BY <1>3, <2>1 DEF ThreadStep, PhaseInv, CpuInv
<1>. QED  BY <1>4, <1>6, <1>7, <1>8, <1>9 DEF HandshakeInv

\* The thread Dma::process keeps the handshake.
LEMMA HandshakeProcess ==
    ASSUME Types, HandshakeInv,
           ProcessScan \/ ProcessSynced \/ ProcessWrite \/ ProcessWritten
    PROVE  HandshakeInv'
<1>. DEFINE p == proc.channel
<1>0. p \in Channels /\ ThreadStep /\ proc.time = 0
  BY ThreadSteps DEF Types, ProcTypes
<1>1. CASE ProcessScan
  <2>1. nxt'.busStall = Scanned.stall /\ nxt'.accept = nxt.accept
    BY <1>1 DEF ProcessScan, Types, KernelTypes, Signals
  <2>2. \A c \in Channels : ~nxt.accept[c]
    BY <1>1 DEF ProcessScan, HandshakeInv, ThreadInv, On
  <2>. QED  BY <1>0, <1>1, <2>1, <2>2, LoopTop DEF ProcessScan
<1>2. CASE ProcessSynced
  BY <1>0, <1>2, ReadStarts DEF ProcessSynced
<1>3. CASE ProcessWrite
  BY <1>0, <1>3, WriteStarts
<1>4. CASE ProcessWritten
  <2>1. proc.at = "write" /\ (ReadNext(p) \/ Leave(p))
    BY <1>4 DEF ProcessWritten
  <2>2. CASE ReadNext(p)
    BY <1>0, <2>1, <2>2, ReadStarts
  <2>3. CASE Leave(p)
    <3>1. /\ nxt'.busStall = Scanned.stall
          /\ \A c \in Channels : nxt'.accept[c] <=> c # p /\ nxt.accept[c]
      BY <1>0, <2>3 DEF Leave, Types, KernelTypes, Signals
    <3>2. \A c \in Channels : nxt.accept[c] => c = p
      BY DEF HandshakeInv, ThreadInv, On
    <3>. QED  BY <1>0, <2>1, <2>3, <3>1, <3>2, LoopTop DEF Leave
  <2>. QED  BY <2>1, <2>2, <2>3
<1>. QED  BY <1>1, <1>2, <1>3, <1>4

\* The members after a trigger (Dma.cpp:393).
LEMMA StartFields ==
    ASSUME NEW k \in ChannelType
    PROVE  /\ Start(k).at = "accept" /\ Start(k).pause = k.pause /\ Start(k).case = k.mode
           /\ Start(k).mode = k.mode /\ Start(k).enable = k.enable
           /\ Start(k).tSize = k.tSize
           /\ Start(k).size = IF k.mode \in Singles THEN k.size ELSE k.tSize
           /\ Start(k).sInc = k.sInc /\ Start(k).dInc = k.dInc
           /\ Start(k).tSa = IF LoadsAddresses(k) THEN k.sa ELSE k.tSa
           /\ Start(k).tDa = IF LoadsAddresses(k) THEN k.da ELSE k.tDa
<1>. DEFINE l == IF LoadsAddresses(k) THEN Loaded(k) ELSE k
            size == IF k.mode \in Singles THEN l.size ELSE k.tSize
<1>1. /\ l \in ChannelType /\ l.size = k.size /\ l.tSize = k.tSize /\ l.pause = k.pause
      /\ l.mode = k.mode /\ l.enable = k.enable /\ l.sInc = k.sInc /\ l.dInc = k.dInc
      /\ l.tSa = IF LoadsAddresses(k) THEN k.sa ELSE k.tSa
      /\ l.tDa = IF LoadsAddresses(k) THEN k.da ELSE k.tDa
  <2>1. CASE LoadsAddresses(k)
    <3>1. l = Loaded(k) /\ Loaded(k) \in ChannelType
      BY <2>1, AddressesFollow DEF Follows
    <3>. QED  BY <2>1, <3>1 DEF Loaded, ChannelType
  <2>2. CASE ~LoadsAddresses(k)
    BY <2>2
  <2>. QED  BY <2>1, <2>2
<1>2. Start(k) = [l EXCEPT !.size = size, !.at = "accept", !.case = k.mode]
  BY DEF Start
<1>3. size = IF k.mode \in Singles THEN k.size ELSE k.tSize
  BY <1>1
<1>. HIDE DEF l, size
<1>. QED  BY <1>1, <1>2, <1>3 DEF ChannelType

\* The members after the addresses have advanced (Dma.cpp:290).
LEMMA AdvanceFields ==
    ASSUME NEW k \in ChannelType
    PROVE  LET u == UpdateAddresses(k)
           IN  /\ u \in ChannelType
               /\ u.at = k.at /\ u.pause = k.pause /\ u.case = k.case /\ u.mode = k.mode
               /\ u.enable = k.enable /\ u.size = k.size /\ u.tSize = k.tSize
               /\ u.sInc = k.sInc /\ u.dInc = k.dInc /\ u.sa = k.sa /\ u.da = k.da
               /\ u.tSa = k.tSa + k.sInc /\ u.tDa = k.tDa + k.dInc
<1>1. UpdateAddresses(k) \in ChannelType
  BY AddressesFollow DEF Follows
<1>. QED  BY <1>1 DEF UpdateAddresses, ChannelType

\* The members after a beat that is not the last one.
LEMMA NextBeatFields ==
    ASSUME NEW k \in ChannelType, ~LastBeat(k)
    PROVE  LET a == AfterBeat(k)
           IN  /\ a.at = IF k.case \in Singles THEN "trigger" ELSE "accept"
               /\ a.size = IF k.case = "RepeatedBlock" THEN k.size ELSE k.size - 1
               /\ a.pause = k.pause /\ a.case = k.case /\ a.mode = k.mode
               /\ a.enable = k.enable /\ a.tSize = k.tSize
               /\ a.sInc = k.sInc /\ a.dInc = k.dInc /\ a.tSa = k.tSa /\ a.tDa = k.tDa
<1>. DEFINE size == IF k.case = "RepeatedBlock" THEN k.size ELSE k.size - 1
            at == IF k.case \in Singles THEN "trigger" ELSE "accept"
<1>1. AfterBeat(k) = [k EXCEPT !.size = size, !.at = at]
  BY DEF AfterBeat
<1>. HIDE DEF size, at
<1>2. /\ AfterBeat(k).at = at /\ AfterBeat(k).size = size
      /\ AfterBeat(k).pause = k.pause /\ AfterBeat(k).case = k.case
      /\ AfterBeat(k).mode = k.mode
      /\ AfterBeat(k).enable = k.enable /\ AfterBeat(k).tSize = k.tSize
      /\ AfterBeat(k).sInc = k.sInc /\ AfterBeat(k).dInc = k.dInc
      /\ AfterBeat(k).tSa = k.tSa /\ AfterBeat(k).tDa = k.tDa
  BY <1>1 DEF ChannelType
<1>. QED  BY <1>2 DEF size, at

\* The members after the last beat: only a repeated burst goes on, at the start of its
\* block; a burst that ends is disabled.
LEMMA LastBeatFields ==
    ASSUME NEW k \in ChannelType, LastBeat(k)
    PROVE  LET a == AfterBeat(k)
           IN  /\ a.at = IF k.case = "RepeatedBurstBlock" THEN "accept" ELSE "trigger"
               /\ a.pause = k.pause /\ a.case = k.case /\ a.mode = k.mode
               /\ a.tSize = k.tSize /\ a.size = k.tSize
               /\ a.sInc = k.sInc /\ a.dInc = k.dInc
               /\ k.case = "RepeatedBurstBlock" =>
                      a.tSa = k.sa /\ a.tDa = k.da /\ a.enable = k.enable
               /\ k.case = "BurstBlock" => ~a.enable
<1>. DEFINE done == [k EXCEPT !.size = k.tSize, !.flag = TRUE]
            acc == [done EXCEPT !.at = "accept"]
<1>1. /\ done \in ChannelType
      /\ done.pause = k.pause /\ done.case = k.case /\ done.mode = k.mode
      /\ done.tSize = k.tSize /\ done.size = k.tSize /\ done.enable = k.enable
      /\ done.sInc = k.sInc /\ done.dInc = k.dInc /\ done.sa = k.sa /\ done.da = k.da
  BY DEF ChannelType
<1>2. AfterBeat(k) =
        CASE k.case = "RepeatedBurstBlock" -> Loaded(acc)
          [] k.case \in {"RepeatedSingle", "RepeatedBlock"} -> [done EXCEPT !.at = "trigger"]
          [] OTHER -> [done EXCEPT !.at = "trigger", !.enable = FALSE]
  BY DEF AfterBeat, Finished
<1>. HIDE DEF done
<1>3. CASE k.case = "RepeatedBurstBlock"
  <2>1. AfterBeat(k) = Loaded(acc)
    BY <1>2, <1>3
  <2>2. /\ acc \in ChannelType /\ acc.at = "accept"
        /\ acc.pause = k.pause /\ acc.case = k.case /\ acc.mode = k.mode
        /\ acc.tSize = k.tSize /\ acc.size = k.tSize /\ acc.enable = k.enable
        /\ acc.sInc = k.sInc /\ acc.dInc = k.dInc /\ acc.sa = k.sa /\ acc.da = k.da
    BY <1>1 DEF ChannelType
  <2>. HIDE DEF acc
  <2>3. /\ Loaded(acc).at = acc.at /\ Loaded(acc).pause = acc.pause
        /\ Loaded(acc).case = acc.case /\ Loaded(acc).mode = acc.mode
        /\ Loaded(acc).tSize = acc.tSize /\ Loaded(acc).size = acc.size
        /\ Loaded(acc).enable = acc.enable /\ Loaded(acc).sInc = acc.sInc
        /\ Loaded(acc).dInc = acc.dInc
        /\ Loaded(acc).tSa = acc.sa /\ Loaded(acc).tDa = acc.da
    BY <2>2 DEF Loaded, ChannelType
  <2>. QED  BY <1>3, <2>1, <2>2, <2>3
<1>4. CASE k.case \in {"RepeatedSingle", "RepeatedBlock"}
  <2>1. AfterBeat(k) = [done EXCEPT !.at = "trigger"]
    BY <1>2, <1>4
  <2>. QED  BY <1>1, <1>4, <2>1 DEF ChannelType
<1>5. CASE k.case \notin {"RepeatedSingle", "RepeatedBlock", "RepeatedBurstBlock"}
  <2>1. AfterBeat(k) = [done EXCEPT !.at = "trigger", !.enable = FALSE]
    BY <1>2, <1>5
  <2>. QED  BY <1>1, <1>5, <2>1 DEF ChannelType
<1>. QED  BY <1>3, <1>4, <1>5

\* What the thread of channel c leaves alone.
ChannelMoves(c) ==
    /\ sig' = sig /\ proc' = proc /\ regs' = regs
    /\ <<"channel", c>> \in run /\ <<"channel", c>> \notin run'
    /\ nxt'.busStall = nxt.busStall /\ nxt'.accept = nxt.accept /\ nxt'.trigger = nxt.trigger
    /\ nxt'.pending[c] <=> ch'[c].at # "trigger"
    /\ \A d \in Channels \ {c} :
          /\ nxt'.pending[d] = nxt.pending[d] /\ ch'[d] = ch[d]
          /\ (<<"channel", d>> \in run') <=> (<<"channel", d>> \in run)
    /\ \A d \in Channels :
          /\ (<<"softwareTrigger", d>> \in delta') <=> (<<"softwareTrigger", d>> \in delta)
          /\ (<<"mux", d>> \in run') <=> (<<"mux", d>> \in run)
    /\ (<<"cpu", 0>> \in run') <=> (<<"cpu", 0>> \in run)
    /\ (<<"dma", 0>> \in run') <=> (<<"dma", 0>> \in run)

\* Every piece of a channel's thread is of this kind.
LEMMA ChannelMovesOnly ==
    ASSUME Types, NEW c \in Channels, NEW k, ChannelBecomes(c, k), Evaluate("channel", c)
    PROVE  ChannelMoves(c) /\ ch'[c] = k
<1>1. /\ sig' = sig /\ proc' = proc /\ regs' = regs /\ delta' = delta
      /\ ch' = [ch EXCEPT ![c] = k]
      /\ run' = run \ {<<"channel", c>>} /\ <<"channel", c>> \in run
  BY DEF ChannelBecomes, Evaluate
<1>2. ch'[c] = k /\ \A d \in Channels \ {c} : ch'[d] = ch[d]
  BY <1>1 DEF Types
<1>3. /\ nxt'.busStall = nxt.busStall /\ nxt'.accept = nxt.accept
      /\ nxt'.trigger = nxt.trigger
      /\ nxt'.pending[c] <=> k.at # "trigger"
      /\ \A d \in Channels \ {c} : nxt'.pending[d] = nxt.pending[d]
  <2>. DEFINE b == k.at # "trigger"
  <2>1. nxt' = [nxt EXCEPT !.pending[c] = b] /\ b \in BOOLEAN
    BY DEF ChannelBecomes
  <2>. HIDE DEF b
  <2>2. /\ nxt'.busStall = nxt.busStall /\ nxt'.accept = nxt.accept
        /\ nxt'.trigger = nxt.trigger /\ nxt'.pending = [nxt.pending EXCEPT ![c] = b]
    BY <2>1 DEF Types, KernelTypes, Signals
  <2>3. nxt'.pending[c] = b /\ \A d \in Channels \ {c} : nxt'.pending[d] = nxt.pending[d]
    BY <2>2 DEF Types, KernelTypes, Signals
  <2>. QED  BY <2>2, <2>3 DEF b
<1>4. /\ \A d \in Channels \ {c} : (<<"channel", d>> \in run') <=> (<<"channel", d>> \in run)
      /\ \A d \in Channels : (<<"mux", d>> \in run') <=> (<<"mux", d>> \in run)
      /\ (<<"cpu", 0>> \in run') <=> (<<"cpu", 0>> \in run)
      /\ (<<"dma", 0>> \in run') <=> (<<"dma", 0>> \in run)
  BY <1>1
<1>. QED  BY <1>1, <1>2, <1>3, <1>4 DEF ChannelMoves

\* A channel moves on: it waits as before, for accept, for a trigger (disabled, or with
\* its beat counted), or pauses.
LEMMA HandshakeMoves ==
    ASSUME Types, HandshakeInv, NEW c \in Channels, ChannelMoves(c),
           \/ ch[c].at = "trigger" /\ ch'[c] = ch[c]
           \/ ch'[c].at = "accept" /\ ch'[c].pause = 0
           \/ /\ ch'[c].at = "trigger" /\ ch'[c].pause = 0
              /\ ~ch'[c].enable \/ (sig.accept[c] /\ proc.time > 0 /\ On(c, {"write"}))
           \/ /\ ch'[c].at = "pause" /\ ch'[c].pause = 2
              /\ ch'[c].case \in Bursts /\ ch'[c].size >= 2
              /\ sig.accept[c] /\ proc.time > 0 /\ On(c, {"write"}) /\ sig.pending[c]
    PROVE  HandshakeInv'
<1>0. proc.time \in Nat
  BY DEF Types, ProcTypes
<1>1. ThreadInv'
  BY DEF ChannelMoves, HandshakeInv, ThreadInv, On
<1>2. ASSUME NEW d \in Channels \ {c}
      PROVE  ChannelInv(d)' /\ PauseInv(d)' /\ StaleInv(d)' /\ PhaseInv(d)' /\ CpuInv(d)'
  <2>1. ChannelInv(d)' /\ PauseInv(d)'
    BY DEF ChannelMoves, HandshakeInv, ChannelInv, PauseInv, On
  <2>2. StaleInv(d)' /\ PhaseInv(d)' /\ CpuInv(d)'
    BY DEF ChannelMoves, HandshakeInv, StaleInv, PhaseInv, CpuInv, On, FirstPhase
  <2>. QED  BY <2>1, <2>2
<1>3. ChannelInv(c)'
  <2>1. ~(sig.pending[c] /\ ~On(c, {"read", "write"}))
    BY DEF ChannelMoves, HandshakeInv, ChannelInv, On
  <2>2. ch'[c].at # "pause" => ch'[c].pause = 0
    BY DEF HandshakeInv, ChannelInv
  <2>3. On(c, {"read", "write"})' <=> On(c, {"read", "write"})
    BY DEF ChannelMoves, On
  <2>. QED  BY <2>1, <2>2, <2>3 DEF ChannelMoves, ChannelInv
<1>4. PauseInv(c)'
  <2>1. SUFFICES ASSUME ch'[c].at = "pause" PROVE PauseInv(c)'
    BY DEF PauseInv
  <2>2. /\ ch'[c].pause = 2 /\ ch'[c].case \in Bursts /\ ch'[c].size >= 2
        /\ sig.accept[c] /\ proc.time > 0 /\ On(c, {"write"}) /\ sig.pending[c]
    BY <2>1
  <2>3. 2 <= proc.time + (IF proc.at = "write" THEN 1 ELSE 0)
    BY <1>0, <2>2 DEF On
  <2>. QED  BY <2>2, <2>3 DEF PauseInv, ChannelMoves, On
<1>5. StaleInv(c)'
  BY DEF HandshakeInv, ChannelMoves, StaleInv, On
<1>6. PhaseInv(c)'
  <2>1. FirstPhase' <=> FirstPhase
    BY DEF ChannelMoves, FirstPhase
  <2>2. FirstPhase => sig.pending[c]
    BY DEF HandshakeInv, PhaseInv, PauseInv, ChannelMoves
  <2>. QED  BY <2>1, <2>2 DEF HandshakeInv, PhaseInv, ChannelMoves
<1>7. CpuInv(c)'
  BY DEF HandshakeInv, CpuInv, ChannelMoves
<1>. QED  BY <1>1, <1>2, <1>3, <1>4, <1>5, <1>6, <1>7 DEF HandshakeInv

\* The thread of a channel keeps the handshake.
LEMMA HandshakeChannel ==
    ASSUME Types, HandshakeInv, NEW c \in Channels,
           ChannelTrigger(c) \/ ChannelAccept(c) \/ ChannelResume(c)
    PROVE  HandshakeInv' /\ ChannelMoves(c)
<1>. DEFINE k == ch[c]
<1>0. k \in ChannelType
  BY DEF Types
<1>1. Evaluate("channel", c) /\ <<"channel", c>> \in run
  BY DEF ChannelTrigger, ChannelAccept, ChannelResume, Evaluate
<1>2. CASE ChannelTrigger(c)
  <2>1. k.at = "trigger" /\ k.pause = 0
    BY <1>2 DEF ChannelTrigger, HandshakeInv, ChannelInv
  <2>2. ChannelMoves(c) /\ ch'[c] = IF k.enable THEN Start(k) ELSE k
    BY <1>1, <1>2, ChannelMovesOnly DEF ChannelTrigger
  <2>3. k.enable => ch'[c].at = "accept" /\ ch'[c].pause = 0
    BY <1>0, <2>1, <2>2, StartFields
  <2>. QED  BY <2>1, <2>2, <2>3, HandshakeMoves
<1>3. CASE ChannelAccept(c)
  <2>. DEFINE u == UpdateAddresses(k)
              p == [u EXCEPT !.at = "pause", !.pause = 2]
  <2>1. /\ k.at = "accept" /\ k.pause = 0
        /\ On(c, {"write"}) /\ sig.accept[c] /\ proc.time > 0 /\ sig.pending[c]
    BY <1>1, <1>3 DEF ChannelAccept, HandshakeInv, ChannelInv
  <2>2. /\ u \in ChannelType /\ u.pause = 0 /\ u.size \in Nat
    BY <1>0, <2>1, AdvanceFields DEF ChannelType
  <2>. HIDE DEF u
  <2>3. CASE Pauses(u)
    <3>1. ChannelMoves(c) /\ ch'[c] = p
      BY <1>1, <1>3, <2>3, ChannelMovesOnly DEF ChannelAccept, u
    <3>2. p.at = "pause" /\ p.pause = 2 /\ p.case = u.case /\ p.size = u.size
      BY <2>2 DEF ChannelType
    <3>3. u.case \in Bursts /\ u.size >= 2
      BY <2>2, <2>3 DEF Pauses
    <3>. QED  BY <2>1, <3>1, <3>2, <3>3, HandshakeMoves
  <2>4. CASE ~Pauses(u)
    <3>1. ChannelMoves(c) /\ ch'[c] = AfterBeat(u)
      BY <1>1, <1>3, <2>4, ChannelMovesOnly DEF ChannelAccept, u
    <3>2. AfterBeat(u).at \in {"trigger", "accept"} /\ AfterBeat(u).pause = 0
      BY <2>2, LastBeatFields, NextBeatFields
    <3>. QED  BY <2>1, <3>1, <3>2, HandshakeMoves
  <2>. QED  BY <2>3, <2>4
<1>4. CASE ChannelResume(c)
  <2>1. k.at = "pause" /\ k.pause = 0 /\ k.case \in Bursts
    BY <1>1, <1>4 DEF ChannelResume, HandshakeInv, PauseInv
  <2>2. ChannelMoves(c) /\ ch'[c] = AfterBeat(k)
    BY <1>1, <1>4, ChannelMovesOnly DEF ChannelResume
  <2>3. /\ AfterBeat(k).at \in {"trigger", "accept"} /\ AfterBeat(k).pause = 0
        /\ AfterBeat(k).at = "trigger" => ~AfterBeat(k).enable
    BY <1>0, <2>1, LastBeatFields, NextBeatFields DEF Bursts, Singles
  <2>. QED  BY <2>1, <2>2, <2>3, HandshakeMoves
<1>. QED  BY <1>2, <1>3, <1>4

\* The handshake is inductive.
LEMMA HandshakeStep == ASSUME Types, HandshakeInv, [Next]_vars PROVE HandshakeInv'
<1>1. CASE UNCHANGED vars
  BY <1>1, HandshakeFrame DEF vars, kernelVars
<1>2. CASE Next
  BY <1>2, HandshakeDelta, HandshakeTime, HandshakeSoftware, HandshakeProcess,
     HandshakeOthers, HandshakeMux, HandshakeChannel
     DEF Next, ControllerStep, ChannelStep
<1>. QED  BY <1>1, <1>2

-----------------------------------------------------------------------------
(* Every element of a block moves once *)

\* The jobs of the channels.
JobType == [live : BOOLEAN, done : BOOLEAN, moved : Nat, n : Nat, src : Nat, dst : Nat]

\* The elements of its job that the thread of channel c has seen accepted.
Seen(c) == job[c].moved - (IF Beating(c) THEN 1 ELSE 0)

\* The n-th address of a block.
AddressOf(base, n, inc) == base + n * inc

\* A channel k that has seen that many elements of job j: the rest is left to count
\* (a pause comes before the count goes down), and the internal addresses are those
\* of the next element.
Progress(j, k, seen) ==
    /\ k.enable /\ k.mode = k.case /\ j.n = k.tSize
    /\ k.case # "RepeatedBlock" =>
          seen + k.size = j.n + (IF k.at = "pause" THEN 1 ELSE 0)
    /\ k.tSa = AddressOf(j.src, seen, k.sInc)
    /\ k.tDa = AddressOf(j.dst, seen, k.dInc)

\* The job of a channel against its members, DMAxSZ and the element being read.
JobInv(c) ==
    /\ job[c].done => ~job[c].live /\ job[c].moved = job[c].n
    /\ job[c].live =>
          /\ Progress(job[c], ch[c], Seen(c))
          /\ ch[c].at = "trigger" /\ ~On(c, {"write"}) => regs.sz[c] = ch[c].size
          /\ On(c, {"read"}) => proc.from = ch[c].tSa

\* The inductive strengthening of WholeBlock and ElementsInPlace.
JobsInv == job \in [Channels -> JobType] /\ \A c \in Channels : JobInv(c)

\* A block starts at its base and goes on one increment at a time.
LEMMA AddressSteps ==
    ASSUME NEW base \in Int, NEW n \in Int, NEW inc \in -1..1
    PROVE  /\ AddressOf(base, 0, inc) = base
           /\ AddressOf(base, n + 1, inc) = AddressOf(base, n, inc) + inc
<1>1. CASE inc = -1
  BY <1>1 DEF AddressOf
<1>2. CASE inc = 0
  BY <1>2 DEF AddressOf
<1>3. CASE inc = 1
  BY <1>3 DEF AddressOf
<1>. QED  BY <1>1, <1>2, <1>3

\* Members that the progress of a job depends on.
SameMembers(k, k2) ==
    /\ k2.enable = k.enable /\ k2.mode = k.mode /\ k2.case = k.case /\ k2.tSize = k.tSize
    /\ k2.size = k.size /\ k2.at = k.at /\ k2.tSa = k.tSa /\ k2.tDa = k.tDa
    /\ k2.sInc = k.sInc /\ k2.dInc = k.dInc

\* A step that moves no element of channel c and starts or ends no job of it.
LEMMA JobKept ==
    ASSUME NEW c \in Channels, JobInv(c),
           job'[c].live = job[c].live, job'[c].done = job[c].done, job'[c].n = job[c].n,
           job'[c].src = job[c].src, job'[c].dst = job[c].dst,
           job[c].done => job'[c].moved = job[c].moved,
           job[c].live =>
               /\ Seen(c)' = Seen(c) /\ SameMembers(ch[c], ch'[c])
               /\ ch[c].at = "trigger" /\ ~On(c, {"write"})' => regs'.sz[c] = ch[c].size
               /\ On(c, {"read"})' => proc'.from = ch[c].tSa
    PROVE  JobInv(c)'
BY DEF JobInv, Progress, SameMembers

\* A job that is aborted promises nothing.
LEMMA JobAborted ==
    ASSUME NEW c \in Channels, ~job'[c].live, ~job'[c].done PROVE JobInv(c)'
BY DEF JobInv

\* How many elements the thread has seen: all that moved but the one under way.
LEMMA SeenCounts ==
    ASSUME NEW c \in Channels, job \in [Channels -> JobType]
    PROVE  /\ ~Beating(c) => Seen(c) = job[c].moved
           /\ Beating(c) => Seen(c) = job[c].moved - 1
           /\ Seen(c) \in Int /\ job[c].moved \in Nat
BY DEF Seen, JobType

\* After power-up there is no job.
LEMMA JobsInitially == Init => JobsInv
<1>. SUFFICES ASSUME Init PROVE JobsInv
  OBVIOUS
<1>1. job = [c \in Channels |-> NoJob] /\ NoJob \in JobType /\ ~NoJob.live /\ ~NoJob.done
  BY DEF Init, NoJob, JobType
<1>. QED  BY <1>1 DEF JobsInv, JobInv

\* A step that leaves the job, its members and the beat of channel c alone.
LEMMA JobFrame ==
    ASSUME NEW c \in Channels, JobInv(c), job' = job,
           job[c].live =>
               /\ Beating(c)' <=> Beating(c)
               /\ SameMembers(ch[c], ch'[c])
               /\ ch[c].at = "trigger" /\ ~On(c, {"write"})' => regs'.sz[c] = ch[c].size
               /\ On(c, {"read"})' => proc'.from = ch[c].tSa
    PROVE  JobInv(c)'
<1>1. job[c].live => Seen(c)' = Seen(c)
  BY DEF Seen
<1>. QED  BY <1>1, JobKept

\* The update phase: accept reaches the thread of the channel, which waits for it.
LEMMA JobsDelta == ASSUME Types, HandshakeInv, JobsInv, DeltaCycle PROVE JobsInv'
<1>1. /\ sig' = nxt /\ run' = Triggered /\ run = {} /\ ch' = ch /\ proc' = proc
      /\ regs' = regs /\ job' = job
  BY DEF DeltaCycle
<1>2. ASSUME NEW c \in Channels, job[c].live PROVE Beating(c)' <=> Beating(c)
  <2>1. (<<"channel", c>> \in Triggered) <=> Woken(c)
    BY DEF Triggered, Processes
  <2>2. On(c, {"write"}) => nxt.accept[c]
    BY DEF HandshakeInv, ThreadInv
  <2>3. On(c, {"write"}) /\ ~sig.accept[c] => ch[c].at = "accept"
    <3>1. ch[c].at \in {"trigger", "accept", "pause"} /\ ch[c].enable
      BY <1>2 DEF Types, ChannelType, JobsInv, JobInv, Progress
    <3>2. ch[c].at = "pause" /\ On(c, {"write"}) => sig.accept[c]
      BY <1>1 DEF HandshakeInv, PauseInv, On
    <3>3. ch[c].at = "trigger" /\ On(c, {"write"}) => sig.accept[c]
      BY <3>1 DEF HandshakeInv, StaleInv
    <3>. QED  BY <3>1, <3>2, <3>3
  <2>4. Beating(c) <=> On(c, {"write"}) /\ ~sig.accept[c]
    BY <1>1 DEF Beating
  <2>5. Beating(c)' <=> On(c, {"write"}) /\ (<<"channel", c>> \in Triggered)
                        /\ ch[c].at = "accept"
    BY <1>1, <2>2 DEF Beating, On
  <2>6. ch[c].at = "accept" => (Woken(c) <=> nxt.accept[c] /\ ~sig.accept[c])
    BY DEF Woken, Posedge
  <2>. QED  BY <2>1, <2>2, <2>3, <2>4, <2>5, <2>6
<1>3. ASSUME NEW c \in Channels PROVE JobInv(c)'
  <2>1. JobInv(c) /\ SameMembers(ch[c], ch'[c])
    BY <1>1 DEF JobsInv, SameMembers
  <2>2. On(c, {"write"})' <=> On(c, {"write"})
    BY <1>1 DEF On
  <2>3. On(c, {"read"})' <=> On(c, {"read"})
    BY <1>1 DEF On
  <2>. QED  BY <1>1, <1>2, <2>1, <2>2, <2>3, JobFrame DEF JobInv
<1>. QED  BY <1>1, <1>3 DEF JobsInv

\* No element is under way when time passes.
LEMMA JobsTime == ASSUME Types, HandshakeInv, JobsInv, TimePasses PROVE JobsInv'
<1>1. PICK in \in [Triggers -> BOOLEAN], active \in BOOLEAN, pwrOn \in BOOLEAN,
           cpu \in SUBSET {<<"cpu", 0>>} : Cycle(in, active, pwrOn, cpu)
  BY DEF TimePasses
<1>2. /\ run = {} /\ nxt = sig /\ sig' = sig /\ run' = Resumed \cup cpu
      /\ regs' = regs /\ job' = job
  BY <1>1 DEF Cycle, Settled
<1>3. proc'.at = proc.at /\ proc'.channel = proc.channel /\ proc'.from = proc.from
  BY <1>1 DEF Cycle, Types, ProcTypes
<1>4. ASSUME NEW c \in Channels PROVE SameMembers(ch[c], ch'[c])
  <2>1. ch[c] \in ChannelType
    BY DEF Types
  <2>2. ch'[c] = [ch[c] EXCEPT !.pause = IF @ = 0 THEN 0 ELSE @ - 1]
    BY <1>1 DEF Cycle
  <2>. QED  BY <2>1, <2>2 DEF ChannelType, SameMembers
<1>5. ASSUME NEW c \in Channels PROVE ~Beating(c) /\ ~Beating(c)'
  <2>1. On(c, {"write"}) => sig.accept[c]
    BY <1>2 DEF HandshakeInv, ThreadInv
  <2>2. ch[c].at = "accept" => ch[c].pause = 0
    BY DEF HandshakeInv, ChannelInv
  <2>3. (<<"channel", c>> \in run') <=> ch[c].pause = 1
    BY <1>2 DEF Resumed
  <2>4. ch[c].at = "accept" => <<"channel", c>> \notin run'
    BY <2>2, <2>3
  <2>5. ch'[c].at = ch[c].at /\ (On(c, {"write"})' <=> On(c, {"write"}))
    BY <1>3, <1>4 DEF SameMembers, On
  <2>. QED  BY <1>2, <2>1, <2>4, <2>5 DEF Beating
<1>6. ASSUME NEW c \in Channels PROVE JobInv(c)'
  <2>1. JobInv(c)
    BY DEF JobsInv
  <2>2. On(c, {"write"})' <=> On(c, {"write"})
    BY <1>3 DEF On
  <2>3. On(c, {"read"})' <=> On(c, {"read"})
    BY <1>3 DEF On
  <2>. QED  BY <1>2, <1>3, <1>4, <1>5, <2>1, <2>2, <2>3, JobFrame DEF JobInv
<1>. QED  BY <1>2, <1>6 DEF JobsInv

\* The interrupt functions and a multiplexer touch no job; the reset aborts them all.
LEMMA JobsOthers ==
    ASSUME Types, JobsInv,
           ClearFlag \/ UpdateVector \/ IrqControl \/ Reset \/ \E c \in Channels : Mux(c)
    PROVE  JobsInv'
<1>1. /\ sig' = sig /\ proc' = proc
      /\ \A c \in Channels : (<<"channel", c>> \in run') <=> (<<"channel", c>> \in run)
  BY DEF ClearFlag, UpdateVector, IrqControl, Reset, Mux, Evaluate
<1>2. CASE ~Reset
  <2>1. job' = job /\ regs'.sz = regs.sz
    BY <1>2 DEF ClearFlag, UpdateVector, IrqControl, Mux, Types, RegTypes
  <2>2. ASSUME NEW c \in Channels PROVE SameMembers(ch[c], ch'[c])
    <3>1. CASE ClearFlag
      <4>. DEFINE m == Min(Flagged)
      <4>1. m \in Channels
        BY <3>1, LowestChannel DEF ClearFlag, Flagged
      <4>2. ch' = [ch EXCEPT ![m] = [ch[m] EXCEPT !.flag = FALSE]]
        BY <3>1 DEF ClearFlag
      <4>3. \A d \in Channels : ch[d] \in ChannelType
        BY DEF Types
      <4>. HIDE DEF m
      <4>. QED  BY <4>1, <4>2, <4>3 DEF Types, ChannelType, SameMembers
    <3>2. CASE ~ClearFlag
      BY <1>2, <3>2 DEF UpdateVector, IrqControl, Mux, SameMembers
    <3>. QED  BY <3>1, <3>2
  <2>3. ASSUME NEW c \in Channels
        PROVE  /\ On(c, {"write"})' <=> On(c, {"write"})
               /\ On(c, {"read"})' <=> On(c, {"read"})
               /\ Beating(c)' <=> Beating(c)
    <3>1. (On(c, {"write"})' <=> On(c, {"write"})) /\ (On(c, {"read"})' <=> On(c, {"read"}))
      BY <1>1 DEF On
    <3>2. ch'[c].at = ch[c].at
      BY <2>2 DEF SameMembers
    <3>. QED  BY <1>1, <3>1, <3>2 DEF Beating
  <2>4. ASSUME NEW c \in Channels PROVE JobInv(c)'
    <3>1. JobInv(c)
      BY DEF JobsInv
    <3>. QED  BY <1>1, <2>1, <2>2, <2>3, <3>1, JobFrame DEF JobInv
  <2>. QED  BY <2>1, <2>4 DEF JobsInv
<1>3. CASE Reset
  <2>1. job' = [c \in Channels |-> Aborted(job[c])]
    BY <1>3 DEF Reset
  <2>2. ASSUME NEW j \in JobType
        PROVE  Aborted(j) \in JobType /\ ~Aborted(j).live /\ ~Aborted(j).done
    BY DEF Aborted, JobType
  <2>3. ASSUME NEW c \in Channels PROVE JobInv(c)'
    <3>1. job[c] \in JobType /\ job'[c] = Aborted(job[c])
      BY <2>1 DEF JobsInv
    <3>. QED  BY <2>2, <3>1, JobAborted
  <2>. QED  BY <2>1, <2>2, <2>3 DEF JobsInv
<1>. QED  BY <1>2, <1>3

\* An access finds every channel waiting for a trigger with DMAxSZ up to date, so
\* rewriting its members changes nothing for a channel at work.
LEMMA JobsAddresses ==
    ASSUME Types, HandshakeInv, JobsInv, NEW r, Programmed(r), AccessAddresses(r)
    PROVE  JobsInv'
<1>1. /\ sig' = sig /\ proc' = proc /\ job' = job /\ regs' = r
  BY DEF AccessAddresses, Access
<1>2. proc.at \notin {"read", "write"} /\ \A c \in Channels : ch[c].at = "trigger"
  BY AccessAtRest DEF AccessAddresses
<1>3. ASSUME NEW c \in Channels
      PROVE  ~Beating(c) /\ ~Beating(c)' /\ ~On(c, {"write"}) /\ ~On(c, {"read"})'
  BY <1>1, <1>2 DEF Beating, On
<1>4. ASSUME NEW c \in Channels, job[c].live
      PROVE  SameMembers(ch[c], ch'[c]) /\ r.sz[c] = ch[c].size
  <2>1. ch[c].enable /\ regs.sz[c] = ch[c].size
    BY <1>2, <1>3, <1>4 DEF JobsInv, JobInv, Progress
  <2>2. r.sz[c] = ch[c].size /\ ch[c] \in ChannelType
    BY <2>1 DEF Programmed, Types
  <2>3. ch'[c] = [ch[c] EXCEPT !.sa = r.sa[c], !.da = r.da[c], !.size = r.sz[c],
                               !.tSize = IF ch[c].enable THEN @ ELSE r.sz[c]]
    BY DEF AccessAddresses, UpdateChannelAddresses
  <2>. QED  BY <2>1, <2>2, <2>3 DEF ChannelType, SameMembers
<1>5. ASSUME NEW c \in Channels PROVE JobInv(c)'
  <2>1. JobInv(c)
    BY DEF JobsInv
  <2>. QED  BY <1>1, <1>3, <1>4, <2>1, JobFrame
<1>. QED  BY <1>1, <1>5 DEF JobsInv

\* DMAxCTL: a channel that stays enabled keeps its configuration, one that is disabled
\* or enabled anew has no job.
LEMMA JobsWriteCTL ==
    ASSUME Types, HandshakeInv, JobsInv, NEW d \in Channels, NEW cfg \in Configs,
           NEW enable \in BOOLEAN, NEW request \in BOOLEAN,
           ch[d].enable => Configured(ch[d], cfg),
           WriteCTL(d, cfg, enable, request)
    PROVE  JobsInv'
<1>1. /\ sig' = sig /\ proc' = proc /\ regs'.sz = regs.sz
      /\ ch' = [ch EXCEPT ![d] = [ch[d] EXCEPT !.mode = cfg.mode, !.ie = cfg.ie,
                                    !.sInc = cfg.sInc, !.dInc = cfg.dInc, !.enable = enable]]
      /\ job' = IF enable /\ ch[d].enable THEN job ELSE [job EXCEPT ![d] = Aborted(job[d])]
  BY DEF WriteCTL, Access, Types, RegTypes
<1>2. proc.at \notin {"read", "write"} /\ \A c \in Channels : ch[c].at = "trigger"
  BY AccessAtRest DEF WriteCTL
<1>3. ASSUME NEW c \in Channels
      PROVE  ~Beating(c) /\ ~Beating(c)' /\ ~On(c, {"write"}) /\ ~On(c, {"read"})'
  BY <1>1, <1>2 DEF Beating, On
<1>4. ASSUME NEW j \in JobType
      PROVE  Aborted(j) \in JobType /\ ~Aborted(j).live /\ ~Aborted(j).done
  BY DEF Aborted, JobType
<1>5. ASSUME NEW c \in Channels, c # d \/ (enable /\ ch[d].enable)
      PROVE  SameMembers(ch[c], ch'[c]) /\ job'[c] = job[c]
  <2>1. job'[c] = job[c]
    BY <1>1, <1>5 DEF JobsInv
  <2>2. CASE c # d
    BY <1>1, <2>2 DEF Types, SameMembers
  <2>3. CASE c = d /\ enable /\ ch[d].enable
    <3>1. ch[c] \in ChannelType
      BY DEF Types
    <3>2. ch'[c] = [ch[c] EXCEPT !.mode = cfg.mode, !.ie = cfg.ie, !.sInc = cfg.sInc,
                                 !.dInc = cfg.dInc, !.enable = enable]
      BY <1>1, <2>3 DEF Types
    <3>3. /\ cfg.mode = ch[c].mode /\ cfg.sInc = ch[c].sInc /\ cfg.dInc = ch[c].dInc
          /\ enable = TRUE /\ ch[c].enable = TRUE
      BY <2>3, <3>1 DEF Configured, ChannelType
    <3>4. ASSUME NEW k \in ChannelType, NEW mode, NEW ie, NEW sInc, NEW dInc, NEW on
          PROVE  LET k2 == [k EXCEPT !.mode = mode, !.ie = ie, !.sInc = sInc, !.dInc = dInc,
                                     !.enable = on]
                 IN  /\ k2.enable = on /\ k2.mode = mode /\ k2.sInc = sInc /\ k2.dInc = dInc
                     /\ k2.case = k.case /\ k2.tSize = k.tSize /\ k2.size = k.size
                     /\ k2.at = k.at /\ k2.tSa = k.tSa /\ k2.tDa = k.tDa
      BY DEF ChannelType
    <3>5. /\ ch'[c].enable = enable /\ ch'[c].mode = cfg.mode
          /\ ch'[c].sInc = cfg.sInc /\ ch'[c].dInc = cfg.dInc
          /\ ch'[c].case = ch[c].case /\ ch'[c].tSize = ch[c].tSize
          /\ ch'[c].size = ch[c].size /\ ch'[c].at = ch[c].at
          /\ ch'[c].tSa = ch[c].tSa /\ ch'[c].tDa = ch[c].tDa
      BY <3>1, <3>2, <3>4
    <3>. QED  BY <2>1, <3>3, <3>5 DEF SameMembers
  <2>. QED  BY <1>5, <2>1, <2>2, <2>3
<1>6. ASSUME NEW c \in Channels PROVE JobInv(c)'
  <2>0. JobInv(c) /\ job[c] \in JobType
    BY DEF JobsInv
  <2>1. CASE c # d \/ (enable /\ ch[d].enable)
    <3>1. Seen(c)' = Seen(c)
      BY <1>3, <1>5, <2>1 DEF Seen
    <3>. QED  BY <1>1, <1>2, <1>3, <1>5, <2>0, <2>1, <3>1, JobKept DEF JobInv
  <2>2. CASE c = d /\ ~(enable /\ ch[d].enable)
    <3>1. job'[c] = Aborted(job[c])
      BY <1>1, <2>2 DEF JobsInv
    <3>. QED  BY <1>4, <2>0, <3>1, JobAborted
  <2>. QED  BY <2>1, <2>2
<1>7. job' \in [Channels -> JobType]
  BY <1>1, <1>4 DEF JobsInv
<1>. QED  BY <1>6, <1>7 DEF JobsInv

\* The software keeps the jobs in step.
LEMMA JobsSoftware == ASSUME Types, HandshakeInv, JobsInv, Software PROVE JobsInv'
<1>1. CASE ReadAddresses
  BY <1>1, JobsAddresses DEF ReadAddresses, Programmed, Types, RegTypes
<1>2. CASE WriteAddresses
  <2>1. PICK c \in Channels :
          /\ ~ch[c].enable
          /\ \/ \E a \in Addresses : AccessAddresses([regs EXCEPT !.sa[c] = a])
             \/ \E a \in Addresses : AccessAddresses([regs EXCEPT !.da[c] = a])
             \/ \E n \in Sizes : AccessAddresses([regs EXCEPT !.sz[c] = n])
    BY <1>2 DEF WriteAddresses
  <2>2. ASSUME NEW n \in Nat
        PROVE  /\ Programmed([regs EXCEPT !.sa[c] = n])
               /\ Programmed([regs EXCEPT !.da[c] = n])
               /\ Programmed([regs EXCEPT !.sz[c] = n])
    BY <2>1 DEF Programmed, Types, RegTypes
  <2>3. Addresses \subseteq Nat /\ Sizes \subseteq Nat
    BY DmaAssumption, SizesPositive
  <2>. QED  BY <2>1, <2>2, <2>3, JobsAddresses
<1>3. CASE Configure
  BY <1>3, JobsWriteCTL DEF Configure
<1>4. CASE CpuWaits \/ SelectTrigger \/ AccessIV
  <2>1. /\ sig' = sig /\ proc' = proc /\ ch' = ch /\ job' = job /\ regs'.sz = regs.sz
        /\ \A c \in Channels : (<<"channel", c>> \in run') <=> (<<"channel", c>> \in run)
    BY <1>4 DEF CpuWaits, SelectTrigger, AccessIV, Access, Evaluate, Types, RegTypes
  <2>2. ASSUME NEW c \in Channels
        PROVE  /\ On(c, {"write"})' <=> On(c, {"write"})
               /\ On(c, {"read"})' <=> On(c, {"read"})
    BY <2>1 DEF On
  <2>3. ASSUME NEW c \in Channels PROVE JobInv(c)'
    <3>1. JobInv(c) /\ (Beating(c)' <=> Beating(c)) /\ SameMembers(ch[c], ch'[c])
      BY <2>1, <2>2 DEF JobsInv, Beating, SameMembers
    <3>. QED  BY <2>1, <2>2, <3>1, JobFrame DEF JobInv
  <2>. QED  BY <2>1, <2>3 DEF JobsInv
<1>. QED  BY <1>1, <1>2, <1>3, <1>4 DEF Software

\* The bus thread moves the elements: one is under way from the write until its channel
\* has seen accept, and DMAxSZ follows the channel once the write is over.
LEMMA JobsProcess ==
    ASSUME Types, HandshakeInv, JobsInv,
           ProcessScan \/ ProcessSynced \/ ProcessWrite \/ ProcessWritten
    PROVE  JobsInv'
<1>. DEFINE p == proc.channel
<1>0. /\ p \in Channels /\ proc.time = 0 /\ ThreadStep
      /\ sig' = sig /\ ch' = ch
  BY ThreadSteps DEF Types, ProcTypes, ThreadStep
<1>1. ASSUME NEW c \in Channels PROVE ~Beating(c) /\ SameMembers(ch[c], ch'[c])
  <2>1. On(c, {"write"}) => sig.accept[c]
    BY <1>0 DEF HandshakeInv, ThreadInv
  <2>. QED  BY <1>0, <2>1, BeatsCounted DEF Beating, SameMembers
<1>2. ASSUME proc'.at # "write", job' = job,
             \A c \in Channels :
                \/ regs'.sz[c] = regs.sz[c] /\ ~On(c, {"write"})
                \/ regs'.sz[c] = ch[c].size,
             \A c \in Channels : On(c, {"read"})' => proc'.from = ch[c].tSa
      PROVE  JobsInv'
  <2>1. ASSUME NEW c \in Channels PROVE JobInv(c)'
    <3>1. JobInv(c) /\ ~Beating(c)'
      BY <1>2 DEF JobsInv, Beating, On
    <3>2. job[c].live /\ ch[c].at = "trigger" => regs'.sz[c] = ch[c].size
      BY <1>2, <3>1 DEF JobInv
    <3>. QED  BY <1>1, <1>2, <3>1, <3>2, JobFrame
  <2>. QED  BY <1>2, <2>1 DEF JobsInv
<1>3. Scanned.proc.at \in {"idle", "sync"}
  BY DEF Scanned, Types, ProcTypes
<1>4. ASSUME ReadNext(p)
      PROVE  /\ proc'.at = "read"
             /\ \A c \in Channels : On(c, {"read"})' => proc'.from = ch[c].tSa
  BY <1>4 DEF ReadNext, On, Types, ProcTypes
<1>5. CASE ProcessScan
  <2>1. /\ proc'.at \in {"idle", "sync"} /\ job' = job /\ regs' = regs
        /\ \A c \in Channels : ~On(c, {"write"}) /\ ~On(c, {"read"})'
    BY <1>3, <1>5 DEF ProcessScan, On
  <2>. QED  BY <1>2, <2>1
<1>6. CASE ProcessSynced
  <2>1. job' = job /\ regs' = regs /\ \A c \in Channels : ~On(c, {"write"})
    BY <1>6 DEF ProcessSynced, On
  <2>2. ReadNext(p)
    BY <1>6 DEF ProcessSynced
  <2>. QED  BY <1>2, <1>4, <2>1, <2>2
<1>7. CASE ProcessWritten
  <2>1. proc'.at # "write" /\ \A c \in Channels : On(c, {"read"})' => proc'.from = ch[c].tSa
    <3>1. CASE ReadNext(p)
      BY <1>4, <3>1
    <3>2. CASE Leave(p)
      BY <1>3, <3>2 DEF Leave, On
    <3>. QED  BY <1>7, <3>1, <3>2 DEF ProcessWritten
  <2>2. job' = job /\ regs'.sz = [regs.sz EXCEPT ![p] = ch[p].size]
    <3>1. regs' = [regs EXCEPT !.sz[p] = ch[p].size,
                               !.en[p] = @ /\ (sig.pending[p] \/ ch[p].enable)]
      BY <1>7 DEF ProcessWritten
    <3>2. ASSUME NEW n, NEW b
          PROVE  [regs EXCEPT !.sz[p] = n, !.en[p] = b].sz = [regs.sz EXCEPT ![p] = n]
      BY DEF Types, RegTypes
    <3>3. job' = job
      BY <1>7 DEF ProcessWritten
    <3>. QED  BY <3>1, <3>2, <3>3
  <2>3. ASSUME NEW c \in Channels
        PROVE  \/ regs'.sz[c] = regs.sz[c] /\ ~On(c, {"write"})
               \/ regs'.sz[c] = ch[c].size
    BY <1>0, <2>2 DEF On, Types, RegTypes
  <2>. QED  BY <1>2, <2>1, <2>2, <2>3
<1>8. CASE ProcessWrite
  <2>1. /\ proc.at = "read" /\ proc'.at = "write" /\ proc'.channel = p
        /\ regs' = regs /\ ~sig.accept[p]
    BY <1>0, <1>8 DEF ProcessWrite, Types, ProcTypes, HandshakeInv, ThreadInv, On
  <2>2. job' = IF job[p].live
               THEN [job EXCEPT ![p] = [job[p] EXCEPT !.moved = job[p].moved + 1]] ELSE job
    BY <1>8 DEF ProcessWrite
  <2>3. ASSUME NEW j \in JobType
        PROVE  LET j2 == [j EXCEPT !.moved = j.moved + 1]
               IN  /\ j2 \in JobType /\ j2.live = j.live /\ j2.done = j.done
                   /\ j2.n = j.n /\ j2.src = j.src /\ j2.dst = j.dst
                   /\ j2.moved = j.moved + 1
    BY DEF JobType
  <2>4. job' \in [Channels -> JobType]
    BY <1>0, <2>2, <2>3 DEF JobsInv
  <2>5. ASSUME NEW c \in Channels PROVE JobInv(c)'
    <3>0. JobInv(c) /\ job[c] \in JobType /\ Seen(c) = job[c].moved
      BY <1>1, SeenCounts DEF JobsInv
    <3>1. CASE c # p
      <4>1. ~On(c, {"read"})' /\ ~On(c, {"write"}) /\ job'[c] = job[c] /\ ~Beating(c)'
        BY <1>0, <2>1, <2>2, <3>1 DEF On, JobsInv, Beating
      <4>2. Seen(c)' = Seen(c)
        BY <1>1, <4>1 DEF Seen
      <4>3. job[c].live /\ ch[c].at = "trigger" => regs'.sz[c] = ch[c].size
        BY <2>1, <3>0, <4>1 DEF JobInv
      <4>. QED  BY <1>1, <3>0, <4>1, <4>2, <4>3, JobKept
    <3>2. CASE c = p
      <4>1. ~On(c, {"read"})' /\ On(c, {"write"})' /\ Beating(c)'
        BY <1>0, <2>1, <3>2 DEF On, Beating
      <4>2. CASE job[c].live
        <5>1. job'[c] = [job[c] EXCEPT !.moved = job[c].moved + 1]
          BY <1>0, <2>2, <3>2, <4>2 DEF JobsInv
        <5>2. /\ job'[c].live = job[c].live /\ job'[c].done = job[c].done
              /\ job'[c].n = job[c].n /\ job'[c].src = job[c].src
              /\ job'[c].dst = job[c].dst /\ job'[c].moved = job[c].moved + 1
          BY <2>3, <3>0, <5>1
        <5>3. Seen(c)' = job'[c].moved - 1
          BY <4>1 DEF Seen
        <5>4. Seen(c)' = Seen(c)
          <6>1. job[c].moved \in Nat
            BY <3>0 DEF JobType
          <6>. QED  BY <3>0, <5>2, <5>3, <6>1
        <5>5. ~job[c].done
          BY <3>0, <4>2 DEF JobInv
        <5>. QED  BY <1>1, <3>0, <4>1, <5>2, <5>4, <5>5, JobKept
      <4>3. CASE ~job[c].live
        <5>1. job'[c] = job[c]
          BY <2>2, <3>2, <4>3
        <5>. QED  BY <3>0, <4>3, <5>1, JobKept
      <4>. QED  BY <4>2, <4>3
    <3>. QED  BY <3>1, <3>2
  <2>. QED  BY <2>4, <2>5 DEF JobsInv
<1>. QED  BY <1>5, <1>6, <1>7, <1>8

\* A channel's thread touches the job of its own channel only.
LEMMA OtherJobs ==
    ASSUME JobsInv, NEW c \in Channels, ChannelMoves(c), NEW d \in Channels \ {c},
           job'[d] = job[d]
    PROVE  JobInv(d)'
<1>1. /\ On(d, {"write"})' <=> On(d, {"write"})
      /\ On(d, {"read"})' <=> On(d, {"read"})
  BY DEF ChannelMoves, On
<1>2. ch'[d] = ch[d] /\ regs' = regs /\ proc' = proc
  BY DEF ChannelMoves
<1>3. Beating(d)' <=> Beating(d)
  BY <1>1 DEF ChannelMoves, Beating
<1>4. SameMembers(ch[d], ch'[d]) /\ JobInv(d)
  BY <1>2 DEF SameMembers, JobsInv
<1>5. Seen(d)' = Seen(d)
  BY <1>3 DEF Seen
<1>. QED  BY <1>1, <1>2, <1>4, <1>5, JobKept DEF JobInv

\* A new job has moved nothing and starts at the addresses of its channel.
LEMMA NewJobs ==
    ASSUME NEW k \in ChannelType
    PROVE  /\ NewJob(k) \in JobType /\ NewJob(k).live /\ ~NewJob(k).done
           /\ NewJob(k).moved = 0 /\ NewJob(k).n = k.tSize
           /\ NewJob(k).src = k.sa /\ NewJob(k).dst = k.da
BY DEF NewJob, JobType, ChannelType

\* A trigger starts a job, or the next element of a single-transfer job.
LEMMA JobsTrigger ==
    ASSUME Types, HandshakeInv, JobsInv, NEW c \in Channels, ChannelTrigger(c)
    PROVE  JobsInv'
<1>. DEFINE k == ch[c]
<1>0. ChannelMoves(c) /\ k \in ChannelType
  BY HandshakeChannel DEF Types
<1>1. /\ k.at = "trigger" /\ Evaluate("channel", c)
      /\ ChannelBecomes(c, IF k.enable THEN Start(k) ELSE k)
      /\ job' = IF k.enable /\ LoadsAddresses(k) THEN [job EXCEPT ![c] = NewJob(k)] ELSE job
  BY DEF ChannelTrigger
<1>2. ch'[c] = IF k.enable THEN Start(k) ELSE k
  BY <1>1, ChannelMovesOnly
<1>3. job' \in [Channels -> JobType] /\ \A d \in Channels \ {c} : job'[d] = job[d]
  BY <1>0, <1>1, NewJobs DEF JobsInv
<1>4. JobInv(c) /\ job[c] \in JobType
  BY DEF JobsInv
<1>5. JobInv(c)'
  <2>1. CASE ~k.enable
    <3>1. job'[c] = job[c] /\ ~job[c].live
      BY <1>1, <1>4, <2>1 DEF JobInv, Progress
    <3>. QED  BY <1>4, <3>1 DEF JobInv
  <2>2. CASE k.enable
    <3>1. ~On(c, {"read"}) /\ ~Beating(c) /\ (On(c, {"write"}) => sig.accept[c])
      BY <1>1, <2>2 DEF HandshakeInv, StaleInv, Beating
    <3>2. ch'[c] = Start(k) /\ ch'[c].at = "accept"
      BY <1>0, <1>2, <2>2, StartFields
    <3>3. ~On(c, {"read"})' /\ ~Beating(c)'
      BY <1>0, <3>1 DEF ChannelMoves, On, Beating
    <3>4. CASE LoadsAddresses(k)
      <4>1. job'[c] = NewJob(k)
        BY <1>1, <2>2, <3>4 DEF JobsInv
      <4>2. Seen(c)' = 0
        BY <1>0, <3>3, <4>1, NewJobs DEF Seen
      <4>3. /\ k.sa \in Int /\ k.da \in Int /\ k.sInc \in -1..1 /\ k.dInc \in -1..1
            /\ k.tSize \in Nat
        BY <1>0 DEF ChannelType
      <4>4. /\ ch'[c].tSa = AddressOf(k.sa, 0, ch'[c].sInc)
            /\ ch'[c].tDa = AddressOf(k.da, 0, ch'[c].dInc)
        BY <1>0, <3>2, <3>4, <4>3, StartFields, AddressSteps
      <4>5. ch'[c].size = k.tSize /\ ch'[c].tSize = k.tSize
            /\ ch'[c].enable /\ ch'[c].mode = ch'[c].case
        BY <1>0, <2>2, <3>2, <3>4, StartFields DEF LoadsAddresses
      <4>6. Progress(job'[c], ch'[c], 0)
        BY <1>0, <3>2, <4>1, <4>3, <4>4, <4>5, NewJobs DEF Progress
      <4>. QED  BY <1>0, <3>2, <3>3, <4>1, <4>2, <4>6, NewJobs DEF JobInv
    <3>5. CASE ~LoadsAddresses(k)
      <4>1. job'[c] = job[c] /\ k.mode \in Singles
        BY <1>1, <3>5 DEF LoadsAddresses
      <4>2. Seen(c)' = Seen(c)
        BY <3>1, <3>3, <4>1 DEF Seen
      <4>3. CASE job[c].live
        <5>1. Progress(job[c], k, Seen(c))
          BY <1>4, <4>3 DEF JobInv
        <5>2. /\ ch'[c].enable /\ ch'[c].mode = ch'[c].case /\ ch'[c].case = k.case
              /\ ch'[c].tSize = k.tSize /\ ch'[c].size = k.size
              /\ ch'[c].tSa = k.tSa /\ ch'[c].tDa = k.tDa
              /\ ch'[c].sInc = k.sInc /\ ch'[c].dInc = k.dInc
          BY <1>0, <2>2, <3>2, <3>5, <4>1, <5>1, StartFields DEF Progress
        <5>3. Progress(job[c], ch'[c], Seen(c))
          BY <1>1, <3>2, <5>1, <5>2 DEF Progress
        <5>. QED  BY <1>4, <3>2, <3>3, <4>1, <4>2, <5>3 DEF JobInv
      <4>4. CASE ~job[c].live
        BY <1>4, <4>1, <4>4 DEF JobInv
      <4>. QED  BY <4>3, <4>4
    <3>. QED  BY <3>4, <3>5
  <2>. QED  BY <2>1, <2>2
<1>. QED  BY <1>0, <1>3, <1>5, OtherJobs DEF JobsInv

\* What the end of a block does to its job.
LEMMA JobAfterBeatType ==
    ASSUME Types, JobsInv, NEW c \in Channels, job' = JobAfterBeat(c)
    PROVE  /\ job' \in [Channels -> JobType]
           /\ \A d \in Channels \ {c} : job'[d] = job[d]
           /\ ~LastBeat(ch[c]) => job'[c] = job[c]
           /\ LastBeat(ch[c]) =>
                job'[c] = IF /\ ch[c].case = "RepeatedBurstBlock"
                             /\ job[c].live /\ job[c].moved = job[c].n
                          THEN NewJob(ch[c])
                          ELSE [job[c] EXCEPT !.live = FALSE, !.done = job[c].live]
<1>1. job \in [Channels -> JobType] /\ ch[c] \in ChannelType
  BY DEF JobsInv, Types
<1>2. NewJob(ch[c]) \in JobType
  BY <1>1, NewJobs
<1>3. [job[c] EXCEPT !.live = FALSE, !.done = job[c].live] \in JobType
  BY <1>1 DEF JobType
<1>. QED  BY <1>1, <1>2, <1>3 DEF JobAfterBeat

\* A channel k whose thread has seen an element accepted, before it counts it.
Accepted(j, k, seen) ==
    /\ k.enable /\ k.mode = k.case /\ j.n = k.tSize
    /\ k.case # "RepeatedBlock" => seen + k.size = j.n + 1
    /\ k.tSa = AddressOf(j.src, seen, k.sInc)
    /\ k.tDa = AddressOf(j.dst, seen, k.dInc)

\* Counting the element: the last one ends the block exactly when all have moved.
LEMMA CountsElement ==
    ASSUME NEW k \in ChannelType, NEW j \in JobType, NEW seen \in Int,
           Accepted(j, k, seen), k.size >= 1
    PROVE  /\ ~LastBeat(k) => Progress(j, AfterBeat(k), seen)
           /\ LastBeat(k) => seen = j.n
<1>0. k.size \in Nat /\ k.tSize \in Nat /\ j.n \in Nat
  BY DEF ChannelType, JobType
<1>1. ASSUME ~LastBeat(k) PROVE Progress(j, AfterBeat(k), seen)
  <2>. DEFINE a == AfterBeat(k)
  <2>1. /\ a.at # "pause" /\ a.case = k.case /\ a.mode = k.mode /\ a.enable = k.enable
        /\ a.tSize = k.tSize /\ a.sInc = k.sInc /\ a.dInc = k.dInc
        /\ a.tSa = k.tSa /\ a.tDa = k.tDa
        /\ k.case # "RepeatedBlock" => a.size = k.size - 1
    BY <1>1, NextBeatFields
  <2>. HIDE DEF a
  <2>2. k.case # "RepeatedBlock" => seen + a.size = j.n
    BY <1>0, <2>1 DEF Accepted
  <2>3. Progress(j, a, seen)
    BY <1>0, <2>1, <2>2 DEF Accepted, Progress
  <2>. QED  BY <2>3 DEF a
<1>2. ASSUME LastBeat(k) PROVE seen = j.n
  <2>1. CASE k.case = "RepeatedBlock"
    BY <1>2, <2>1 DEF LastBeat, Singles, Accepted
  <2>2. CASE k.case # "RepeatedBlock"
    <3>1. k.size = 1
      <4>1. CASE k.case \in Singles
        <5>1. k.size <= 1
          BY <1>2, <2>2, <4>1 DEF LastBeat, Singles
        <5>. QED  BY <1>0, <5>1
      <4>2. CASE k.case \notin Singles
        BY <1>2, <2>2, <4>2 DEF LastBeat, Accepted
      <4>. QED  BY <4>1, <4>2
    <3>. QED  BY <1>0, <2>2, <3>1 DEF Accepted
  <2>. QED  BY <2>1, <2>2
<1>. QED  BY <1>1, <1>2

\* A channel that sees accept: its element has moved.
LEMMA SeesAccept ==
    ASSUME Types, HandshakeInv, JobsInv, NEW c \in Channels, job[c].live,
           <<"channel", c>> \in run, ch[c].at = "accept"
    PROVE  Accepted(job[c], UpdateAddresses(ch[c]), job[c].moved)
<1>. DEFINE k == ch[c]
            j == job[c]
            u == UpdateAddresses(k)
<1>0. k \in ChannelType /\ j \in JobType /\ Progress(j, k, Seen(c))
  BY DEF Types, JobsInv, JobInv
<1>1. On(c, {"write"}) /\ Beating(c)
  BY DEF HandshakeInv, ChannelInv, Beating
<1>2. Seen(c) \in Int /\ j.moved = Seen(c) + 1
  BY <1>1, SeenCounts DEF JobsInv
<1>3. /\ k.sInc \in -1..1 /\ k.dInc \in -1..1 /\ j.src \in Int /\ j.dst \in Int
      /\ k.size \in Nat /\ j.n \in Nat
  BY <1>0 DEF ChannelType, JobType
<1>4. /\ u.case = k.case /\ u.mode = k.mode /\ u.enable = k.enable /\ u.size = k.size
      /\ u.tSize = k.tSize /\ u.sInc = k.sInc /\ u.dInc = k.dInc
      /\ u.tSa = k.tSa + k.sInc /\ u.tDa = k.tDa + k.dInc
  BY <1>0, AdvanceFields
<1>. HIDE DEF u, k, j
<1>5. /\ u.tSa = AddressOf(j.src, j.moved, u.sInc)
      /\ u.tDa = AddressOf(j.dst, j.moved, u.dInc)
  <2>1. /\ AddressOf(j.src, Seen(c) + 1, k.sInc) = AddressOf(j.src, Seen(c), k.sInc) + k.sInc
        /\ AddressOf(j.dst, Seen(c) + 1, k.dInc) = AddressOf(j.dst, Seen(c), k.dInc) + k.dInc
    BY <1>2, <1>3, AddressSteps
  <2>2. /\ k.tSa = AddressOf(j.src, Seen(c), k.sInc)
        /\ k.tDa = AddressOf(j.dst, Seen(c), k.dInc)
    BY <1>0 DEF Progress
  <2>. QED  BY <1>2, <1>4, <2>1, <2>2
<1>6. k.case # "RepeatedBlock" => j.moved + k.size = j.n + 1
  <2>1. k.at = "accept"
    BY DEF k
  <2>2. k.case # "RepeatedBlock" => Seen(c) + k.size = j.n
    BY <1>0, <1>3, <2>1 DEF Progress
  <2>. QED  BY <1>2, <1>3, <2>2
<1>7. Accepted(j, u, j.moved)
  BY <1>0, <1>4, <1>5, <1>6 DEF Progress, Accepted
<1>. QED  BY <1>7 DEF j, k, u

\* The end of a job: it has moved its block, and only a repeated burst starts the next.
LEMMA JobEnds ==
    ASSUME Types, JobsInv, NEW c \in Channels, LastBeat(ch[c]), job' = JobAfterBeat(c),
           job[c].live => job[c].moved = job[c].n /\ ch[c].enable /\ ch[c].mode = ch[c].case,
           ~Beating(c)', ~On(c, {"read"})', NEW k \in ChannelType, LastBeat(k),
           ch'[c] = AfterBeat(k),
           k.case = ch[c].case, k.mode = ch[c].mode, k.enable = ch[c].enable,
           k.tSize = ch[c].tSize, k.sa = ch[c].sa, k.da = ch[c].da
    PROVE  JobInv(c)'
<1>0. ch[c] \in ChannelType /\ job[c] \in JobType
  BY DEF Types, JobsInv
<1>1. CASE ch[c].case = "RepeatedBurstBlock" /\ job[c].live /\ job[c].moved = job[c].n
  <2>1. job'[c] = NewJob(ch[c])
    BY <1>1, JobAfterBeatType
  <2>2. Seen(c)' = 0
    BY <1>0, <2>1, NewJobs DEF Seen
  <2>3. /\ ch'[c].at = "accept" /\ ch'[c].case = ch[c].case /\ ch'[c].mode = ch[c].mode
        /\ ch'[c].enable /\ ch'[c].tSize = ch[c].tSize /\ ch'[c].size = ch[c].tSize
        /\ ch'[c].tSa = ch[c].sa /\ ch'[c].tDa = ch[c].da
        /\ ch'[c].sInc = k.sInc /\ ch'[c].dInc = k.dInc
    BY <1>1, LastBeatFields
  <2>4. k.sInc \in -1..1 /\ k.dInc \in -1..1 /\ ch[c].sa \in Int /\ ch[c].da \in Int
        /\ ch[c].tSize \in Nat
    BY <1>0 DEF ChannelType
  <2>5. /\ ch'[c].tSa = AddressOf(ch[c].sa, 0, ch'[c].sInc)
        /\ ch'[c].tDa = AddressOf(ch[c].da, 0, ch'[c].dInc)
    BY <2>3, <2>4, AddressSteps
  <2>6. Progress(job'[c], ch'[c], 0)
    BY <1>0, <1>1, <2>1, <2>3, <2>4, <2>5, NewJobs DEF Progress
  <2>. QED  BY <1>0, <2>1, <2>2, <2>3, <2>6, NewJobs DEF JobInv
<1>2. CASE ~(ch[c].case = "RepeatedBurstBlock" /\ job[c].live /\ job[c].moved = job[c].n)
  <2>1. job'[c] = [job[c] EXCEPT !.live = FALSE, !.done = job[c].live]
    BY <1>2, JobAfterBeatType
  <2>2. /\ ~job'[c].live /\ (job'[c].done <=> job[c].live)
        /\ job'[c].moved = job[c].moved /\ job'[c].n = job[c].n
    BY <1>0, <2>1 DEF JobType
  <2>. QED  BY <2>2 DEF JobInv
<1>. QED  BY <1>1, <1>2

\* The thread of a channel sees accept.
LEMMA JobsAccept ==
    ASSUME Types, HandshakeInv, JobsInv, NEW c \in Channels, ChannelAccept(c)
    PROVE  JobsInv'
<1>. DEFINE k == ch[c]
            u == UpdateAddresses(k)
            p == [u EXCEPT !.at = "pause", !.pause = 2]
<1>0. /\ ChannelMoves(c) /\ k \in ChannelType /\ Sound(k, regs.sz[c])
      /\ JobInv(c) /\ job[c] \in JobType
  BY HandshakeChannel DEF Types, JobsInv
<1>1. k.at = "accept" /\ Evaluate("channel", c) /\ <<"channel", c>> \in run
  BY DEF ChannelAccept, Evaluate
<1>2. On(c, {"write"}) /\ sig.accept[c]
  BY <1>1 DEF HandshakeInv, ChannelInv
<1>3. ~Beating(c)' /\ On(c, {"write"})' /\ ~On(c, {"read"})'
  BY <1>0, <1>2 DEF ChannelMoves, Beating, On
<1>4. job[c].live => Accepted(job[c], u, job[c].moved)
  BY <1>1, SeesAccept
<1>5. /\ u \in ChannelType /\ u.case = k.case /\ u.mode = k.mode /\ u.enable = k.enable
      /\ u.size = k.size /\ u.tSize = k.tSize /\ u.sa = k.sa /\ u.da = k.da
      /\ u.at = "accept"
  BY <1>0, <1>1, AdvanceFields
<1>6. LastBeat(u) <=> LastBeat(k)
  BY <1>5 DEF LastBeat
<1>7. job[c].live => k.enable /\ k.size >= 1
  BY <1>0 DEF JobInv, Progress, Sound
<1>8. job[c].moved \in Int /\ (job'[c] = job[c] => Seen(c)' = job[c].moved)
  BY <1>0, <1>3 DEF Seen, JobType
<1>9. CASE Pauses(u)
  <2>1. ChannelBecomes(c, p) /\ job' = job
    BY <1>9 DEF ChannelAccept
  <2>2. ch'[c] = p
    BY <1>1, <2>1, ChannelMovesOnly
  <2>3. /\ p.at = "pause" /\ p.case = u.case /\ p.mode = u.mode /\ p.enable = u.enable
        /\ p.size = u.size /\ p.tSize = u.tSize /\ p.sInc = u.sInc /\ p.dInc = u.dInc
        /\ p.tSa = u.tSa /\ p.tDa = u.tDa
    <3>1. ASSUME NEW q \in ChannelType, NEW at, NEW pause
          PROVE  LET r == [q EXCEPT !.at = at, !.pause = pause]
                 IN  /\ r.at = at /\ r.case = q.case /\ r.mode = q.mode
                     /\ r.enable = q.enable /\ r.size = q.size /\ r.tSize = q.tSize
                     /\ r.sInc = q.sInc /\ r.dInc = q.dInc
                     /\ r.tSa = q.tSa /\ r.tDa = q.tDa
      BY DEF ChannelType
    <3>. HIDE DEF u
    <3>. QED  BY <1>5, <3>1
  <2>. HIDE DEF p, u, k
  <2>4. job[c].live => Progress(job[c], p, job[c].moved)
    BY <1>4, <2>3 DEF Accepted, Progress
  <2>5. JobInv(c)'
    BY <1>0, <1>3, <1>8, <2>1, <2>2, <2>4 DEF JobInv
  <2>. QED  BY <1>0, <2>1, <2>5, OtherJobs DEF JobsInv
<1>10. CASE ~Pauses(u)
  <2>1. ChannelBecomes(c, AfterBeat(u)) /\ job' = JobAfterBeat(c)
    BY <1>10 DEF ChannelAccept
  <2>2. ch'[c] = AfterBeat(u)
    BY <1>1, <2>1, ChannelMovesOnly
  <2>3. JobInv(c)'
    <3>1. CASE LastBeat(u)
      <4>1. job[c].live => job[c].moved = job[c].n /\ k.mode = k.case
        BY <1>0, <1>4, <1>5, <1>7, <1>8, <3>1, CountsElement DEF Accepted
      <4>. HIDE DEF u
      <4>. QED  BY <1>3, <1>5, <1>6, <1>7, <2>1, <2>2, <3>1, <4>1, JobEnds
    <3>2. CASE ~LastBeat(u)
      <4>1. job'[c] = job[c]
        BY <1>6, <2>1, <3>2, JobAfterBeatType
      <4>2. job[c].live => Progress(job[c], ch'[c], job[c].moved)
        BY <1>0, <1>4, <1>5, <1>7, <1>8, <2>2, <3>2, CountsElement
      <4>. QED  BY <1>0, <1>3, <1>8, <4>1, <4>2 DEF JobInv
    <3>. QED  BY <3>1, <3>2
  <2>. QED  BY <1>0, <2>1, <2>3, JobAfterBeatType, OtherJobs DEF JobsInv
<1>. QED  BY <1>9, <1>10

\* The pause of a burst is over: it is not at its last element.
LEMMA JobsResume ==
    ASSUME Types, HandshakeInv, JobsInv, NEW c \in Channels, ChannelResume(c)
    PROVE  JobsInv'
<1>. DEFINE k == ch[c]
            a == AfterBeat(k)
<1>0. /\ ChannelMoves(c) /\ k \in ChannelType /\ JobInv(c) /\ job[c] \in JobType
  BY HandshakeChannel DEF Types, JobsInv
<1>1. /\ k.at = "pause" /\ Evaluate("channel", c)
      /\ ChannelBecomes(c, a) /\ job' = JobAfterBeat(c)
  BY DEF ChannelResume
<1>2. ch'[c] = a
  BY <1>1, ChannelMovesOnly
<1>3. k.case \in Bursts /\ (k.enable => k.size >= 2) /\ k.size \in Nat
  BY <1>0, <1>1 DEF HandshakeInv, PauseInv, ChannelType
<1>4. k.enable => ~LastBeat(k)
  BY <1>3 DEF LastBeat, Bursts, Singles
<1>5. /\ On(c, {"write"})' <=> On(c, {"write"})
      /\ On(c, {"read"})' <=> On(c, {"read"})
  BY <1>0 DEF ChannelMoves, On
<1>6. CASE job[c].live
  <2>1. Progress(job[c], k, Seen(c)) /\ (On(c, {"read"}) => proc.from = k.tSa)
    BY <1>0, <1>6 DEF JobInv
  <2>2. ~LastBeat(k) /\ k.size >= 1 /\ Accepted(job[c], k, Seen(c)) /\ Seen(c) \in Int
    BY <1>1, <1>3, <1>4, <2>1, SeenCounts DEF Progress, Accepted, JobsInv
  <2>3. Progress(job[c], a, Seen(c)) /\ a.tSa = k.tSa /\ a.at = "accept"
    BY <1>0, <1>3, <2>2, CountsElement, NextBeatFields DEF Bursts, Singles
  <2>4. job'[c] = job[c]
    BY <1>1, <2>2, JobAfterBeatType
  <2>5. Beating(c)' <=> Beating(c)
    BY <1>0, <1>1, <1>5 DEF Beating, ChannelMoves
  <2>6. Seen(c)' = Seen(c)
    BY <2>4, <2>5 DEF Seen
  <2>7. JobInv(c)'
    <3>. HIDE DEF k, a
    <3>1. proc'.from = proc.from
      BY <1>0 DEF ChannelMoves
    <3>. QED  BY <1>0, <1>2, <1>5, <1>6, <2>1, <2>3, <2>4, <2>6, <3>1 DEF JobInv
  <2>. QED  BY <1>0, <1>1, <2>7, JobAfterBeatType, OtherJobs DEF JobsInv
<1>7. CASE ~job[c].live
  <2>1. ~job'[c].live /\ (job'[c].done => job'[c] = job[c])
    <3>1. CASE LastBeat(k)
      <4>1. job'[c] = [job[c] EXCEPT !.live = FALSE, !.done = job[c].live]
        BY <1>1, <1>7, <3>1, JobAfterBeatType
      <4>. QED  BY <1>0, <1>7, <4>1 DEF JobType
    <3>2. CASE ~LastBeat(k)
      BY <1>1, <1>7, <3>2, JobAfterBeatType
    <3>. QED  BY <3>1, <3>2
  <2>2. JobInv(c)'
    BY <1>0, <2>1 DEF JobInv
  <2>. QED  BY <1>0, <1>1, <2>2, JobAfterBeatType, OtherJobs DEF JobsInv
<1>. QED  BY <1>6, <1>7

\* The jobs are inductive, together with the types and the handshake.
LEMMA JobsStep == ASSUME Types, HandshakeInv, JobsInv, [Next]_vars PROVE JobsInv'
<1>1. CASE UNCHANGED vars
  <2>1. UNCHANGED <<sig, run, regs, ch, proc, job>>
    BY <1>1 DEF vars, kernelVars
  <2>. QED  BY <2>1 DEF JobsInv, JobInv, Seen, Beating, On
<1>2. CASE Next
  BY <1>2, JobsDelta, JobsTime, JobsSoftware, JobsProcess, JobsOthers, JobsTrigger,
     JobsAccept, JobsResume DEF Next, ControllerStep, ChannelStep
<1>. QED  BY <1>1, <1>2

\* The three invariants of every behaviour.
LEMMA JobsInvariant == Spec => [](Types /\ HandshakeInv /\ JobsInv)
<1>1. Init => HandshakeInv /\ JobsInv
  BY HandshakeInitially, JobsInitially
<1>2. Types /\ HandshakeInv /\ JobsInv /\ [Next]_vars => HandshakeInv' /\ JobsInv'
  BY HandshakeStep, JobsStep
<1>. QED  BY <1>1, <1>2, TypesInvariant, PTL DEF Spec

\* In every behaviour a job that is reported as done has moved every element of its
\* block exactly once, and no job moves more (DmaChannel::process).
THEOREM WholeBlocks == Spec => []WholeBlock
<1>1. ASSUME Types, HandshakeInv, JobsInv PROVE WholeBlock
  <2>1. SUFFICES ASSUME NEW c \in Channels
                 PROVE  /\ job[c].done => job[c].moved = job[c].n
                        /\ job[c].live /\ ch[c].case # "RepeatedBlock"
                               => job[c].moved <= job[c].n
    BY DEF WholeBlock
  <2>2. JobInv(c)
    BY <1>1 DEF JobsInv
  <2>3. ASSUME job[c].live, ch[c].case # "RepeatedBlock" PROVE job[c].moved <= job[c].n
    <3>1. Progress(job[c], ch[c], Seen(c))
      BY <2>2, <2>3 DEF JobInv
    <3>2. /\ ch[c].at = "pause" => ch[c].size >= 2
          /\ ch[c].size >= 1 /\ ch[c].size \in Nat
      BY <1>1, <3>1 DEF Types, Sound, ChannelType, HandshakeInv, PauseInv, Progress
    <3>3. job[c].moved \in Nat /\ job[c].n \in Nat /\ job[c].moved <= Seen(c) + 1
          /\ Seen(c) \in Int
      BY <1>1, SeenCounts DEF JobsInv, JobType
    <3>4. Seen(c) + ch[c].size = job[c].n + (IF ch[c].at = "pause" THEN 1 ELSE 0)
      BY <2>3, <3>1 DEF Progress
    <3>5. Seen(c) + 1 <= job[c].n
      <4>1. CASE ch[c].at = "pause"
        BY <3>2, <3>3, <3>4, <4>1
      <4>2. CASE ch[c].at # "pause"
        BY <3>2, <3>3, <3>4, <4>2
      <4>. QED  BY <4>1, <4>2
    <3>. QED  BY <3>3, <3>5
  <2>. QED  BY <2>2, <2>3 DEF JobInv
<1>. QED  BY <1>1, JobsInvariant, PTL

\* Only the write itself moves the thread from reading to writing.
LEMMA OnlyWriteWrites ==
    ASSUME Types, [Next]_vars, proc.at = "read", proc'.at = "write" PROVE ProcessWrite
<1>1. CASE ~(ProcessSynced \/ ProcessWrite \/ ProcessWritten)
  <2>1. ASSUME Software PROVE proc' = proc
    <3>1. ASSUME NEW r, AccessAddresses(r) PROVE proc' = proc
      BY <3>1 DEF AccessAddresses, Access
    <3>. QED  BY <2>1, SoftwareAccesses DEF CpuWaits, Access
  <2>2. ASSUME TimePasses PROVE proc'.at = proc.at
    BY <2>2 DEF TimePasses, Cycle, Types, ProcTypes
  <2>3. ASSUME NEW c \in Channels, ChannelStep(c) PROVE proc' = proc
    BY <2>3 DEF ChannelStep, Mux, ChannelTrigger, ChannelAccept, ChannelResume,
                ChannelBecomes
  <2>4. ASSUME ProcessScan PROVE FALSE
    BY <2>4 DEF ProcessScan
  <2>5. ASSUME DeltaCycle \/ ClearFlag \/ UpdateVector \/ IrqControl \/ Reset \/ UNCHANGED vars
        PROVE  proc' = proc
    BY <2>5 DEF DeltaCycle, ClearFlag, UpdateVector, IrqControl, Reset, vars
  <2>. QED  BY <1>1, <2>1, <2>2, <2>3, <2>4, <2>5 DEF Next, ControllerStep
<1>. QED  BY <1>1 DEF ProcessSynced, ProcessWritten

\* In every behaviour each transfer moves the next element of its job from its place in
\* the source to its place in the destination, whatever the memory's delays, and while
\* other channels are programmed, triggered and reset (Dma::process, DmaChannel::process,
\* updateChannelAddresses).
THEOREM TransfersInPlace == Spec => ElementsInPlace
<1>. DEFINE InPlace ==
       proc.at = "read" /\ proc'.at = "write" /\ job[proc.channel].live =>
         LET c == proc.channel
         IN  /\ proc.from = job[c].src + job[c].moved * ch[c].sInc
             /\ ch[c].tDa = job[c].dst + job[c].moved * ch[c].dInc
<1>1. ASSUME Types, HandshakeInv, JobsInv, [Next]_vars PROVE InPlace
  <2>1. SUFFICES ASSUME proc.at = "read", proc'.at = "write", NEW c \in Channels,
                        c = proc.channel, job[c].live
                 PROVE  /\ proc.from = AddressOf(job[c].src, job[c].moved, ch[c].sInc)
                        /\ ch[c].tDa = AddressOf(job[c].dst, job[c].moved, ch[c].dInc)
    BY <1>1 DEF AddressOf, Types, ProcTypes
  <2>2. On(c, {"read"}) /\ ~Beating(c)
    BY <2>1 DEF On, Beating
  <2>3. Seen(c) = job[c].moved
    BY <1>1, <2>2, SeenCounts DEF JobsInv
  <2>. QED  BY <1>1, <2>1, <2>2, <2>3 DEF JobsInv, JobInv, Progress
<1>2. Types /\ HandshakeInv /\ JobsInv /\ [Next]_vars => [InPlace]_vars
  BY <1>1
<1>. QED  BY <1>2, JobsInvariant, PTL DEF Spec, ElementsInPlace

-----------------------------------------------------------------------------
(* Blocks are copied as the software sees them *)

\* The count of a channel whose blocks end, and the source of the element being read.
CountInv(c) ==
    /\ ch[c].mode \notin Endless /\ ch[c].case \notin Endless
    /\ ch[c].enable /\ ch[c].at # "trigger" => ch[c].case = ch[c].mode
    /\ ch[c].size <= ch[c].tSize
    /\ ~ch[c].enable /\ ch[c].at # "trigger" => ch[c].size = 0
    /\ ~ch[c].enable /\ ch[c].at = "trigger" /\ On(c, {"read", "write"}) =>
           ch[c].size \in {0, ch[c].tSize}
    /\ ch[c].at = "trigger" /\ ~On(c, {"read", "write"}) =>
           regs.sz[c] = ch[c].size \/ (~ch[c].enable /\ regs.sz[c] = Undef)
    /\ On(c, {"read"}) => proc.from = ch[c].tSa

CountsInv == \A c \in Channels : CountInv(c)

\* The element Dma::process holds is still the one in the memory: no store of the CPU
\* comes between its read and its write.
DataInv == proc.at = "read" => data = Contents(mem, proc.from)

\* A step that leaves the members of a channel and its place in the bus thread alone.
LEMMA CountFrame ==
    ASSUME NEW c \in Channels, CountInv(c), SameMembers(ch[c], ch'[c]),
           On(c, {"read", "write"})' <=> On(c, {"read", "write"}),
           On(c, {"read"})' => On(c, {"read"}) /\ proc'.from = proc.from,
           regs'.sz[c] = regs.sz[c]
    PROVE  CountInv(c)'
BY DEF CountInv, SameMembers

\* The block of a channel follows from its members and from the element under way.
LEMMA BlockFrame ==
    ASSUME NEW c \in Channels, SameMembers(ch[c], ch'[c]),
           ch[c].enable \/ ch[c].at # "trigger" => (Beating(c)' <=> Beating(c)),
           ~ch[c].enable => (Underway(c)' <=> Underway(c))
    PROVE  BlockOf(c)' = BlockOf(c)
<1>1. IsRunning(c)' <=> IsRunning(c)
  BY DEF IsRunning, SameMembers
<1>2. IsHalted(c)' <=> IsHalted(c)
  BY DEF IsHalted, SameMembers
<1>3. IsCut(c) <=> ~ch[c].enable /\ (ch[c].at # "trigger" \/ Underway(c))
  BY DEF IsCut, Underway
<1>4. IsCut(c)' <=> ~ch'[c].enable /\ (ch'[c].at # "trigger" \/ Underway(c)')
  BY DEF IsCut, Underway
<1>5. IsCut(c)' <=> IsCut(c)
  BY <1>3, <1>4 DEF SameMembers
<1>6. IsRunning(c) => Left(c)' = Left(c) /\ From(c)' = From(c) /\ To(c)' = To(c)
  BY DEF IsRunning, Left, From, To, SameMembers
<1>7. IsCut(c) => (Underway(c)' <=> Underway(c))
  BY DEF IsCut
<1>. QED  BY <1>1, <1>2, <1>5, <1>6, <1>7 DEF BlockOf, Block, SameMembers

\* At the end of a wait no element is under way.
LEMMA NotBeating ==
    ASSUME Types, HandshakeInv, proc.time = 0, NEW c \in Channels PROVE ~Beating(c)
<1>1. On(c, {"write"}) => sig.accept[c]
  BY DEF HandshakeInv, ThreadInv
<1>. QED  BY <1>1, BeatsCounted DEF Beating

\* Nor is one before the next wait begins.
LEMMA NotCommitted ==
    ASSUME Types, HandshakeInv, NEW c \in Channels
    PROVE  /\ Committed(c) => ~Beating(c)
           /\ Committed(c) /\ ch[c].enable => ch[c].at # "trigger"
<1>1. Committed(c) => ~Beating(c)
  <2>1. On(c, {"read"}) => ~Beating(c)
    BY DEF On, Beating
  <2>. QED  BY <2>1, NotBeating DEF Committed
<1>2. Committed(c) /\ ch[c].enable => ch[c].at # "trigger"
  BY DEF HandshakeInv, StaleInv, Committed, On
<1>. QED  BY <1>1, <1>2

\* The update phase: accept reaches the thread of the channel.
LEMMA CopyDelta ==
    ASSUME Types, HandshakeInv, CountsInv, DeltaCycle
    PROVE  \A c \in Channels : CountInv(c)' /\ BlockOf(c)' = BlockOf(c)
<1>1. /\ sig' = nxt /\ run' = Triggered /\ run = {} /\ ch' = ch /\ proc' = proc
      /\ regs' = regs
  BY DEF DeltaCycle
<1>2. proc.at # "idle" => proc.time # 0
  BY <1>1 DEF HandshakeInv, ThreadInv
<1>3. ASSUME NEW c \in Channels, ch[c].enable \/ ch[c].at # "trigger"
      PROVE  Beating(c)' <=> Beating(c)
  <2>1. (<<"channel", c>> \in Triggered) <=> Woken(c)
    BY DEF Triggered, Processes
  <2>2. On(c, {"write"}) => nxt.accept[c]
    BY DEF HandshakeInv, ThreadInv
  <2>3. On(c, {"write"}) /\ ~sig.accept[c] => ch[c].at = "accept"
    <3>1. ch[c].at \in {"trigger", "accept", "pause"}
      BY DEF Types, ChannelType
    <3>2. ch[c].at = "pause" /\ On(c, {"write"}) => sig.accept[c]
      BY <1>1 DEF HandshakeInv, PauseInv, On
    <3>3. ch[c].at = "trigger" /\ On(c, {"write"}) => sig.accept[c]
      BY <1>3 DEF HandshakeInv, StaleInv
    <3>. QED  BY <3>1, <3>2, <3>3
  <2>4. Beating(c) <=> On(c, {"write"}) /\ ~sig.accept[c]
    BY <1>1 DEF Beating
  <2>5. Beating(c)' <=> On(c, {"write"}) /\ (<<"channel", c>> \in Triggered)
                        /\ ch[c].at = "accept"
    BY <1>1, <2>2 DEF Beating, On
  <2>6. ch[c].at = "accept" => (Woken(c) <=> nxt.accept[c] /\ ~sig.accept[c])
    BY DEF Woken, Posedge
  <2>. QED  BY <2>1, <2>2, <2>3, <2>4, <2>5, <2>6
<1>4. ASSUME NEW c \in Channels PROVE Committed(c)' <=> Committed(c)
  BY <1>1, <1>2 DEF Committed, On
<1>5. ASSUME NEW c \in Channels PROVE Underway(c)' <=> Underway(c)
  BY <1>1, <1>3, <1>4 DEF Underway
<1>6. ASSUME NEW c \in Channels PROVE SameMembers(ch[c], ch'[c])
  BY <1>1 DEF SameMembers
<1>7. ASSUME NEW c \in Channels PROVE CountInv(c)'
  <2>1. CountInv(c) /\ (On(c, {"read", "write"})' <=> On(c, {"read", "write"}))
        /\ (On(c, {"read"})' <=> On(c, {"read"}))
    BY <1>1 DEF CountsInv, On
  <2>. QED  BY <1>1, <1>6, <2>1, CountFrame
<1>. QED  BY <1>3, <1>5, <1>6, <1>7, BlockFrame

\* No element is under way when time passes.
LEMMA CopyTime ==
    ASSUME Types, HandshakeInv, CountsInv, TimePasses
    PROVE  \A c \in Channels : CountInv(c)' /\ BlockOf(c)' = BlockOf(c)
<1>1. PICK in \in [Triggers -> BOOLEAN], active \in BOOLEAN, pwrOn \in BOOLEAN,
           cpu \in SUBSET {<<"cpu", 0>>} : Cycle(in, active, pwrOn, cpu)
  BY DEF TimePasses
<1>2. /\ run = {} /\ nxt = sig /\ sig' = sig /\ run' = Resumed \cup cpu /\ regs' = regs
  BY <1>1 DEF Cycle, Settled
<1>3. proc'.at = proc.at /\ proc'.channel = proc.channel /\ proc'.from = proc.from
  BY <1>1 DEF Cycle, Types, ProcTypes
<1>4. ASSUME NEW c \in Channels PROVE SameMembers(ch[c], ch'[c])
  <2>1. ch[c] \in ChannelType
    BY DEF Types
  <2>2. ch'[c] = [ch[c] EXCEPT !.pause = IF @ = 0 THEN 0 ELSE @ - 1]
    BY <1>1 DEF Cycle
  <2>. QED  BY <2>1, <2>2 DEF ChannelType, SameMembers
<1>5. ASSUME NEW c \in Channels
      PROVE  /\ On(c, {"read"})' <=> On(c, {"read"})
             /\ On(c, {"write"})' <=> On(c, {"write"})
             /\ On(c, {"read", "write"})' <=> On(c, {"read", "write"})
  BY <1>3 DEF On
<1>6. ASSUME NEW c \in Channels PROVE ~Beating(c) /\ ~Beating(c)'
  <2>1. On(c, {"write"}) => sig.accept[c]
    BY <1>2 DEF HandshakeInv, ThreadInv
  <2>2. ch[c].at = "accept" => ch[c].pause = 0
    BY DEF HandshakeInv, ChannelInv
  <2>3. (<<"channel", c>> \in run') <=> ch[c].pause = 1
    BY <1>2 DEF Resumed
  <2>4. ch[c].at = "accept" => <<"channel", c>> \notin run'
    BY <2>2, <2>3
  <2>5. ch'[c].at = ch[c].at
    BY <1>4 DEF SameMembers
  <2>. QED  BY <1>2, <1>5, <2>1, <2>4, <2>5 DEF Beating
<1>7. ASSUME NEW c \in Channels PROVE Underway(c)' <=> Underway(c)
  <2>1. sig.pending[c] <=> ch[c].at # "trigger"
    BY <1>2 DEF HandshakeInv, ChannelInv
  <2>2. ch'[c].at = ch[c].at
    BY <1>4 DEF SameMembers
  <2>3. Underway(c) <=> On(c, {"read"}) \/ ch[c].at # "trigger"
    BY <1>6, <2>1 DEF Underway, Committed
  <2>4. Underway(c)' <=> On(c, {"read"})' \/ ch[c].at # "trigger"
    BY <1>2, <1>6, <2>1, <2>2 DEF Underway, Committed
  <2>. QED  BY <1>5, <2>3, <2>4
<1>8. ASSUME NEW c \in Channels PROVE CountInv(c)'
  BY <1>2, <1>3, <1>4, <1>5, CountFrame DEF CountsInv
<1>. QED  BY <1>4, <1>6, <1>7, <1>8, BlockFrame

\* The interrupt functions and a multiplexer touch no block.
LEMMA CopyOthers ==
    ASSUME Types, CountsInv,
           ClearFlag \/ UpdateVector \/ IrqControl \/ \E c \in Channels : Mux(c)
    PROVE  \A c \in Channels : CountInv(c)' /\ BlockOf(c)' = BlockOf(c)
<1>1. /\ sig' = sig /\ proc' = proc
      /\ \A c \in Channels : (<<"channel", c>> \in run') <=> (<<"channel", c>> \in run)
  BY DEF ClearFlag, UpdateVector, IrqControl, Mux, Evaluate
<1>2. regs'.sz = regs.sz
  BY DEF ClearFlag, UpdateVector, IrqControl, Mux, Types, RegTypes
<1>3. ASSUME NEW c \in Channels PROVE SameMembers(ch[c], ch'[c])
  <2>1. CASE ClearFlag
    <3>. DEFINE m == Min(Flagged)
    <3>1. m \in Channels
      BY <2>1, LowestChannel DEF ClearFlag, Flagged
    <3>2. ch' = [ch EXCEPT ![m] = [ch[m] EXCEPT !.flag = FALSE]]
      BY <2>1 DEF ClearFlag
    <3>3. \A d \in Channels : ch[d] \in ChannelType
      BY DEF Types
    <3>. HIDE DEF m
    <3>. QED  BY <3>1, <3>2, <3>3 DEF Types, ChannelType, SameMembers
  <2>2. CASE ~ClearFlag
    BY <2>2 DEF UpdateVector, IrqControl, Mux, SameMembers
  <2>. QED  BY <2>1, <2>2
<1>4. ASSUME NEW c \in Channels
      PROVE  /\ On(c, {"read"})' <=> On(c, {"read"})
             /\ On(c, {"write"})' <=> On(c, {"write"})
             /\ On(c, {"read", "write"})' <=> On(c, {"read", "write"})
             /\ Beating(c)' <=> Beating(c)
             /\ Committed(c)' <=> Committed(c)
             /\ Underway(c)' <=> Underway(c)
  <2>1. /\ On(c, {"read"})' <=> On(c, {"read"})
        /\ On(c, {"write"})' <=> On(c, {"write"})
        /\ On(c, {"read", "write"})' <=> On(c, {"read", "write"})
    BY <1>1 DEF On
  <2>2. ch'[c].at = ch[c].at
    BY <1>3 DEF SameMembers
  <2>. QED  BY <1>1, <2>1, <2>2 DEF Beating, Committed, Underway
<1>5. ASSUME NEW c \in Channels PROVE CountInv(c)'
  BY <1>1, <1>2, <1>3, <1>4, CountFrame DEF CountsInv
<1>. QED  BY <1>3, <1>4, <1>5, BlockFrame

\* The block of a channel that waits for a trigger while no element of it is under way.
RestBlock(k) ==
    IF k.enable /\ k.mode \in Singles /\ k.size # k.tSize
    THEN Block("running", k.size, k.tSa, k.tDa, k.sInc, k.dInc)
    ELSE IF k.size \notin {0, k.tSize} THEN Block("halted", k.size, k.tSa, k.tDa, 0, 0)
    ELSE Block("idle", 0, 0, 0, 0, 0)

LEMMA Resting ==
    ASSUME Types, NEW c \in Channels
    PROVE  /\ ch[c].at = "trigger" /\ ~Beating(c) /\ ~Committed(c) =>
                  BlockOf(c) = RestBlock(ch[c])
           /\ Types' /\ ch'[c].at = "trigger" /\ ~Beating(c)' /\ ~Committed(c)' =>
                  BlockOf(c)' = RestBlock(ch'[c])
<1>1. ch[c] \in ChannelType
  BY DEF Types
<1>2. ASSUME ch[c].at = "trigger", ~Beating(c), ~Committed(c)
      PROVE  BlockOf(c) = RestBlock(ch[c])
  BY <1>1, <1>2 DEF BlockOf, RestBlock, IsRunning, IsCut, IsHalted, Left, From, To,
                    ChannelType
<1>3. ASSUME Types', ch'[c].at = "trigger", ~Beating(c)', ~Committed(c)'
      PROVE  BlockOf(c)' = RestBlock(ch'[c])
  <2>1. ch'[c] \in ChannelType
    BY <1>3 DEF Types
  <2>. QED  BY <1>3, <2>1 DEF BlockOf, RestBlock, IsRunning, IsCut, IsHalted, Left, From, To,
                              ChannelType
<1>. QED  BY <1>2, <1>3

\* The members after a reset.
LEMMA ResetFields ==
    ASSUME NEW k \in ChannelType
    PROVE  LET r == ChannelReset(k)
           IN  /\ ~r.enable /\ r.size = 0 /\ r.mode = "Single" /\ ~r.flag
               /\ r.at = k.at /\ r.case = k.case /\ r.tSize = k.tSize
               /\ r.tSa = k.tSa /\ r.tDa = k.tDa
BY DEF ChannelReset, ChannelType

\* A power failure cuts the blocks where the next element would have been moved.
LEMMA CopyReset ==
    ASSUME Types, HandshakeInv, CountsInv, Reset
    PROVE  \A c \in Channels :
             /\ CountInv(c)'
             /\ \/ BlockOf(c)' = Block("idle", 0, 0, 0, 0, 0)
                \/ /\ IsRunning(c)
                   /\ BlockOf(c)' \in {Block("cut", 1, From(c), To(c), 0, 0),
                                       Block("cut", 0, 0, 0, 0, 0)}
                \/ ~IsRunning(c) /\ IsCut(c) /\ BlockOf(c)' = BlockOf(c)
<1>. SUFFICES ASSUME NEW c \in Channels
              PROVE  /\ CountInv(c)'
                     /\ \/ BlockOf(c)' = Block("idle", 0, 0, 0, 0, 0)
                        \/ /\ IsRunning(c)
                           /\ BlockOf(c)' \in {Block("cut", 1, From(c), To(c), 0, 0),
                                               Block("cut", 0, 0, 0, 0, 0)}
                        \/ ~IsRunning(c) /\ IsCut(c) /\ BlockOf(c)' = BlockOf(c)
  OBVIOUS
<1>1. /\ sig' = sig /\ proc' = proc /\ regs'.sz[c] = Undef
      /\ (<<"channel", c>> \in run') <=> (<<"channel", c>> \in run)
  BY DEF Reset, RegsReset, Evaluate
<1>2. ch[c] \in ChannelType /\ CountInv(c)
  BY DEF Types, CountsInv
<1>3. /\ ~ch'[c].enable /\ ch'[c].size = 0 /\ ch'[c].mode = "Single"
      /\ ch'[c].at = ch[c].at /\ ch'[c].case = ch[c].case /\ ch'[c].tSize = ch[c].tSize
      /\ ch'[c].tSa = ch[c].tSa /\ ch'[c].tDa = ch[c].tDa
  BY <1>2, ResetFields DEF Reset
<1>4. /\ On(c, {"read"})' <=> On(c, {"read"})
      /\ On(c, {"read", "write"})' <=> On(c, {"read", "write"})
      /\ Beating(c)' <=> Beating(c)
      /\ Committed(c)' <=> Committed(c)
      /\ Underway(c)' <=> Underway(c)
  BY <1>1, <1>3 DEF On, Beating, Committed, Underway
<1>5. CountInv(c)'
  BY <1>1, <1>2, <1>3, <1>4 DEF CountInv, ChannelType, Endless
<1>6. ~IsRunning(c)' /\ ~IsHalted(c)'
  BY <1>3 DEF IsRunning, IsHalted
<1>7. IsCut(c)' <=> ch[c].at # "trigger" \/ Committed(c)
  BY <1>3, <1>4 DEF IsCut
<1>8. CASE ~IsCut(c)'
  BY <1>5, <1>6, <1>8 DEF BlockOf
<1>9. CASE IsCut(c)' /\ ch[c].enable
  <2>1. IsRunning(c) /\ (Underway(c) => ~Beating(c))
    BY <1>7, <1>9, NotCommitted DEF IsRunning, Underway
  <2>2. Underway(c) => From(c) = ch[c].tSa /\ To(c) = ch[c].tDa
    BY <1>2, <2>1 DEF From, To, ChannelType
  <2>. QED  BY <1>3, <1>4, <1>5, <1>6, <1>9, <2>1, <2>2 DEF BlockOf, Block
<1>10. CASE IsCut(c)' /\ ~ch[c].enable
  <2>1. ~IsRunning(c) /\ IsCut(c)
    BY <1>7, <1>10 DEF IsRunning, IsCut
  <2>. QED  BY <1>3, <1>4, <1>5, <1>6, <1>10, <2>1 DEF BlockOf, Block
<1>. QED  BY <1>8, <1>9, <1>10

\* An access of the CPU finds all blocks at rest, and so they stay.
LEMMA AccessBlocks ==
    ASSUME Types, HandshakeInv, Access, NEW c \in Channels,
           ch'[c].at = ch[c].at, Types'
    PROVE  /\ ch[c].at = "trigger" /\ ~On(c, {"read", "write"}) /\ ~On(c, {"read"})
           /\ ~On(c, {"read", "write"})' /\ ~On(c, {"read"})'
           /\ ~Beating(c) /\ ~Committed(c) /\ ~Beating(c)' /\ ~Committed(c)'
           /\ BlockOf(c) = RestBlock(ch[c]) /\ BlockOf(c)' = RestBlock(ch'[c])
<1>1. ch[c].at = "trigger" /\ proc.at \notin {"read", "write"} /\ proc' = proc
  BY AccessAtRest DEF Access
<1>2. /\ ~On(c, {"read", "write"}) /\ ~On(c, {"read"})
      /\ ~On(c, {"read", "write"})' /\ ~On(c, {"read"})'
      /\ ~Beating(c) /\ ~Committed(c) /\ ~Beating(c)' /\ ~Committed(c)'
  BY <1>1 DEF On, Beating, Committed
<1>. QED  BY <1>1, <1>2, Resting

\* An access to DMA0SA .. DMA5SZ rewrites the sizes of disabled channels: halted blocks
\* are forgotten.
LEMMA CopyAddresses ==
    ASSUME Types, HandshakeInv, CountsInv, NEW r, Programmed(r), AccessAddresses(r)
    PROVE  \A c \in Channels :
             /\ CountInv(c)'
             /\ \/ BlockOf(c)' = BlockOf(c)
                \/ /\ BlockOf(c).state = "halted"
                   /\ BlockOf(c)' = Block("idle", 0, 0, 0, 0, 0)
<1>. SUFFICES ASSUME NEW c \in Channels
              PROVE  /\ CountInv(c)'
                     /\ \/ BlockOf(c)' = BlockOf(c)
                        \/ /\ BlockOf(c).state = "halted"
                           /\ BlockOf(c)' = Block("idle", 0, 0, 0, 0, 0)
  OBVIOUS
<1>0. Types' /\ Access /\ regs' = r
  BY AccessAddressesTypes DEF AccessAddresses
<1>1. /\ ch[c] \in ChannelType /\ CountInv(c) /\ r.sz[c] \in Nat
      /\ ch[c].enable => r.sz[c] = regs.sz[c]
  BY DEF Types, CountsInv, Programmed
<1>. DEFINE tSize == IF ch[c].enable THEN ch[c].tSize ELSE r.sz[c]
<1>2. /\ ch'[c].size = r.sz[c] /\ ch'[c].tSize = tSize
      /\ ch'[c].at = ch[c].at /\ ch'[c].enable = ch[c].enable /\ ch'[c].mode = ch[c].mode
      /\ ch'[c].case = ch[c].case /\ ch'[c].tSa = ch[c].tSa /\ ch'[c].tDa = ch[c].tDa
      /\ ch'[c].sInc = ch[c].sInc /\ ch'[c].dInc = ch[c].dInc
  <2>1. ch'[c] = [ch[c] EXCEPT !.sa = r.sa[c], !.da = r.da[c], !.size = r.sz[c],
                               !.tSize = tSize]
    BY DEF AccessAddresses, UpdateChannelAddresses
  <2>. HIDE DEF tSize
  <2>. QED  BY <1>1, <2>1 DEF ChannelType
<1>3. /\ ch[c].at = "trigger" /\ ~On(c, {"read", "write"})
      /\ ~On(c, {"read", "write"})' /\ ~On(c, {"read"})'
      /\ BlockOf(c) = RestBlock(ch[c]) /\ BlockOf(c)' = RestBlock(ch'[c])
  BY <1>0, <1>2, AccessBlocks
<1>4. CASE ch[c].enable
  <2>1. r.sz[c] = ch[c].size /\ tSize = ch[c].tSize
    BY <1>1, <1>3, <1>4 DEF CountInv
  <2>2. CountInv(c)'
    BY <1>0, <1>1, <1>2, <1>3, <1>4, <2>1 DEF CountInv
  <2>. QED  BY <1>2, <1>3, <2>1, <2>2 DEF RestBlock, Block
<1>5. CASE ~ch[c].enable
  <2>1. tSize = r.sz[c]
    BY <1>5
  <2>2. CountInv(c)'
    BY <1>0, <1>1, <1>2, <1>3, <1>5, <2>1 DEF CountInv
  <2>3. BlockOf(c)' = Block("idle", 0, 0, 0, 0, 0)
    BY <1>2, <1>3, <1>5, <2>1 DEF RestBlock
  <2>4. BlockOf(c) = Block("idle", 0, 0, 0, 0, 0) \/ BlockOf(c).state = "halted"
    BY <1>3, <1>5 DEF RestBlock, Block
  <2>. QED  BY <2>2, <2>3, <2>4
<1>. QED  BY <1>4, <1>5

\* DMAxCTL: disabling a channel halts its block, enabling it may let it go on.
LEMMA CopyWriteCTL ==
    ASSUME Types, Types', HandshakeInv, CountsInv, BlocksEnd,
           NEW d \in Channels, NEW cfg \in Configs,
           NEW enable \in BOOLEAN, NEW request \in BOOLEAN,
           IF ch[d].enable THEN Configured(ch[d], cfg) ELSE enable /\ regs.sz[d] = cfg.sz,
           WriteCTL(d, cfg, enable, request)
    PROVE  /\ \A c \in Channels : CountInv(c)' /\ (c # d => BlockOf(c)' = BlockOf(c))
           /\ LET b == BlockOf(d)
                  e == BlockOf(d)'
              IN  \/ e = b
                  \/ b.state = "running" /\ e = Block("halted", b.left, b.from, b.to, 0, 0)
                  \/ /\ b.state = "halted"
                     /\ e = Block("running", b.left, b.from, b.to, e.sInc, e.dInc)
<1>0. Access /\ sig' = sig /\ proc' = proc /\ regs'.sz = regs.sz
  BY DEF WriteCTL, Access, Types, RegTypes
<1>1. ch' = [ch EXCEPT ![d] = [ch[d] EXCEPT !.mode = cfg.mode, !.ie = cfg.ie,
                                 !.sInc = cfg.sInc, !.dInc = cfg.dInc, !.enable = enable]]
  BY DEF WriteCTL, Types
<1>2. ch[d] \in ChannelType /\ ch'[d] \in ChannelType /\ Sound(ch[d], regs.sz[d])
  BY DEF Types
<1>3. /\ ch'[d].enable = enable /\ ch'[d].mode = cfg.mode
      /\ ch'[d].sInc = cfg.sInc /\ ch'[d].dInc = cfg.dInc
      /\ ch'[d].case = ch[d].case /\ ch'[d].tSize = ch[d].tSize
      /\ ch'[d].size = ch[d].size /\ ch'[d].at = ch[d].at
      /\ ch'[d].tSa = ch[d].tSa /\ ch'[d].tDa = ch[d].tDa
  <2>1. ASSUME NEW k \in ChannelType, NEW mode, NEW ie, NEW sInc, NEW dInc, NEW on
        PROVE  LET k2 == [k EXCEPT !.mode = mode, !.ie = ie, !.sInc = sInc, !.dInc = dInc,
                                   !.enable = on]
               IN  /\ k2.enable = on /\ k2.mode = mode /\ k2.sInc = sInc /\ k2.dInc = dInc
                   /\ k2.case = k.case /\ k2.tSize = k.tSize /\ k2.size = k.size
                   /\ k2.at = k.at /\ k2.tSa = k.tSa /\ k2.tDa = k.tDa
    BY DEF ChannelType
  <2>2. ch'[d] = [ch[d] EXCEPT !.mode = cfg.mode, !.ie = cfg.ie, !.sInc = cfg.sInc,
                               !.dInc = cfg.dInc, !.enable = enable]
    BY <1>1 DEF Types
  <2>. QED  BY <1>2, <2>1, <2>2
<1>4. ASSUME NEW c \in Channels, c # d PROVE ch'[c] = ch[c]
  BY <1>1, <1>4 DEF Types
<1>5. ASSUME NEW c \in Channels
      PROVE  /\ ch[c].at = "trigger" /\ ~On(c, {"read", "write"})
             /\ ~On(c, {"read", "write"})' /\ ~On(c, {"read"})'
             /\ BlockOf(c) = RestBlock(ch[c]) /\ BlockOf(c)' = RestBlock(ch'[c])
  <2>1. ch'[c].at = ch[c].at
    BY <1>3, <1>4
  <2>. QED  BY <1>0, <2>1, AccessBlocks
<1>6. ASSUME NEW c \in Channels, c # d PROVE CountInv(c)' /\ BlockOf(c)' = BlockOf(c)
  <2>1. CountInv(c) /\ ch'[c] = ch[c]
    BY <1>4, <1>6 DEF CountsInv
  <2>. QED  BY <1>0, <1>5, <2>1 DEF CountInv
<1>7. CountInv(d)'
  <2>1. CountInv(d) /\ cfg.mode \notin Endless
    BY DEF CountsInv, BlocksEnd
  <2>2. regs.sz[d] = ch[d].size \/ (~enable /\ regs.sz[d] = Undef)
    <3>1. CASE ch[d].enable
      BY <1>5, <2>1, <3>1 DEF CountInv
    <3>2. CASE ~ch[d].enable
      <4>1. regs.sz[d] \in Sizes
        BY <3>2 DEF Sizes
      <4>2. regs.sz[d] # Undef
        BY <4>1, SizesPositive
      <4>. QED  BY <1>5, <2>1, <4>2 DEF CountInv
    <3>. QED  BY <3>1, <3>2
  <2>. QED  BY <1>0, <1>3, <1>5, <2>1, <2>2 DEF CountInv
<1>8. ch[d].enable \/ enable => ch[d].size >= 1
  <2>1. CASE ch[d].enable
    BY <1>2, <2>1 DEF Sound
  <2>2. CASE ~ch[d].enable
    <3>1. regs.sz[d] \in Sizes
      BY <2>2 DEF Sizes
    <3>. QED  BY <1>2, <3>1 DEF Sound
  <2>. QED  BY <2>1, <2>2
<1>. DEFINE b == BlockOf(d)
            e == BlockOf(d)'
<1>9. \/ e = b
      \/ b.state = "running" /\ e = Block("halted", b.left, b.from, b.to, 0, 0)
      \/ b.state = "halted" /\ e = Block("running", b.left, b.from, b.to, e.sInc, e.dInc)
  <2>0. b = RestBlock(ch[d]) /\ e = RestBlock(ch'[d])
    BY <1>5
  <2>1. CASE ch[d].enable /\ enable
    <3>1. cfg.mode = ch[d].mode /\ cfg.sInc = ch[d].sInc /\ cfg.dInc = ch[d].dInc
      BY <2>1 DEF Configured
    <3>. QED  BY <1>3, <2>0, <2>1, <3>1 DEF RestBlock
  <2>2. CASE ch[d].enable /\ ~enable
    BY <1>2, <1>3, <1>8, <2>0, <2>2 DEF RestBlock, Block, ChannelType
  <2>3. CASE ~ch[d].enable /\ enable
    BY <1>2, <1>3, <1>8, <2>0, <2>3 DEF RestBlock, Block, ChannelType
  <2>4. CASE ~ch[d].enable /\ ~enable
    BY <2>4
  <2>. QED  BY <2>1, <2>2, <2>3, <2>4
<1>. QED  BY <1>6, <1>7, <1>9

\* The other accesses, and a CPU that waits for the bus, touch no channel.
LEMMA CopyUntouched ==
    ASSUME Types, Types', HandshakeInv, CountsInv,
           \/ Access /\ ch' = ch /\ regs'.sz = regs.sz
           \/ CpuWaits
    PROVE  \A c \in Channels : CountInv(c)' /\ BlockOf(c)' = BlockOf(c)
<1>1. /\ sig' = sig /\ proc' = proc /\ ch' = ch /\ regs'.sz = regs.sz
      /\ \A c \in Channels : (<<"channel", c>> \in run') <=> (<<"channel", c>> \in run)
  BY DEF CpuWaits, Access, Evaluate
<1>2. ASSUME NEW c \in Channels
      PROVE  /\ On(c, {"read"})' <=> On(c, {"read"})
             /\ On(c, {"read", "write"})' <=> On(c, {"read", "write"})
             /\ Beating(c)' <=> Beating(c)
             /\ Underway(c)' <=> Underway(c)
  BY <1>1 DEF On, Beating, Committed, Underway
<1>3. ASSUME NEW c \in Channels PROVE SameMembers(ch[c], ch'[c])
  BY <1>1 DEF SameMembers
<1>. QED  BY <1>1, <1>2, <1>3, CountFrame, BlockFrame DEF CountsInv

\* An element is written: the block of its channel moves on, or what is left of a block
\* that was cut is spent; no other block changes.
Moves(c) ==
    LET b == BlockOf(c)
        e == BlockOf(c)'
    IN  \/ /\ b.state = "running" /\ b.left > 0
           /\ e = Block("running", b.left - 1, b.from + b.sInc, b.to + b.dInc, b.sInc, b.dInc)
        \/ /\ b.state = "cut" /\ b.left = 1
           /\ e \in {Block("idle", 0, 0, 0, 0, 0), Block("cut", 0, 0, 0, 0, 0)}

LEMMA CopyWrite ==
    ASSUME Types, HandshakeInv, CountsInv, ProcessWrite, NEW p \in Channels, p = proc.channel
    PROVE  /\ \A c \in Channels : CountInv(c)' /\ (c # p => BlockOf(c)' = BlockOf(c))
           /\ Moves(p) /\ BlockOf(p).from = proc.from /\ BlockOf(p).to = ch[p].tDa
<1>1. /\ p \in Channels /\ proc.time = 0 /\ sig' = sig /\ ch' = ch /\ regs' = regs
      /\ proc.at = "read" /\ ThreadStep
  BY ThreadSteps DEF Types, ProcTypes, ProcessWrite
<1>2. /\ proc'.at = "write" /\ proc'.time > 0 /\ proc'.channel = p /\ proc'.from = proc.from
      /\ proc'.time \in Nat
  BY DmaAssumption DEF ProcessWrite, Types, ProcTypes
<1>3. ASSUME NEW c \in Channels
      PROVE  /\ On(c, {"read", "write"}) <=> c = p
             /\ On(c, {"read", "write"})' <=> c = p
             /\ On(c, {"read"}) <=> c = p
             /\ ~On(c, {"read"})'
             /\ ~On(c, {"write"})
             /\ On(c, {"write"})' <=> c = p
             /\ ~Beating(c)
             /\ ~Committed(c)'
             /\ SameMembers(ch[c], ch'[c])
  BY <1>1, <1>2 DEF On, Beating, Committed, SameMembers
<1>4. ASSUME NEW c \in Channels PROVE CountInv(c)'
  BY <1>1, <1>3, CountFrame DEF CountsInv
<1>5. ASSUME NEW c \in Channels, c # p PROVE BlockOf(c)' = BlockOf(c)
  <2>1. ~Beating(c)' /\ ~Committed(c)
    BY <1>3, <1>5 DEF Beating, Committed
  <2>2. Underway(c)' <=> Underway(c)
    BY <1>1, <1>3, <2>1 DEF Underway
  <2>. QED  BY <1>3, <2>1, <2>2, BlockFrame
<1>6. /\ ch[p] \in ChannelType /\ Sound(ch[p], regs.sz[p]) /\ CountInv(p)
      /\ Committed(p) /\ Underway(p) /\ ~Beating(p)
  BY <1>1, <1>3 DEF Types, CountsInv, Committed, Underway
<1>7. Beating(p)' /\ ~Underway(p)'
  <2>1. ~sig.accept[p]
    BY <1>1, <1>3 DEF HandshakeInv, ThreadInv
  <2>. QED  BY <1>1, <1>3, <2>1 DEF Beating, Underway
<1>8. /\ IsRunning(p)' <=> IsRunning(p)
      /\ IsCut(p)' <=> ~ch[p].enable /\ ch[p].at # "trigger"
      /\ IsHalted(p)' <=> IsHalted(p)
  BY <1>1, <1>3, <1>6 DEF IsRunning, IsCut, IsHalted
<1>9. CASE ch[p].enable
  <2>1. ch[p].at # "trigger" /\ IsRunning(p)
    BY <1>1, <1>6, <1>9, NotCommitted DEF IsRunning
  <2>2. BlockOf(p) = Block("running", Left(p), From(p), To(p), ch[p].sInc, ch[p].dInc)
    BY <2>1 DEF BlockOf
  <2>3. BlockOf(p)' = Block("running", Left(p)', From(p)', To(p)', ch[p].sInc, ch[p].dInc)
    BY <1>1, <1>8, <2>1 DEF BlockOf
  <2>4. Left(p) = ch[p].size - (IF ch[p].at = "pause" THEN 1 ELSE 0)
        /\ Left(p)' = Left(p) - 1 /\ Left(p) > 0
    <3>1. ch[p].at = "pause" => ch[p].size >= 2
      BY <1>1, <1>9 DEF HandshakeInv, PauseInv
    <3>2. ch[p].size >= 1 /\ ch[p].size \in Nat
      BY <1>6, <1>9 DEF Sound, ChannelType
    <3>. QED  BY <1>1, <1>6, <1>7, <3>1, <3>2 DEF Left
  <2>5. /\ From(p) = ch[p].tSa /\ To(p) = ch[p].tDa
        /\ From(p)' = ch[p].tSa + ch[p].sInc /\ To(p)' = ch[p].tDa + ch[p].dInc
    BY <1>1, <1>6, <1>7 DEF From, To, ChannelType
  <2>6. proc.from = ch[p].tSa
    BY <1>1, <1>3, <1>6 DEF CountInv
  <2>. QED  BY <1>4, <1>5, <2>2, <2>3, <2>4, <2>5, <2>6 DEF Moves, Block
<1>10. CASE ~ch[p].enable
  <2>1. ~IsRunning(p) /\ IsCut(p)
    BY <1>6, <1>10 DEF IsRunning, IsCut
  <2>2. BlockOf(p) = Block("cut", 1, ch[p].tSa, ch[p].tDa, 0, 0)
    BY <1>6, <2>1 DEF BlockOf
  <2>3. ~IsHalted(p) \/ IsCut(p)'
    BY <1>1, <1>3, <1>6, <1>8, <1>10 DEF CountInv, IsHalted
  <2>4. BlockOf(p)' \in {Block("idle", 0, 0, 0, 0, 0), Block("cut", 0, 0, 0, 0, 0)}
    BY <1>7, <1>8, <2>1, <2>3 DEF BlockOf
  <2>5. proc.from = ch[p].tSa
    BY <1>1, <1>3, <1>6 DEF CountInv
  <2>. QED  BY <1>4, <1>5, <2>2, <2>4, <2>5 DEF Moves, Block
<1>. QED  BY <1>9, <1>10

\* The rest of the bus thread changes no block.
LEMMA CopyProcess ==
    ASSUME Types, HandshakeInv, CountsInv, ProcessScan \/ ProcessSynced \/ ProcessWritten
    PROVE  \A c \in Channels : CountInv(c)' /\ BlockOf(c)' = BlockOf(c)
<1>0. PICK p \in Channels : p = proc.channel
  BY DEF Types, ProcTypes
<1>1. p \in Channels /\ proc.time = 0 /\ sig' = sig /\ ch' = ch /\ ThreadStep
  BY ThreadSteps DEF Types, ProcTypes, ThreadStep
<1>2. \/ proc.at = "sync" /\ ReadNext(p) /\ regs' = regs
      \/ proc.at = "write" /\ ReadNext(p) /\ regs'.sz = [regs.sz EXCEPT ![p] = ch[p].size]
      \/ /\ proc.at = "write" /\ Leave(p)
         /\ regs'.sz = [regs.sz EXCEPT ![p] = ch[p].size]
      \/ proc.at = "idle" /\ ProcessScan /\ regs' = regs
  BY <1>0 DEF ProcessScan, ProcessSynced, ProcessWritten, Types, RegTypes
<1>3. \/ /\ ReadNext(p) /\ proc'.at = "read" /\ proc'.channel = p /\ proc'.from = ch[p].tSa
         /\ sig.pending[p] /\ proc.at \in {"sync", "write"}
      \/ /\ proc'.at \in {"idle", "sync"}
         /\ proc.at = "idle" \/ (proc.at = "write" /\ ~sig.pending[p])
  <2>1. ReadNext(p) => /\ proc'.at = "read" /\ proc'.channel = p /\ proc'.from = ch[p].tSa
                       /\ sig.pending[p]
    BY <1>0 DEF ReadNext, Types, ProcTypes
  <2>2. Scanned.proc.at \in {"idle", "sync"}
    BY DEF Scanned, Types, ProcTypes
  <2>3. Leave(p) => proc'.at \in {"idle", "sync"} /\ ~sig.pending[p]
    BY <2>2 DEF Leave
  <2>4. ProcessScan => proc'.at \in {"idle", "sync"}
    BY <2>2 DEF ProcessScan
  <2>. QED  BY <1>2, <2>1, <2>3, <2>4
<1>4. ASSUME NEW c \in Channels
      PROVE  SameMembers(ch[c], ch'[c]) /\ ~Beating(c) /\ ~Beating(c)'
  BY <1>0, <1>1, <1>3, NotBeating DEF SameMembers, Beating, On
<1>5. ASSUME NEW c \in Channels, ~ch[c].enable PROVE Underway(c)' <=> Underway(c)
  <2>1. CASE c = p /\ proc'.at = "read" /\ proc.at = "sync"
    <3>1. sig.pending[p] /\ ~On(p, {"read", "write"})
      BY <1>0, <1>3, <2>1 DEF On
    <3>2. ch[p].at = "accept"
      BY <1>1, <3>1 DEF HandshakeInv, ChannelInv
    <3>. QED  BY <1>1, <1>4, <2>1, <3>2 DEF Underway
  <2>2. CASE ~(c = p /\ proc'.at = "read" /\ proc.at = "sync")
    <3>1. Committed(c)' <=> Committed(c)
      BY <1>0, <1>1, <1>3, <2>2 DEF Committed, On
    <3>. QED  BY <1>1, <1>4, <3>1 DEF Underway
  <2>. QED  BY <2>1, <2>2
<1>6. ASSUME NEW c \in Channels PROVE CountInv(c)'
  <2>0. CountInv(c) /\ ch' = ch
    BY <1>1 DEF CountsInv
  <2>1. CASE c = p /\ proc.at \in {"sync", "write"} /\ proc'.at = "read"
    <3>1. On(c, {"read"})' /\ On(c, {"read", "write"})' /\ proc'.from = ch[c].tSa
      BY <1>0, <1>3, <2>1 DEF On
    <3>2. ~ch[c].enable /\ ch[c].at = "trigger" => ch[c].size \in {0, ch[c].tSize}
      <4>1. CASE proc.at = "sync"
        <5>1. sig.pending[p] /\ ~On(p, {"read", "write"})
          BY <1>0, <1>3, <2>1, <4>1 DEF On
        <5>2. ch[p].at = "accept"
          BY <1>1, <5>1 DEF HandshakeInv, ChannelInv
        <5>. QED  BY <2>1, <5>2
      <4>2. CASE proc.at = "write"
        BY <1>0, <2>0, <2>1, <4>2 DEF CountInv, On
      <4>. QED  BY <2>1, <4>1, <4>2
    <3>. QED  BY <2>0, <3>1, <3>2 DEF CountInv
  <2>2. CASE ~(c = p /\ proc'.at = "read")
    <3>1. ~On(c, {"read"})' /\ ~On(c, {"read", "write"})'
      BY <1>0, <1>3, <2>2 DEF On
    <3>2. \/ regs'.sz[c] = regs.sz[c] /\ ~On(c, {"read", "write"})
          \/ regs'.sz[c] = ch[c].size
      BY <1>0, <1>1, <1>2, <1>3 DEF On, Types, RegTypes
    <3>. QED  BY <2>0, <3>1, <3>2 DEF CountInv
  <2>. QED  BY <1>3, <2>1, <2>2
<1>. QED  BY <1>4, <1>5, <1>6, BlockFrame

\* The members after the last beat of a block that ends.
LEMMA BlockEndFields ==
    ASSUME NEW k \in ChannelType, LastBeat(k), k.case \notin Endless
    PROVE  LET a == AfterBeat(k)
           IN  /\ a.at = "trigger" /\ a.size = k.tSize /\ a.tSize = k.tSize /\ a.flag
               /\ a.case = k.case /\ a.mode = k.mode /\ a.tSa = k.tSa /\ a.tDa = k.tDa
               /\ a.enable => k.enable /\ k.case = "RepeatedSingle"
<1>. DEFINE done == [k EXCEPT !.size = k.tSize, !.flag = TRUE]
<1>1. /\ done \in ChannelType /\ done.flag
      /\ done.case = k.case /\ done.mode = k.mode /\ done.tSize = k.tSize
      /\ done.size = k.tSize /\ done.enable = k.enable
      /\ done.tSa = k.tSa /\ done.tDa = k.tDa
  BY DEF ChannelType
<1>2. \/ k.case = "RepeatedSingle" /\ AfterBeat(k) = [done EXCEPT !.at = "trigger"]
      \/ AfterBeat(k) = [done EXCEPT !.at = "trigger", !.enable = FALSE]
  BY DEF AfterBeat, Finished, Endless
<1>. HIDE DEF done
<1>. QED  BY <1>1, <1>2 DEF ChannelType

\* The flag after a trigger, and after a beat that is not the last one.
LEMMA FlagKept ==
    ASSUME NEW k \in ChannelType
    PROVE  /\ Start(k).flag = k.flag
           /\ ~LastBeat(k) => AfterBeat(k).flag = k.flag
           /\ UpdateAddresses(k).flag = k.flag
           /\ [k EXCEPT !.at = "pause", !.pause = 2].flag = k.flag
<1>1. Start(k).flag = k.flag
  <2>. DEFINE l == IF LoadsAddresses(k) THEN Loaded(k) ELSE k
              size == IF k.mode \in Singles THEN l.size ELSE k.tSize
  <2>1. Start(k) = [l EXCEPT !.size = size, !.at = "accept", !.case = k.mode]
    BY DEF Start
  <2>2. l \in ChannelType
    BY AddressesFollow DEF Follows
  <2>3. l.flag = k.flag
    BY DEF Loaded, ChannelType
  <2>. HIDE DEF l, size
  <2>. QED  BY <2>1, <2>2, <2>3 DEF ChannelType
<1>2. ~LastBeat(k) => AfterBeat(k).flag = k.flag
  <2>. DEFINE size == IF k.case = "RepeatedBlock" THEN k.size ELSE k.size - 1
              at == IF k.case \in Singles THEN "trigger" ELSE "accept"
  <2>1. ~LastBeat(k) => AfterBeat(k) = [k EXCEPT !.size = size, !.at = at]
    BY DEF AfterBeat
  <2>. HIDE DEF size, at
  <2>. QED  BY <2>1 DEF ChannelType
<1>. QED  BY <1>1, <1>2 DEF UpdateAddresses, ChannelType

\* The flags when only channel c moved.
LEMMA OneFlag ==
    ASSUME NEW c \in Channels, \A d \in Channels \ {c} : ch'[d] = ch[d]
    PROVE  /\ ch'[c].flag = ch[c].flag => Flagged' = Flagged
           /\ ch'[c].flag = TRUE => Flagged' = Flagged \cup {c}
BY DEF Flagged

\* The thread of a channel moves no other block.
LEMMA OtherBlocks ==
    ASSUME Types, CountsInv, NEW c \in Channels, ChannelMoves(c),
           NEW d \in Channels, d # c
    PROVE  CountInv(d)' /\ BlockOf(d)' = BlockOf(d)
<1>1. /\ ch'[d] = ch[d] /\ sig' = sig /\ proc' = proc /\ regs' = regs
      /\ (<<"channel", d>> \in run') <=> (<<"channel", d>> \in run)
  BY DEF ChannelMoves
<1>2. /\ On(d, {"read"})' <=> On(d, {"read"})
      /\ On(d, {"read", "write"})' <=> On(d, {"read", "write"})
      /\ Beating(d)' <=> Beating(d)
      /\ Underway(d)' <=> Underway(d)
  BY <1>1 DEF On, Beating, Committed, Underway
<1>3. SameMembers(ch[d], ch'[d])
  BY <1>1 DEF SameMembers
<1>. QED  BY <1>1, <1>2, <1>3, CountFrame, BlockFrame DEF CountsInv

\* A trigger starts a block, or the next element of one.
LEMMA CopyTrigger ==
    ASSUME Types, HandshakeInv, CountsInv, NEW c \in Channels, ChannelTrigger(c)
    PROVE  /\ \A d \in Channels : CountInv(d)' /\ (d # c => BlockOf(d)' = BlockOf(d))
           /\ Flagged' = Flagged
           /\ \/ BlockOf(c)' = BlockOf(c)
              \/ /\ BlockOf(c).state \in {"idle", "halted"}
                 /\ BlockOf(c)'.state = "running" /\ BlockOf(c)'.left >= 1
<1>. DEFINE k == ch[c]
            k2 == ch'[c]
<1>0. k \in ChannelType /\ Sound(k, regs.sz[c]) /\ CountInv(c) /\ k.at = "trigger"
  BY DEF Types, CountsInv, ChannelTrigger
<1>1. ChannelMoves(c) /\ ch'[c] = (IF k.enable THEN Start(k) ELSE k)
  BY HandshakeChannel, ChannelMovesOnly DEF ChannelTrigger
<1>2. \A d \in Channels : d # c => CountInv(d)' /\ BlockOf(d)' = BlockOf(d)
  BY <1>1, OtherBlocks
<1>3. Flagged' = Flagged
  <2>1. ch'[c].flag = ch[c].flag
    BY <1>0, <1>1, FlagKept
  <2>2. \A d \in Channels \ {c} : ch'[d] = ch[d]
    BY <1>1 DEF ChannelMoves
  <2>. QED  BY <2>1, <2>2, OneFlag
<1>4. sig' = sig /\ proc' = proc /\ regs' = regs /\ <<"channel", c>> \notin run'
  BY <1>1 DEF ChannelMoves
<1>5. /\ On(c, {"read"})' <=> On(c, {"read"})
      /\ On(c, {"write"})' <=> On(c, {"write"})
      /\ On(c, {"read", "write"})' <=> On(c, {"read", "write"})
      /\ Committed(c)' <=> Committed(c)
  BY <1>4 DEF On, Committed
<1>6. CASE ~k.enable
  <2>1. SameMembers(ch[c], ch'[c]) /\ ch'[c] = ch[c]
    BY <1>1, <1>6 DEF SameMembers
  <2>2. CountInv(c)'
    BY <1>0, <1>4, <1>5, <2>1, CountFrame
  <2>3. Underway(c)' <=> Underway(c)
    BY <1>0, <1>5, <2>1 DEF Underway
  <2>. QED  BY <1>0, <1>2, <1>3, <1>6, <2>1, <2>2, <2>3, BlockFrame
<1>7. CASE k.enable
  <2>1. /\ k2.at = "accept" /\ k2.case = k.mode /\ k2.mode = k.mode /\ k2.enable
        /\ k2.tSize = k.tSize /\ k2.size = IF k.mode \in Singles THEN k.size ELSE k.tSize
        /\ k2.sInc = k.sInc /\ k2.dInc = k.dInc
        /\ k2.tSa = IF LoadsAddresses(k) THEN k.sa ELSE k.tSa
        /\ k2.tDa = IF LoadsAddresses(k) THEN k.da ELSE k.tDa
    BY <1>0, <1>1, <1>7, StartFields
  <2>2. ~Beating(c) /\ ~Beating(c)' /\ ~Committed(c) /\ ~On(c, {"read"})
    <3>1. ~Committed(c)
      BY <1>0, <1>7, NotCommitted
    <3>2. On(c, {"write"}) => sig.accept[c]
      BY <1>0, <1>7 DEF HandshakeInv, StaleInv
    <3>. QED  BY <1>0, <1>4, <1>5, <3>1, <3>2 DEF Beating, Committed
  <2>3. k.size >= 1 /\ k.tSize >= 1 /\ k.size \in Nat /\ k.tSize \in Nat
    BY <1>0, <1>7 DEF Sound, ChannelType
  <2>4. CountInv(c)'
    BY <1>0, <1>4, <1>5, <2>1, <2>2, <2>3 DEF CountInv
  <2>5. BlockOf(c) = RestBlock(k)
    BY <1>0, <2>2, Resting
  <2>6. BlockOf(c)' = Block("running", k2.size, k2.tSa, k2.tDa, k2.sInc, k2.dInc)
    <3>1. k2.size \in Int /\ k2.tSa \in Int /\ k2.tDa \in Int
      BY <1>0, <2>1 DEF ChannelType
    <3>. QED  BY <2>1, <2>2, <3>1 DEF BlockOf, IsRunning, Left, From, To
  <2>7. CASE k.mode \in Singles /\ k.size # k.tSize
    BY <1>2, <1>3, <1>7, <2>1, <2>4, <2>5, <2>6, <2>7 DEF RestBlock, LoadsAddresses
  <2>8. CASE ~(k.mode \in Singles /\ k.size # k.tSize)
    <3>1. BlockOf(c).state \in {"idle", "halted"}
      BY <2>5, <2>8 DEF RestBlock, Block
    <3>2. BlockOf(c)'.state = "running" /\ BlockOf(c)'.left >= 1
      BY <2>1, <2>3, <2>6 DEF Block
    <3>. QED  BY <1>2, <1>3, <2>4, <3>1, <3>2
  <2>. QED  BY <2>7, <2>8
<1>. QED  BY <1>6, <1>7

\* The thread sees accept: an element is counted, and the last one ends the block.
LEMMA CopyAccept ==
    ASSUME Types, HandshakeInv, CountsInv, NEW c \in Channels, ChannelAccept(c)
    PROVE  /\ \A d \in Channels : CountInv(d)' /\ (d # c => BlockOf(d)' = BlockOf(d))
           /\ \/ BlockOf(c)' = BlockOf(c) /\ Flagged' = Flagged
              \/ /\ \/ BlockOf(c).state = "running" /\ BlockOf(c).left = 0
                    \/ BlockOf(c).state = "cut"
                 /\ BlockOf(c)' = Block("idle", 0, 0, 0, 0, 0)
                 /\ Flagged' = Flagged \cup {c}
<1>. DEFINE k == ch[c]
            u == UpdateAddresses(k)
            k2 == ch'[c]
<1>0. k \in ChannelType /\ Sound(k, regs.sz[c]) /\ CountInv(c) /\ k.at = "accept"
      /\ <<"channel", c>> \in run
  BY DEF Types, CountsInv, ChannelAccept, Evaluate
<1>1. /\ On(c, {"write"}) /\ ~On(c, {"read"}) /\ On(c, {"read", "write"})
      /\ sig.accept[c] /\ proc.time > 0
  BY <1>0 DEF HandshakeInv, ChannelInv, On
<1>2. /\ u \in ChannelType /\ u.at = "accept" /\ u.case = k.case /\ u.mode = k.mode
      /\ u.enable = k.enable /\ u.size = k.size /\ u.tSize = k.tSize
      /\ u.sInc = k.sInc /\ u.dInc = k.dInc
      /\ u.tSa = k.tSa + k.sInc /\ u.tDa = k.tDa + k.dInc /\ u.flag = k.flag
  BY <1>0, AdvanceFields, FlagKept
<1>. HIDE DEF u
<1>3. /\ ChannelMoves(c)
      /\ k2 = IF Pauses(u) THEN [u EXCEPT !.at = "pause", !.pause = 2] ELSE AfterBeat(u)
  BY HandshakeChannel, ChannelMovesOnly DEF ChannelAccept, u
<1>4. \A d \in Channels : d # c => CountInv(d)' /\ BlockOf(d)' = BlockOf(d)
  BY <1>3, OtherBlocks
<1>5. /\ sig' = sig /\ proc' = proc /\ regs' = regs /\ <<"channel", c>> \notin run'
      /\ \A d \in Channels \ {c} : ch'[d] = ch[d]
  BY <1>3 DEF ChannelMoves
<1>6. /\ ~On(c, {"read"})' /\ On(c, {"read", "write"})'
      /\ Beating(c) /\ ~Beating(c)' /\ ~Committed(c) /\ ~Committed(c)'
  BY <1>0, <1>1, <1>5 DEF On, Beating, Committed
<1>7. k.size \in Nat /\ k.tSize \in Nat /\ k.tSa \in Int /\ k.tDa \in Int
      /\ k.sInc \in Int /\ k.dInc \in Int /\ (k.enable => k.size >= 1)
      /\ k.size <= k.tSize /\ (~k.enable => k.size = 0)
  BY <1>0 DEF ChannelType, Sound, CountInv
<1>8. k.enable => BlockOf(c) = Block("running", k.size - 1, u.tSa, u.tDa, k.sInc, k.dInc)
  BY <1>0, <1>2, <1>6, <1>7 DEF BlockOf, IsRunning, Left, From, To
<1>9. ~k.enable => BlockOf(c) = Block("cut", 0, 0, 0, 0, 0)
  BY <1>0, <1>6 DEF BlockOf, IsRunning, IsCut, Underway
<1>10. CASE Pauses(u)
  <2>1. /\ k2.at = "pause" /\ k2.case = k.case /\ k2.mode = k.mode
        /\ k2.enable = k.enable /\ k2.size = k.size /\ k2.tSize = k.tSize
        /\ k2.sInc = k.sInc /\ k2.dInc = k.dInc
        /\ k2.tSa = u.tSa /\ k2.tDa = u.tDa /\ k2.flag = k.flag
    <3>1. k2 = [u EXCEPT !.at = "pause", !.pause = 2]
      BY <1>3, <1>10
    <3>. QED  BY <1>2, <3>1 DEF ChannelType
  <2>2. k.enable
    BY <1>2, <1>7, <1>10 DEF Pauses
  <2>3. CountInv(c)'
    BY <1>0, <1>5, <1>6, <2>1, <2>2 DEF CountInv
  <2>4. BlockOf(c)' = BlockOf(c)
    BY <1>2, <1>6, <1>7, <1>8, <2>1, <2>2 DEF BlockOf, IsRunning, Left, From, To
  <2>5. Flagged' = Flagged
    BY <1>5, <2>1, OneFlag
  <2>. QED  BY <1>4, <2>3, <2>4, <2>5
<1>11. CASE ~Pauses(u) /\ LastBeat(u)
  <2>1. /\ k2.at = "trigger" /\ k2.size = k.tSize /\ k2.tSize = k.tSize /\ k2.flag
        /\ k2.case = k.case /\ k2.mode = k.mode /\ k2.tSa = u.tSa /\ k2.tDa = u.tDa
        /\ k2.enable => k.enable /\ k.case = "RepeatedSingle"
    BY <1>0, <1>2, <1>3, <1>11, BlockEndFields DEF CountInv
  <2>2. CountInv(c)'
    BY <1>0, <1>5, <1>6, <1>7, <2>1 DEF CountInv
  <2>3. BlockOf(c)' = Block("idle", 0, 0, 0, 0, 0)
    BY <1>6, <2>1 DEF BlockOf, IsRunning, IsCut, IsHalted
  <2>4. k.enable => k.size = 1
    BY <1>0, <1>2, <1>7, <1>11 DEF LastBeat, CountInv, Endless
  <2>5. k.enable => BlockOf(c).state = "running" /\ BlockOf(c).left = 0
    BY <1>8, <2>4 DEF Block
  <2>6. ~k.enable => BlockOf(c).state = "cut"
    BY <1>9 DEF Block
  <2>7. Flagged' = Flagged \cup {c}
    <3>1. k2.flag = TRUE
      <4>1. k2 \in ChannelType
        BY TypesChannel DEF ChannelStep, Types
      <4>. QED  BY <2>1, <4>1 DEF ChannelType
    <3>. QED  BY <1>5, <3>1, OneFlag
  <2>. QED  BY <1>4, <2>2, <2>3, <2>5, <2>6, <2>7
<1>12. CASE ~Pauses(u) /\ ~LastBeat(u)
  <2>1. k.enable /\ k.size >= 2
    BY <1>0, <1>2, <1>7, <1>12 DEF LastBeat, CountInv, Endless
  <2>2. /\ k2.at = IF k.case \in Singles THEN "trigger" ELSE "accept"
        /\ k2.size = k.size - 1 /\ k2.case = k.case /\ k2.mode = k.mode
        /\ k2.enable = k.enable /\ k2.tSize = k.tSize
        /\ k2.sInc = k.sInc /\ k2.dInc = k.dInc /\ k2.tSa = u.tSa /\ k2.tDa = u.tDa
        /\ k2.flag = k.flag
    BY <1>0, <1>2, <1>3, <1>12, NextBeatFields, FlagKept DEF CountInv, Endless
  <2>3. k.case = k.mode
    BY <1>0, <2>1 DEF CountInv
  <2>4. CountInv(c)'
    BY <1>0, <1>5, <1>6, <1>7, <2>1, <2>2, <2>3 DEF CountInv
  <2>5. IsRunning(c)'
    BY <1>7, <2>1, <2>2, <2>3 DEF IsRunning
  <2>6. BlockOf(c)' = BlockOf(c)
    BY <1>2, <1>6, <1>7, <1>8, <2>1, <2>2, <2>5 DEF BlockOf, Left, From, To
  <2>7. Flagged' = Flagged
    BY <1>5, <2>2, OneFlag
  <2>. QED  BY <1>4, <2>4, <2>6, <2>7
<1>. QED  BY <1>10, <1>11, <1>12

\* The pause of a burst is over: the count goes down, or a cut block is reported.
LEMMA CopyResume ==
    ASSUME Types, HandshakeInv, CountsInv, NEW c \in Channels, ChannelResume(c)
    PROVE  /\ \A d \in Channels : CountInv(d)' /\ (d # c => BlockOf(d)' = BlockOf(d))
           /\ \/ BlockOf(c)' = BlockOf(c) /\ Flagged' = Flagged
              \/ /\ BlockOf(c).state = "cut"
                 /\ BlockOf(c)' \in {BlockOf(c), Block("idle", 0, 0, 0, 0, 0)}
                 /\ Flagged' = Flagged \cup {c}
<1>. DEFINE k == ch[c]
            k2 == ch'[c]
<1>0. k \in ChannelType /\ Sound(k, regs.sz[c]) /\ CountInv(c) /\ k.at = "pause"
      /\ <<"channel", c>> \in run
  BY DEF Types, CountsInv, ChannelResume, Evaluate
<1>1. /\ On(c, {"read", "write"}) /\ k.case \in Bursts
      /\ k.enable => k.size >= 2
  BY <1>0 DEF HandshakeInv, PauseInv
<1>2. k.case = "BurstBlock"
  BY <1>0, <1>1 DEF CountInv, Endless, Bursts
<1>3. ChannelMoves(c) /\ k2 = AfterBeat(k)
  BY HandshakeChannel, ChannelMovesOnly DEF ChannelResume
<1>4. \A d \in Channels : d # c => CountInv(d)' /\ BlockOf(d)' = BlockOf(d)
  BY <1>3, OtherBlocks
<1>5. /\ sig' = sig /\ proc' = proc /\ regs' = regs /\ <<"channel", c>> \notin run'
      /\ \A d \in Channels \ {c} : ch'[d] = ch[d]
  BY <1>3 DEF ChannelMoves
<1>6. /\ On(c, {"read"})' <=> On(c, {"read"})
      /\ On(c, {"read", "write"})'
      /\ Beating(c)' <=> Beating(c)
      /\ Committed(c)' <=> Committed(c)
  BY <1>0, <1>1, <1>5 DEF On, Beating, Committed
<1>7. k.size \in Nat /\ k.tSize \in Nat /\ k.tSa \in Int /\ k.tDa \in Int
      /\ k.sInc \in Int /\ k.dInc \in Int /\ k.size <= k.tSize
  BY <1>0 DEF ChannelType, CountInv
<1>8. CASE k.enable
  <2>1. ~LastBeat(k)
    BY <1>1, <1>2, <1>7, <1>8 DEF LastBeat, Singles
  <2>2. /\ k2.at = "accept" /\ k2.size = k.size - 1 /\ k2.case = k.case /\ k2.mode = k.mode
        /\ k2.enable = k.enable /\ k2.tSize = k.tSize
        /\ k2.sInc = k.sInc /\ k2.dInc = k.dInc /\ k2.tSa = k.tSa /\ k2.tDa = k.tDa
        /\ k2.flag = k.flag
    BY <1>0, <1>2, <1>3, <2>1, NextBeatFields, FlagKept DEF Singles
  <2>3. CountInv(c)'
    BY <1>0, <1>5, <1>6, <1>7, <1>8, <2>2 DEF CountInv
  <2>4. BlockOf(c) = Block("running", Left(c), From(c), To(c), k.sInc, k.dInc)
        /\ BlockOf(c)' = Block("running", Left(c)', From(c)', To(c)', k.sInc, k.dInc)
    BY <1>0, <1>8, <2>2 DEF BlockOf, IsRunning
  <2>5. Left(c)' = Left(c) /\ From(c)' = From(c) /\ To(c)' = To(c)
    BY <1>0, <1>6, <1>7, <2>2 DEF Left, From, To
  <2>6. Flagged' = Flagged
    BY <1>5, <2>2, OneFlag
  <2>. QED  BY <1>4, <2>3, <2>4, <2>5, <2>6
<1>9. CASE ~k.enable
  <2>1. LastBeat(k)
    BY <1>2, <1>9 DEF LastBeat, Singles
  <2>2. /\ k2.at = "trigger" /\ k2.size = k.tSize /\ k2.tSize = k.tSize /\ k2.flag
        /\ k2.case = k.case /\ k2.mode = k.mode /\ k2.tSa = k.tSa /\ k2.tDa = k.tDa
        /\ ~k2.enable
    BY <1>0, <1>3, <1>9, <2>1, BlockEndFields DEF CountInv
  <2>3. CountInv(c)'
    BY <1>0, <1>5, <1>6, <1>7, <1>9, <2>2 DEF CountInv
  <2>4. ~IsRunning(c) /\ IsCut(c) /\ ~IsRunning(c)' /\ ~IsHalted(c)'
        /\ (IsCut(c)' <=> Committed(c))
    BY <1>0, <1>6, <1>9, <2>2 DEF IsRunning, IsCut, IsHalted
  <2>5. BlockOf(c).state = "cut"
    BY <2>4 DEF BlockOf, Block
  <2>6. BlockOf(c)' \in {BlockOf(c), Block("idle", 0, 0, 0, 0, 0)}
    BY <1>6, <2>2, <2>4 DEF BlockOf, Block, Underway
  <2>7. Flagged' = Flagged \cup {c}
    <3>1. k2.flag = TRUE
      <4>1. k2 \in ChannelType
        BY TypesChannel DEF ChannelStep, Types
      <4>. QED  BY <2>2, <4>1 DEF ChannelType
    <3>. QED  BY <1>5, <3>1, OneFlag
  <2>. QED  BY <1>4, <2>3, <2>5, <2>6, <2>7
<1>. QED  BY <1>8, <1>9

\* A step of the blocks that changes none.
LEMMA SameBlocks ==
    ASSUME \A c \in Channels : BlockOf(c)' = BlockOf(c)
    PROVE  Blocks' = Blocks
BY DEF Blocks

\* A step of the blocks that changes only that of channel c.
LEMMA OneBlock ==
    ASSUME NEW c \in Channels, \A d \in Channels : d # c => BlockOf(d)' = BlockOf(d)
    PROVE  /\ Blocks' = [Blocks EXCEPT ![c] = BlockOf(c)']
           /\ Blocks[c] = BlockOf(c) /\ Blocks'[c] = BlockOf(c)'
BY DEF Blocks

\* The records of the two modules are the same.
LEMMA SameRecords ==
    /\ \A state, left, from, to, sInc, dInc :
          Copy!Block(state, left, from, to, sInc, dInc)
             = Block(state, left, from, to, sInc, dInc)
    /\ Copy!Idle = Block("idle", 0, 0, 0, 0, 0)
    /\ Copy!Spent = Block("cut", 0, 0, 0, 0, 0)
    /\ \A m, a : Copy!Contents(m, a) = Contents(m, a)
    /\ \A m, a, v : Copy!Stored(m, a, v) = Stored(m, a, v)
BY DEF Copy!Block, Block, Copy!Idle, Copy!Spent, Copy!Contents, Contents, Copy!Stored, Stored

\* The whole of a step outside the bus thread's transfers.
LEMMA NoTransfer ==
    ASSUME Types, [Next]_vars, ~ProcessWrite, Transfer PROVE mem' = mem
BY OnlyWriteWrites DEF Transfer, WriteBegins

\* Steps of the channel's thread.
LEMMA MapChannel ==
    ASSUME Types, HandshakeInv, CountsInv, mem' = mem, NEW c \in Channels,
           ChannelTrigger(c) \/ ChannelAccept(c) \/ ChannelResume(c)
    PROVE  CountsInv' /\ (Copy!CopyNext \/ UNCHANGED Copy!copyVars)
<1>. DEFINE b == BlockOf(c)
            e == BlockOf(c)'
            idle == Block("idle", 0, 0, 0, 0, 0)
<1>1. CountsInv' /\ \A d \in Channels : d # c => BlockOf(d)' = BlockOf(d)
  BY CopyTrigger, CopyAccept, CopyResume DEF CountsInv
<1>2. \/ e = b /\ Flagged' = Flagged
      \/ /\ b.state \in {"idle", "halted"} /\ e.state = "running" /\ e.left >= 1
         /\ Flagged' = Flagged
      \/ /\ b.state = "running" /\ b.left = 0 /\ e = idle
         /\ Flagged' = Flagged \cup {c}
      \/ /\ b.state = "cut" /\ e \in {b, idle} /\ Flagged' = Flagged \cup {c}
  BY CopyTrigger, CopyAccept, CopyResume
<1>3. /\ Blocks' = [Blocks EXCEPT ![c] = e]
      /\ Blocks[c] = b /\ Blocks'[c] = e
  BY <1>1, OneBlock
<1>. HIDE DEF b, e
<1>4. CASE e = b /\ Flagged' = Flagged
  <2>1. Blocks' = Blocks
    BY <1>3, <1>4 DEF Blocks
  <2>. QED  BY <1>1, <1>4, <2>1 DEF Copy!copyVars
<1>5. CASE b.state \in {"idle", "halted"} /\ e.state = "running" /\ e.left >= 1
           /\ Flagged' = Flagged
  <2>1. Copy!Begin(c)
    BY <1>3, <1>5 DEF Copy!Begin, Copy!Only
  <2>. QED  BY <1>1, <2>1 DEF Copy!CopyNext
<1>6. CASE b.state = "running" /\ b.left = 0 /\ e = idle /\ Flagged' = Flagged \cup {c}
  <2>1. Copy!Complete(c)
    BY <1>3, <1>6, SameRecords DEF Copy!Complete, Copy!Only
  <2>. QED  BY <1>1, <2>1 DEF Copy!CopyNext
<1>7. CASE b.state = "cut" /\ e \in {b, idle} /\ Flagged' = Flagged \cup {c}
  <2>1. e = b => Blocks' = Blocks
    BY <1>3 DEF Blocks
  <2>2. Copy!GiveUp(c)
    BY <1>3, <1>7, <2>1, SameRecords DEF Copy!GiveUp, Copy!Only
  <2>. QED  BY <1>1, <2>2 DEF Copy!CopyNext
<1>. QED  BY <1>1, <1>2, <1>4, <1>5, <1>6, <1>7

\* Steps of the bus thread.
LEMMA MapProcess ==
    ASSUME Types, HandshakeInv, CountsInv, DataInv, Transfer,
           ProcessScan \/ ProcessSynced \/ ProcessWrite \/ ProcessWritten
    PROVE  CountsInv' /\ (Copy!CopyNext \/ UNCHANGED Copy!copyVars)
<1>0. Flagged' = Flagged
  BY DEF ProcessScan, ProcessSynced, ProcessWrite, ProcessWritten, Flagged
<1>1. CASE ProcessWrite
  <2>0. PICK p \in Channels : p = proc.channel
    BY DEF Types, ProcTypes
  <2>. DEFINE b == BlockOf(p)
              e == BlockOf(p)'
  <2>1. /\ CountsInv' /\ Moves(p) /\ \A c \in Channels : c # p => BlockOf(c)' = BlockOf(c)
        /\ b.from = proc.from /\ b.to = ch[p].tDa
    BY <1>1, <2>0, CopyWrite DEF CountsInv
  <2>2. /\ Blocks' = [Blocks EXCEPT ![p] = e]
        /\ Blocks[p] = b /\ Blocks'[p] = e
    BY <2>1, OneBlock
  <2>3. mem' = Stored(mem, b.to, Contents(mem, b.from))
    <3>1. proc.at = "read" /\ proc'.at = "write"
      BY <1>1 DEF ProcessWrite, Types, ProcTypes
    <3>2. mem' = Stored(mem, ch[p].tDa, data) /\ data = Contents(mem, proc.from)
      BY <2>0, <3>1 DEF Transfer, WriteBegins, DataInv
    <3>. QED  BY <2>1, <3>2
  <2>4. Copy!CopyElement(p)
    BY <2>2, <2>3, SameRecords DEF Copy!CopyElement
  <2>5. \/ /\ b.state = "running" /\ b.left > 0
           /\ e = Block("running", b.left - 1, b.from + b.sInc, b.to + b.dInc, b.sInc,
                        b.dInc)
        \/ /\ b.state = "cut" /\ b.left = 1
           /\ e \in {Block("idle", 0, 0, 0, 0, 0), Block("cut", 0, 0, 0, 0, 0)}
    BY <2>1 DEF Moves
  <2>. HIDE DEF b, e
  <2>6. Copy!Move(p) \/ Copy!Stray(p)
    BY <1>0, <2>2, <2>4, <2>5, SameRecords DEF Copy!Move, Copy!Stray, Copy!Only
  <2>. QED  BY <2>1, <2>6 DEF Copy!CopyNext
<1>2. CASE ~ProcessWrite
  <2>1. CountsInv' /\ \A c \in Channels : BlockOf(c)' = BlockOf(c)
    BY <1>2, CopyProcess DEF CountsInv
  <2>2. mem' = mem
    BY <1>2, NoTransfer DEF Next, ControllerStep
  <2>. QED  BY <1>0, <2>1, <2>2, SameBlocks DEF Copy!copyVars
<1>. QED  BY <1>1, <1>2

\* Steps of the software that is not a store.
LEMMA MapSoftware ==
    ASSUME Types, HandshakeInv, CountsInv, BlocksEnd, mem' = mem, Software
    PROVE  CountsInv' /\ (Copy!CopyNext \/ UNCHANGED Copy!copyVars)
<1>0. Types'
  BY TypesSoftware
<1>1. ASSUME NEW r, Programmed(r), AccessAddresses(r)
      PROVE  CountsInv' /\ (Copy!CopyNext \/ UNCHANGED Copy!copyVars)
  <2>1. /\ CountsInv'
        /\ \A c \in Channels :
             \/ BlockOf(c)' = BlockOf(c)
             \/ BlockOf(c).state = "halted" /\ BlockOf(c)' = Copy!Idle
    BY <1>1, CopyAddresses, SameRecords DEF CountsInv
  <2>2. Flagged' = Flagged
    <3>1. ASSUME NEW c \in Channels PROVE ch'[c].flag = ch[c].flag
      <4>1. ch[c] \in ChannelType
        BY DEF Types
      <4>2. ch'[c] = [ch[c] EXCEPT !.sa = r.sa[c], !.da = r.da[c], !.size = r.sz[c],
                                   !.tSize = IF ch[c].enable THEN @ ELSE r.sz[c]]
        BY <1>1 DEF AccessAddresses, UpdateChannelAddresses
      <4>. QED  BY <4>1, <4>2 DEF ChannelType
    <3>. QED  BY <3>1 DEF Flagged
  <2>3. \A c \in Channels : Blocks[c] = BlockOf(c) /\ Blocks'[c] = BlockOf(c)'
    BY DEF Blocks
  <2>4. Blocks' = [c \in Channels |-> Blocks'[c]]
    BY DEF Blocks
  <2>5. Copy!Forget
    BY <2>1, <2>2, <2>3, <2>4 DEF Copy!Forget
  <2>. QED  BY <2>1, <2>5 DEF Copy!CopyNext
<1>2. CASE ReadAddresses
  BY <1>1, <1>2 DEF ReadAddresses, Programmed, Types, RegTypes
<1>3. CASE WriteAddresses
  <2>1. PICK c \in Channels :
          /\ ~ch[c].enable
          /\ \/ \E a \in Addresses : AccessAddresses([regs EXCEPT !.sa[c] = a])
             \/ \E a \in Addresses : AccessAddresses([regs EXCEPT !.da[c] = a])
             \/ \E n \in Sizes : AccessAddresses([regs EXCEPT !.sz[c] = n])
    BY <1>3 DEF WriteAddresses
  <2>2. ASSUME NEW n \in Nat
        PROVE  /\ Programmed([regs EXCEPT !.sa[c] = n])
               /\ Programmed([regs EXCEPT !.da[c] = n])
               /\ Programmed([regs EXCEPT !.sz[c] = n])
    BY <2>1 DEF Programmed, Types, RegTypes
  <2>3. Addresses \subseteq Nat /\ Sizes \subseteq Nat
    BY DmaAssumption, SizesPositive
  <2>. QED  BY <1>1, <2>1, <2>2, <2>3
<1>4. CASE Configure
  <2>1. PICK d \in Channels, cfg \in Configs, enable \in BOOLEAN, request \in BOOLEAN :
          /\ IF ch[d].enable THEN Configured(ch[d], cfg) ELSE enable /\ regs.sz[d] = cfg.sz
          /\ WriteCTL(d, cfg, enable, request)
    BY <1>4 DEF Configure
  <2>. DEFINE b == BlockOf(d)
              e == BlockOf(d)'
  <2>2. /\ CountsInv' /\ \A c \in Channels : c # d => BlockOf(c)' = BlockOf(c)
        /\ \/ e = b
           \/ b.state = "running" /\ e = Block("halted", b.left, b.from, b.to, 0, 0)
           \/ b.state = "halted" /\ e = Block("running", b.left, b.from, b.to, e.sInc, e.dInc)
    BY <1>0, <2>1, CopyWriteCTL DEF CountsInv
  <2>3. Flagged' = Flagged
    <3>1. ASSUME NEW c \in Channels PROVE ch'[c].flag = ch[c].flag
      <4>1. ch[c] \in ChannelType /\ ch[d] \in ChannelType
        BY DEF Types
      <4>2. ch' = [ch EXCEPT ![d] = [ch[d] EXCEPT !.mode = cfg.mode, !.ie = cfg.ie,
                                       !.sInc = cfg.sInc, !.dInc = cfg.dInc,
                                       !.enable = enable]]
        BY <2>1 DEF WriteCTL, Types
      <4>3. CASE c = d
        <5>1. ch'[c] = [ch[d] EXCEPT !.mode = cfg.mode, !.ie = cfg.ie, !.sInc = cfg.sInc,
                                     !.dInc = cfg.dInc, !.enable = enable]
          BY <4>2, <4>3 DEF Types
        <5>. QED  BY <4>1, <4>3, <5>1 DEF ChannelType
      <4>4. CASE c # d
        BY <4>2, <4>4 DEF Types
      <4>. QED  BY <4>3, <4>4
    <3>. QED  BY <3>1 DEF Flagged
  <2>4. /\ Blocks' = [Blocks EXCEPT ![d] = e]
        /\ Blocks[d] = b /\ Blocks'[d] = e
    BY <2>2, OneBlock
  <2>. HIDE DEF b, e
  <2>5. CASE e = b
    <3>1. Blocks' = Blocks
      BY <2>4, <2>5 DEF Blocks
    <3>. QED  BY <2>2, <2>3, <3>1 DEF Copy!copyVars
  <2>6. CASE b.state = "running" /\ e = Block("halted", b.left, b.from, b.to, 0, 0)
    <3>1. Copy!Halt(d)
      BY <2>3, <2>4, <2>6, SameRecords DEF Copy!Halt, Copy!Only
    <3>. QED  BY <2>2, <3>1 DEF Copy!CopyNext
  <2>7. CASE b.state = "halted" /\ e = Block("running", b.left, b.from, b.to, e.sInc, e.dInc)
    <3>1. Copy!Resume(d)
      BY <2>3, <2>4, <2>7, SameRecords DEF Copy!Resume, Copy!Only
    <3>. QED  BY <2>2, <3>1 DEF Copy!CopyNext
  <2>. QED  BY <2>2, <2>5, <2>6, <2>7
<1>5. CASE CpuWaits \/ SelectTrigger \/ AccessIV
  <2>1. ch' = ch /\ (CpuWaits \/ (Access /\ regs'.sz = regs.sz))
    BY <1>5 DEF CpuWaits, SelectTrigger, AccessIV, Types, RegTypes
  <2>2. CountsInv' /\ \A c \in Channels : BlockOf(c)' = BlockOf(c)
    BY <1>0, <2>1, CopyUntouched DEF CountsInv
  <2>3. Flagged' = Flagged
    BY <2>1 DEF Flagged
  <2>. QED  BY <2>2, <2>3, SameBlocks DEF Copy!copyVars
<1>. QED  BY <1>2, <1>3, <1>4, <1>5 DEF Software

\* The store of the CPU is an access that touches no register.
LEMMA StoreAccesses ==
    ASSUME Types, CpuStore PROVE Next /\ Software /\ Access /\ ch' = ch /\ regs' = regs
<1>1. nxt' = [nxt EXCEPT !.select = nxt.select] /\ nxt.select \in [Channels -> Triggers]
  BY DEF CpuStore, Types, KernelTypes, Signals
<1>2. SelectTrigger
  BY <1>1 DEF CpuStore, SelectTrigger
<1>. QED  BY <1>2 DEF CpuStore, Next, Software

\* A power failure.
LEMMA MapReset ==
    ASSUME Types, HandshakeInv, CountsInv, mem' = mem, Reset
    PROVE  CountsInv' /\ Copy!CopyNext
<1>1. \A c \in Channels :
        /\ CountInv(c)'
        /\ \/ BlockOf(c)' = Block("idle", 0, 0, 0, 0, 0)
           \/ /\ IsRunning(c)
              /\ BlockOf(c)' \in {Block("cut", 1, From(c), To(c), 0, 0),
                                  Block("cut", 0, 0, 0, 0, 0)}
           \/ ~IsRunning(c) /\ IsCut(c) /\ BlockOf(c)' = BlockOf(c)
  BY CopyReset
<1>2. ASSUME NEW c \in Channels
      PROVE  /\ IsRunning(c) => /\ BlockOf(c).state = "running"
                                /\ BlockOf(c).from = From(c) /\ BlockOf(c).to = To(c)
             /\ ~IsRunning(c) /\ IsCut(c) => BlockOf(c).state = "cut"
  BY DEF BlockOf, Block
<1>3. Flagged' = {}
  <2>1. ASSUME NEW c \in Channels PROVE ~ch'[c].flag
    BY ResetFields DEF Reset, Types
  <2>. QED  BY <2>1 DEF Flagged
<1>4. /\ \A c \in Channels : Blocks[c] = BlockOf(c) /\ Blocks'[c] = BlockOf(c)'
      /\ Blocks' = [c \in Channels |-> Blocks'[c]]
  BY DEF Blocks
<1>5. ASSUME NEW c \in Channels
      PROVE  \/ Blocks'[c] = Copy!Idle
             \/ Blocks[c].state = "running" /\ Blocks'[c] = Copy!Cut(Blocks[c])
             \/ Blocks[c].state = "running" /\ Blocks'[c] = Copy!Spent
             \/ Blocks[c].state = "cut" /\ Blocks'[c] = Blocks[c]
  BY <1>1, <1>2, <1>4, SameRecords DEF Copy!Cut
<1>6. Copy!PowerFails
  BY <1>3, <1>4, <1>5 DEF Copy!PowerFails
<1>. QED  BY <1>1, <1>6 DEF Copy!CopyNext, CountsInv

\* Steps that touch no block; an acknowledgement clears a flag.
LEMMA MapOthers ==
    ASSUME Types, HandshakeInv, CountsInv, mem' = mem,
           \/ DeltaCycle \/ TimePasses
           \/ ClearFlag \/ UpdateVector \/ IrqControl \/ \E c \in Channels : Mux(c)
    PROVE  CountsInv' /\ (Copy!CopyNext \/ UNCHANGED Copy!copyVars)
<1>1. CountsInv' /\ Blocks' = Blocks
  BY CopyDelta, CopyTime, CopyOthers, SameBlocks DEF CountsInv
<1>2. CASE ClearFlag
  <2>. DEFINE m == Min(Flagged)
  <2>1. m \in Channels
    BY <1>2, LowestChannel DEF ClearFlag, Flagged
  <2>2. ch' = [ch EXCEPT ![m] = [ch[m] EXCEPT !.flag = FALSE]]
    BY <1>2 DEF ClearFlag
  <2>. HIDE DEF m
  <2>3. ~ch'[m].flag /\ \A d \in Channels : d # m => ch'[d] = ch[d]
    BY <2>1, <2>2 DEF Types, ChannelType
  <2>4. Flagged' = Flagged \ {m}
    BY <2>1, <2>3 DEF Flagged
  <2>5. Copy!Acknowledge(m)
    BY <1>1, <2>4 DEF Copy!Acknowledge
  <2>. QED  BY <1>1, <2>1, <2>5 DEF Copy!CopyNext
<1>3. CASE ~ClearFlag
  <2>1. \A c \in Channels : ch'[c].flag = ch[c].flag
    <3>1. CASE TimePasses
      <4>1. PICK in \in [Triggers -> BOOLEAN], active \in BOOLEAN, pwrOn \in BOOLEAN,
                 cpu \in SUBSET {<<"cpu", 0>>} : Cycle(in, active, pwrOn, cpu)
        BY <3>1 DEF TimePasses
      <4>2. ASSUME NEW c \in Channels
            PROVE  ch'[c] = [ch[c] EXCEPT !.pause = IF @ = 0 THEN 0 ELSE @ - 1]
                   /\ ch[c] \in ChannelType
        BY <4>1 DEF Cycle, Types
      <4>. QED  BY <4>2 DEF ChannelType
    <3>2. CASE ~TimePasses
      BY <1>3, <3>2 DEF DeltaCycle, UpdateVector, IrqControl, Mux
    <3>. QED  BY <3>1, <3>2
  <2>2. Flagged' = Flagged
    BY <2>1 DEF Flagged
  <2>. QED  BY <1>1, <2>2 DEF Copy!copyVars
<1>. QED  BY <1>2, <1>3

\* While Dma::process waits for its read, it keeps the address.
LEMMA StaysReading ==
    ASSUME Types, Next, proc.at = "read", proc'.at = "read" PROVE proc'.from = proc.from
<1>1. ASSUME Software PROVE proc' = proc
  BY <1>1, SoftwareAccesses DEF CpuWaits, Access
<1>2. ASSUME TimePasses PROVE proc'.from = proc.from
  BY <1>2 DEF TimePasses, Cycle, Types, ProcTypes
<1>3. ASSUME NEW c \in Channels, ChannelStep(c) PROVE proc' = proc
  BY <1>3 DEF ChannelStep, Mux, ChannelTrigger, ChannelAccept, ChannelResume, ChannelBecomes
<1>4. ASSUME ProcessScan \/ ProcessSynced \/ ProcessWrite \/ ProcessWritten PROVE FALSE
  BY <1>4 DEF ProcessScan, ProcessSynced, ProcessWrite, ProcessWritten, Types, ProcTypes
<1>5. ASSUME DeltaCycle \/ ClearFlag \/ UpdateVector \/ IrqControl \/ Reset
      PROVE  proc' = proc
  BY <1>5 DEF DeltaCycle, ClearFlag, UpdateVector, IrqControl, Reset
<1>. QED  BY <1>1, <1>2, <1>3, <1>4, <1>5 DEF Next, ControllerStep

\* The element that is held is read once, and no one stores before it is written.
LEMMA DataStep ==
    ASSUME Types, HandshakeInv, DataInv, [MemNext]_<<vars, memVars>> PROVE DataInv'
<1>1. CASE UNCHANGED <<vars, memVars>>
  BY <1>1 DEF DataInv, Contents, vars, memVars
<1>2. CASE CpuStore
  <2>1. proc.at # "read" /\ proc' = proc
    BY <1>2, AccessAtRest DEF CpuStore, Access
  <2>. QED  BY <2>1 DEF DataInv
<1>3. CASE Next /\ Transfer
  <2>1. SUFFICES ASSUME proc'.at = "read" PROVE data' = Contents(mem', proc'.from)
    BY DEF DataInv
  <2>2. mem' = mem
    BY <1>3, <2>1 DEF Transfer, WriteBegins
  <2>3. CASE proc.at # "read"
    BY <1>3, <2>1, <2>2, <2>3 DEF Transfer, ReadBegins
  <2>4. CASE proc.at = "read"
    <3>1. proc'.from = proc.from
      BY <1>3, <2>1, <2>4, StaysReading
    <3>2. data' = data
      BY <1>3, <2>4 DEF Transfer, ReadBegins
    <3>. QED  BY <2>2, <2>4, <3>1, <3>2 DEF DataInv
  <2>. QED  BY <2>3, <2>4
<1>. QED  BY <1>1, <1>2, <1>3 DEF MemNext

\* After power-up no channel copies a block.
LEMMA CopyInitially ==
    ASSUME MemInit PROVE CountsInv /\ DataInv /\ Copy!CopyInit
<1>1. PICK flagged \in SUBSET Channels :
          ch = [c \in Channels |-> [ChannelInit EXCEPT !.flag = c \in flagged]]
  BY DEF MemInit, Init
<1>2. ASSUME NEW c \in Channels
      PROVE  /\ ch[c].mode = "Single" /\ ch[c].case = "Single" /\ ~ch[c].enable
             /\ ch[c].at = "trigger" /\ ch[c].size = 0 /\ ch[c].tSize = 0
  <2>1. ch[c] = [ChannelInit EXCEPT !.flag = c \in flagged]
    BY <1>1
  <2>. QED  BY <2>1 DEF ChannelInit
<1>3. proc.at = "idle"
  BY DEF MemInit, Init
<1>4. ASSUME NEW c \in Channels PROVE CountInv(c)
  <2>1. regs.sz[c] = Undef
    BY DEF MemInit, Init, RegsReset
  <2>. QED  BY <1>2, <1>3, <2>1 DEF CountInv, On, Endless
<1>5. ASSUME NEW c \in Channels PROVE BlockOf(c) = Block("idle", 0, 0, 0, 0, 0)
  BY <1>2, <1>3 DEF BlockOf, IsRunning, IsCut, IsHalted, Committed, On
<1>6. Blocks = [c \in Channels |-> Copy!Idle]
  BY <1>5, SameRecords DEF Blocks
<1>7. DOMAIN mem = Cells
  BY DEF MemInit
<1>8. Flagged \subseteq Channels
  BY DEF Flagged
<1>. QED  BY <1>3, <1>4, <1>6, <1>7, <1>8 DEF CountsInv, DataInv, Copy!CopyInit

\* A store of the CPU touches no block.
LEMMA MapStore ==
    ASSUME Types, HandshakeInv, CountsInv, CpuStore
    PROVE  CountsInv' /\ Copy!CpuWrites
<1>1. Next /\ Software /\ Access /\ ch' = ch /\ regs' = regs
  BY StoreAccesses
<1>2. Types'
  BY <1>1, TypesSoftware
<1>3. CountsInv' /\ \A c \in Channels : BlockOf(c)' = BlockOf(c)
  BY <1>1, <1>2, CopyUntouched DEF CountsInv
<1>4. Blocks' = Blocks /\ Flagged' = Flagged
  BY <1>1, <1>3, SameBlocks DEF Flagged
<1>5. PICK a \in Cells, v \in Values : mem' = Stored(mem, a, v)
  BY DEF CpuStore
<1>6. mem'[a] = v
  BY <1>5 DEF Stored
<1>7. mem' = Copy!Stored(mem, a, mem'[a])
  BY <1>5, <1>6, SameRecords
<1>. QED  BY <1>3, <1>4, <1>7 DEF Copy!CpuWrites

\* Each step of the controller and of the CPU is a step of the blocks, or none.
LEMMA CopyStep ==
    ASSUME Types, HandshakeInv, CountsInv, DataInv, BlocksEnd,
           [MemNext]_<<vars, memVars>>
    PROVE  /\ Types' /\ HandshakeInv' /\ CountsInv' /\ DataInv'
           /\ [Copy!CopyNext]_Copy!copyVars
<1>1. CpuStore => [Next]_vars
  BY StoreAccesses
<1>2. [Next]_vars
  BY <1>1 DEF MemNext
<1>3. Types' /\ HandshakeInv'
  BY <1>2, TypesStep, HandshakeStep
<1>4. DataInv'
  BY DataStep
<1>5. CASE UNCHANGED <<vars, memVars>>
  <2>1. /\ sig' = sig /\ nxt' = nxt /\ run' = run /\ regs' = regs /\ ch' = ch
        /\ proc' = proc /\ mem' = mem
    BY <1>5 DEF vars, kernelVars, memVars
  <2>2. ASSUME NEW c \in Channels
        PROVE  /\ SameMembers(ch[c], ch'[c])
               /\ On(c, {"read"})' <=> On(c, {"read"})
               /\ On(c, {"read", "write"})' <=> On(c, {"read", "write"})
               /\ Beating(c)' <=> Beating(c)
               /\ Underway(c)' <=> Underway(c)
    BY <2>1 DEF SameMembers, On, Beating, Committed, Underway
  <2>3. \A c \in Channels : CountInv(c)' /\ BlockOf(c)' = BlockOf(c)
    BY <2>1, <2>2, CountFrame, BlockFrame DEF CountsInv
  <2>4. Flagged' = Flagged
    BY <2>1 DEF Flagged
  <2>5. Blocks' = Blocks
    BY <2>3, SameBlocks
  <2>. QED  BY <1>3, <1>4, <2>1, <2>3, <2>4, <2>5 DEF CountsInv, Copy!copyVars
<1>6. CASE CpuStore
  <2>1. Copy!CopyNext
    BY <1>6, MapStore DEF Copy!CopyNext
  <2>. QED  BY <1>3, <1>4, <1>6, <2>1, MapStore
<1>7. CASE Next /\ Transfer
  <2>. SUFFICES CountsInv' /\ (Copy!CopyNext \/ UNCHANGED Copy!copyVars)
    BY <1>3, <1>4
  <2>1. CASE ProcessScan \/ ProcessSynced \/ ProcessWrite \/ ProcessWritten
    BY <1>7, <2>1, MapProcess
  <2>2. CASE ~(ProcessScan \/ ProcessSynced \/ ProcessWrite \/ ProcessWritten)
    <3>1. mem' = mem
      BY <1>2, <1>7, <2>2, NoTransfer
    <3>2. ASSUME NEW c \in Channels, ChannelStep(c)
          PROVE  CountsInv' /\ (Copy!CopyNext \/ UNCHANGED Copy!copyVars)
      BY <3>1, <3>2, MapChannel, MapOthers DEF ChannelStep
    <3>3. CASE Software
      BY <3>1, <3>3, MapSoftware
    <3>4. CASE Reset
      BY <3>1, <3>4, MapReset
    <3>5. CASE DeltaCycle \/ TimePasses \/ ClearFlag \/ UpdateVector \/ IrqControl
      BY <3>1, <3>5, MapOthers
    <3>. QED  BY <1>7, <2>2, <3>2, <3>3, <3>4, <3>5 DEF Next, ControllerStep
  <2>. QED  BY <2>1, <2>2
<1>. QED  BY <1>5, <1>6, <1>7 DEF MemNext

\* In every behaviour in which the CPU stores to the memory the DMA copies in, the power
\* fails, and the software halts, resumes and reprograms channels, the controller copies
\* blocks as BlockCopy promises: each element once, in order, as it was at the moment it
\* is written; and a channel is flagged when its block is whole, or was cut by a power
\* failure.  For any channels, modes whose blocks end, priorities, memory delays and
\* triggers (Dma::process, DmaChannel::process, reset, updateChannelAddresses).
THEOREM DmaCopiesBlocks == BlocksEnd => (MemSpec => ImplementsBlockCopy)
<1>1. MemInit => Types /\ HandshakeInv /\ CountsInv /\ DataInv /\ Copy!CopyInit
  BY CopyInitially, TypesInitially, HandshakeInitially DEF MemInit
<1>2. SUFFICES ASSUME BlocksEnd PROVE MemSpec => ImplementsBlockCopy
  OBVIOUS
<1>. DEFINE I == Types /\ HandshakeInv /\ CountsInv /\ DataInv
<1>3. I /\ [MemNext]_<<vars, memVars>> => I' /\ [Copy!CopyNext]_Copy!copyVars
  BY <1>2, CopyStep
<1>. HIDE DEF I
<1>4. MemInit => I /\ Copy!CopyInit
  BY <1>1 DEF I
<1>. QED  BY <1>3, <1>4, PTL DEF MemSpec, ImplementsBlockCopy, Copy!CopySpec
=============================================================================
