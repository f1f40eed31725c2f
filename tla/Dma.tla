--------------------------------- MODULE Dma ---------------------------------
(***************************************************************************)
(* The DMA controller of the Cortex-M0, mcu/cortex-m0/Dma.cpp: a thread    *)
(* per channel that follows the transfer mode, the thread Dma::process     *)
(* that moves the data for the channel it has picked, and the methods that *)
(* report finished jobs as an interrupt.  The controller of the MSP430     *)
(* (mcu/msp430fr5xx/Dma.cpp) has the same threads.                         *)
(*                                                                         *)
(* Signals and events follow the SystemC scheduler as in Cm0Kernel; time   *)
(* counts cycles of the system clock.  An address counts elements (bytes   *)
(* or words).  The software programs a channel while it is disabled.  The  *)
(* signal active says that active_exception is the DMA's exception.        *)
(***************************************************************************)
EXTENDS Integers, FiniteSets, FiniteSetsExt

CONSTANTS
    Channels,   \* the channels in use, a subset of 0..5
    Triggers,   \* the trigger inputs in use, a subset of 0..29
    Configs,    \* the jobs the software programs, see ConfigType
    Addresses,  \* what the software writes to DMAxSA, DMAxDA
    Undef,      \* 0xAAAA, those registers after a reset
    Delays,     \* how many cycles a memory access may take
    MaxAccesses, MaxTriggers, MaxPower, MaxExceptions,  \* bounds, see used
    MaxMoved    \* bound: elements a job may move (only RepeatedBlock meets it)

Modes == {"Single", "Block", "BurstBlock", "RepeatedSingle", "RepeatedBlock",
          "RepeatedBurstBlock"}

\* DMAxCTL and DMAxSZ.
ConfigType ==
    [mode : Modes, ie : BOOLEAN, sInc : -1..1, dInc : -1..1, sz : Nat \ {0}]
Sizes == {cfg.sz : cfg \in Configs}

ASSUME DmaAssumption ==
    /\ Channels \subseteq 0..5 /\ Channels # {}
    /\ 0 \in Triggers /\ Triggers \subseteq 0..29
    /\ \A cfg \in Configs : cfg \in ConfigType
    /\ Undef \in Nat \ Sizes
    /\ Addresses \subseteq Nat
    /\ Delays \subseteq Nat \ {0} /\ Delays # {}
    /\ {MaxAccesses, MaxTriggers, MaxPower, MaxExceptions, MaxMoved} \subseteq Nat

VARIABLES
    sig, nxt, run, delta,  \* signals and scheduler, as in Cm0Kernel
    regs,       \* DMAxSA, DMAxDA, DMAxSZ, the DMAEN bits and DMAIV
    ch,         \* the members of each DmaChannel and where its thread waits
    proc,       \* where Dma::process waits, and for which channel
    flagTimed,  \* m_updateIrqFlagEvent is notified for the next cycle
    setIrq, clearIfg,  \* m_setIrq, m_clearIfg
    cpuStalled, \* the CPU waits for the bus (readMem, writeMem)
    used,       \* how much of each bound has been used
    \* History, which no action reads:
    job,        \* job[c]: the job channel c works on
    due,        \* flagged channels that finished a job with DMAIE, still set
    acked       \* an acknowledgement that has not cleared a flag yet

kernelVars == <<sig, nxt, run, delta>>
irqVars == <<flagTimed, setIrq, clearIfg>>
vars == <<kernelVars, regs, ch, proc, irqVars, cpuStalled, used, job, due, acked>>

Processes == {<<"dma", 0>>, <<"cpu", 0>>, <<"interruptUpdate", 0>>, <<"irqControl", 0>>,
              <<"reset", 0>>} \cup ({"channel", "mux"} \X Channels)
Events == {<<"updateIrqFlag", 0>>, <<"updateIrq", 0>>}
          \cup ({"softwareTrigger"} \X Channels)

ChannelType ==
    [at : {"trigger", "accept", "pause"}, pause : 0..2,
     case : Modes,   \* the branch of the switch the thread is in
     mode : Modes, ie : BOOLEAN, sInc : -1..1, dInc : -1..1,
     enable : BOOLEAN, flag : BOOLEAN,
     size : Nat, tSize : Nat, sa : Nat, da : Nat, tSa : Int, tDa : Int]

TypeOK ==
    /\ sig \in [pwrOn : BOOLEAN, in : [Triggers -> BOOLEAN],
                select : [Channels -> Triggers], trigger : [Channels -> BOOLEAN],
                pending : [Channels -> BOOLEAN], accept : [Channels -> BOOLEAN],
                busStall : BOOLEAN, irq : BOOLEAN,
                active : BOOLEAN]
    /\ DOMAIN nxt = DOMAIN sig
    /\ run \subseteq Processes /\ delta \subseteq Events
    /\ \A c \in Channels : ch[c] \in ChannelType
    /\ proc.at \in {"idle", "sync", "read", "write"} /\ proc.time \in Nat
    /\ {flagTimed, setIrq, clearIfg, cpuStalled, acked} \subseteq BOOLEAN
    /\ due \subseteq Channels

-----------------------------------------------------------------------------
(* Power-on state *)

SignalInit ==
    [pwrOn |-> FALSE, in |-> [i \in Triggers |-> FALSE],
     select |-> [c \in Channels |-> 0], trigger |-> [c \in Channels |-> FALSE],
     pending |-> [c \in Channels |-> FALSE], accept |-> [c \in Channels |-> FALSE],
     busStall |-> FALSE, irq |-> FALSE, active |-> FALSE]

RegsReset ==
    [sa |-> [c \in Channels |-> Undef], da |-> [c \in Channels |-> Undef],
     sz |-> [c \in Channels |-> Undef], en |-> [c \in Channels |-> FALSE], iv |-> 0]

\* DmaChannel::reset(): m_tSize, the internal addresses, interruptEnable, the
\* pending signal and the thread's place are not touched.
ChannelReset(k) ==
    [k EXCEPT !.size = 0, !.sa = 0, !.da = 0, !.sInc = 0, !.dInc = 0,
              !.enable = FALSE, !.mode = "Single", !.flag = FALSE]

ChannelInit ==
    [at |-> "trigger", pause |-> 0, case |-> "Single", mode |-> "Single",
     ie |-> FALSE, sInc |-> 0, dInc |-> 0, enable |-> FALSE, flag |-> FALSE,
     size |-> 0, tSize |-> 0, sa |-> 0, da |-> 0, tSa |-> 0, tDa |-> 0]

NoJob == [live |-> FALSE, done |-> FALSE, moved |-> 0, n |-> 0, src |-> 0, dst |-> 0]

Init ==
    /\ sig = SignalInit /\ nxt = SignalInit
    /\ run = {<<"interruptUpdate", 0>>, <<"reset", 0>>} /\ delta = {}
    /\ regs = RegsReset
    /\ \E flagged \in SUBSET Channels :   \* interruptFlag is not initialized
          ch = [c \in Channels |-> [ChannelInit EXCEPT !.flag = c \in flagged]]
    /\ proc = [at |-> "idle", channel |-> Min(Channels), time |-> 0, from |-> 0]
    /\ flagTimed = FALSE /\ setIrq = FALSE
    /\ clearIfg \in BOOLEAN   \* nor is m_clearIfg
    /\ cpuStalled = FALSE
    /\ used = [accesses |-> 0, triggers |-> 0, power |-> 0, exceptions |-> 0]
    /\ job = [c \in Channels |-> NoJob] /\ due = {} /\ acked = FALSE

-----------------------------------------------------------------------------
(* The scheduler *)

Evaluate(name, c) == <<name, c>> \in run /\ run' = run \ {<<name, c>>}
Settled == run = {} /\ delta = {} /\ nxt = sig
Changed(s) == nxt[s] # sig[s]
Posedge(s, c) == nxt[s][c] /\ ~sig[s][c]

Woken(c) ==
    \/ /\ ch[c].at = "trigger"
       /\ Posedge("trigger", c) \/ <<"softwareTrigger", c>> \in delta
    \/ ch[c].at = "accept" /\ Posedge("accept", c)

MuxTriggered(c) ==
    \/ Changed("pwrOn")
    \/ nxt.select[c] # sig.select[c]
    \/ nxt.in[sig.select[c]] # sig.in[sig.select[c]]

Triggered ==
    {<<"channel", c>> : c \in {d \in Channels : Woken(d)}}
    \cup {<<"mux", c>> : c \in {d \in Channels : MuxTriggered(d)}}
    \cup {p \in Processes :
            \/ /\ p = <<"dma", 0>> /\ proc.at = "idle"
               /\ \E c \in Channels : Posedge("pending", c)
            \/ /\ p = <<"cpu", 0>> /\ cpuStalled
               /\ sig.busStall /\ ~nxt.busStall
            \/ p = <<"interruptUpdate", 0>> /\ <<"updateIrqFlag", 0>> \in delta
            \/ /\ p = <<"irqControl", 0>>
               /\ Changed("active") \/ <<"updateIrq", 0>> \in delta
            \/ p = <<"reset", 0>> /\ Changed("pwrOn")}

DeltaCycle ==
    /\ run = {} /\ ~Settled
    /\ sig' = nxt /\ run' = Triggered /\ delta' = {}
    /\ UNCHANGED <<nxt, regs, ch, proc, irqVars, cpuStalled, used, job, due, acked>>

\* m_updateIrqFlagEvent.notify(SC_ZERO_TIME) replaces a later notification.
NotifyFlagEvent ==
    delta' = delta \cup {<<"updateIrqFlag", 0>>} /\ flagTimed' = FALSE

\* One cycle later: the waits that are over resume, and in the same delta cycle
\* the trigger inputs, the supply and the CPU's exception may change and the CPU
\* may access a register.
Resumed ==
    (IF proc.time = 1 THEN {<<"dma", 0>>} ELSE {})
    \cup {<<"channel", c>> : c \in {d \in Channels : ch[d].pause = 1}}
    \cup (IF flagTimed THEN {<<"interruptUpdate", 0>>} ELSE {})

Cycle(in, active, pwrOn, cpu) ==
    /\ Settled
    /\ run' = Resumed \cup cpu
    /\ proc' = [proc EXCEPT !.time = IF @ = 0 THEN 0 ELSE @ - 1]
    /\ ch' = [c \in Channels |->
                [ch[c] EXCEPT !.pause = IF @ = 0 THEN 0 ELSE @ - 1]]
    /\ nxt' = [nxt EXCEPT !.in = in, !.active = active, !.pwrOn = pwrOn]
    /\ flagTimed' = FALSE
    /\ used' = [used EXCEPT
                  !.triggers = IF in = sig.in THEN @ ELSE @ + 1,
                  !.power = IF pwrOn = sig.pwrOn THEN @ ELSE @ + 1,
                  !.exceptions = IF active = sig.active THEN @ ELSE @ + 1]
    /\ UNCHANGED <<sig, delta, regs, setIrq, clearIfg, cpuStalled, job, due, acked>>

TimePasses ==
    \E in \in [Triggers -> BOOLEAN], active, pwrOn \in BOOLEAN,
       cpu \in SUBSET {<<"cpu", 0>>} :
        /\ cpu # {} => sig.pwrOn /\ ~cpuStalled /\ used.accesses < MaxAccesses
        /\ \A c \in Channels : job[c].live => job[c].moved < MaxMoved
        /\ in # sig.in => used.triggers < MaxTriggers
        /\ active # sig.active => used.exceptions < MaxExceptions /\ sig.pwrOn
        /\ active => sig.irq \/ sig.active
        /\ pwrOn # sig.pwrOn => used.power < MaxPower
        /\ Cycle(in, active, pwrOn, cpu)

-----------------------------------------------------------------------------
(* TriggerMux::process *)

Mux(c) ==
    /\ Evaluate("mux", c)
    /\ nxt' = [nxt EXCEPT !.trigger[c] = sig.pwrOn /\ sig.in[sig.select[c]]]
    /\ UNCHANGED <<sig, delta, regs, ch, proc, irqVars, cpuStalled, used, job, due,
                   acked>>

-----------------------------------------------------------------------------
(* DmaChannel::process *)

Singles == {"Single", "RepeatedSingle"}
Bursts == {"BurstBlock", "RepeatedBurstBlock"}

\* Load the internal address registers.
Loaded(k) == [k EXCEPT !.tSa = k.sa, !.tDa = k.da]

\* updateAddresses()
UpdateAddresses(k) == [k EXCEPT !.tSa = @ + k.sInc, !.tDa = @ + k.dInc]

\* A trigger starts a block, or one transfer of a single-transfer job.
LoadsAddresses(k) == k.mode \in Singles => k.size = k.tSize
Start(k) ==
    [(IF LoadsAddresses(k) THEN Loaded(k) ELSE k) EXCEPT
        !.size = IF k.mode \in Singles THEN @ ELSE k.tSize,
        !.at = "accept", !.case = k.mode]

\* Delay for 2 cycles every 4 transfers.
Pauses(k) == k.case \in Bursts /\ k.size > 0 /\ k.size < k.tSize /\ k.size % 4 = 0

\* Mutant: the count runs to 0.
LastBeat_OffByOne(k) ==
    CASE k.case \in Singles -> k.size <= 0
      [] k.case = "RepeatedBlock" -> ~k.enable
      [] OTHER -> ~k.enable \/ k.size = 0

\* Mutant: a block does not notice that it was disabled.
LastBeat_IgnoresDisable(k) == k.size = 1

\* The job is done, or it was disabled.
LastBeat(k) ==
    CASE k.case \in Singles -> k.size <= 1
      [] k.case = "RepeatedBlock" -> ~k.enable
      [] OTHER -> ~k.enable \/ k.size = 1

\* After the last transfer: the size is reset, the flag raised; only a repeated
\* burst keeps going.
Finished(k) ==
    LET done == [k EXCEPT !.size = k.tSize, !.flag = TRUE]
    IN  CASE k.case = "RepeatedBurstBlock" -> Loaded([done EXCEPT !.at = "accept"])
          [] k.case \in {"RepeatedSingle", "RepeatedBlock"} ->
                 [done EXCEPT !.at = "trigger"]
          [] OTHER -> [done EXCEPT !.at = "trigger", !.enable = FALSE]

AfterBeat(k) ==
    IF LastBeat(k) THEN Finished(k)
    ELSE [k EXCEPT !.size = IF k.case = "RepeatedBlock" THEN @ ELSE @ - 1,
                   !.at = IF k.case \in Singles THEN "trigger" ELSE "accept"]

\* The thread goes on with members k; pending is up while it waits for accept.
ChannelBecomes(c, k) ==
    /\ ch' = [ch EXCEPT ![c] = k]
    /\ nxt' = [nxt EXCEPT !.pending[c] = k.at # "trigger"]
    /\ UNCHANGED <<sig, delta, regs, proc, irqVars, cpuStalled, used, due, acked>>

NewJob(k) == [live |-> TRUE, done |-> FALSE, moved |-> 0, n |-> k.tSize,
              src |-> k.sa, dst |-> k.da]

ChannelTrigger(c) ==
    /\ Evaluate("channel", c)
    /\ ch[c].at = "trigger"
    /\ ChannelBecomes(c, IF ch[c].enable THEN Start(ch[c]) ELSE ch[c])
    /\ job' = IF ch[c].enable /\ LoadsAddresses(ch[c])
              THEN [job EXCEPT ![c] = NewJob(ch[c])] ELSE job

JobAfterBeat(c) ==
    IF ~LastBeat(ch[c]) THEN job
    ELSE [job EXCEPT ![c] =
            IF ch[c].case = "RepeatedBurstBlock" /\ @.live /\ @.moved = @.n
            THEN NewJob(ch[c])
            ELSE [@ EXCEPT !.live = FALSE, !.done = job[c].live]]

ChannelAccept(c) ==
    /\ Evaluate("channel", c)
    /\ ch[c].at = "accept"
    /\ LET k == UpdateAddresses(ch[c])
       IN  IF Pauses(k)
           THEN /\ ChannelBecomes(c, [k EXCEPT !.at = "pause", !.pause = 2])
                /\ UNCHANGED job
           ELSE ChannelBecomes(c, AfterBeat(k)) /\ job' = JobAfterBeat(c)

ChannelResume(c) ==
    /\ Evaluate("channel", c)
    /\ ch[c].at = "pause"
    /\ ChannelBecomes(c, AfterBeat(ch[c]))
    /\ job' = JobAfterBeat(c)

-----------------------------------------------------------------------------
(* Dma::process *)

Pending == {c \in Channels : sig.pending[c]}

\* Mutant: the bus stays stalled when there is nothing left to do.
Scanned_KeepsStall ==
    IF Pending = {} THEN [stall |-> TRUE, proc |-> [proc EXCEPT !.at = "idle"]]
    ELSE [stall |-> TRUE,
          proc |-> [proc EXCEPT !.at = "sync", !.channel = Min(Pending), !.time = 1]]

\* Mutant: the CPU is not held off the bus while elements are moved.
Scanned_NoStall ==
    IF Pending = {} THEN [stall |-> FALSE, proc |-> [proc EXCEPT !.at = "idle"]]
    ELSE [stall |-> FALSE,
          proc |-> [proc EXCEPT !.at = "sync", !.channel = Min(Pending), !.time = 1]]

\* The top of the loop: stall the bus for the lowest pending channel, or wait.
Scanned ==
    IF Pending = {} THEN [stall |-> FALSE, proc |-> [proc EXCEPT !.at = "idle"]]
    ELSE [stall |-> TRUE,
          proc |-> [proc EXCEPT !.at = "sync", !.channel = Min(Pending), !.time = 1]]

ProcessScan ==
    /\ Evaluate("dma", 0)
    /\ proc.at = "idle"
    /\ proc' = Scanned.proc
    /\ nxt' = [nxt EXCEPT !.busStall = Scanned.stall]
    /\ UNCHANGED <<sig, delta, regs, ch, irqVars, cpuStalled, used, job, due, acked>>

\* The test of the inner loop: read the next element, or leave the channel.
ReadNext(c) ==
    /\ sig.pending[c]
    /\ \E d \in Delays :
        proc' = [proc EXCEPT !.at = "read", !.time = d, !.from = ch[c].tSa]
    /\ nxt' = [nxt EXCEPT !.accept[c] = FALSE]
    /\ UNCHANGED <<delta, flagTimed, due>>

Leave(c) ==
    /\ ~sig.pending[c]
    /\ IF ch[c].flag /\ ch[c].ie
       THEN NotifyFlagEvent /\ due' = due \cup {c}
       ELSE UNCHANGED <<delta, flagTimed, due>>
    /\ proc' = Scanned.proc
    /\ nxt' = [nxt EXCEPT !.accept[c] = FALSE, !.busStall = Scanned.stall]

\* The bus is synchronized; the channel is still pending.
ProcessSynced ==
    /\ Evaluate("dma", 0)
    /\ proc.at = "sync"
    /\ ReadNext(proc.channel)
    /\ UNCHANGED <<sig, regs, ch, setIrq, clearIfg, cpuStalled, used, job, acked>>

\* The element has been read: it is written while the channel sees accept.
ProcessWrite ==
    /\ Evaluate("dma", 0)
    /\ proc.at = "read"
    /\ \E d \in Delays : proc' = [proc EXCEPT !.at = "write", !.time = d]
    /\ nxt' = [nxt EXCEPT !.accept[proc.channel] = TRUE]
    /\ job' = IF job[proc.channel].live
              THEN [job EXCEPT ![proc.channel].moved = @ + 1] ELSE job
    /\ UNCHANGED <<sig, delta, regs, ch, irqVars, cpuStalled, used, due, acked>>

\* DMAxSZ follows the channel; DMAEN is cleared on leaving a disabled channel.
ProcessWritten ==
    /\ Evaluate("dma", 0)
    /\ proc.at = "write"
    /\ LET c == proc.channel
       IN  /\ ReadNext(c) \/ Leave(c)
           /\ regs' = [regs EXCEPT
                         !.sz[c] = ch[c].size,
                         !.en[c] = @ /\ (sig.pending[c] \/ ch[c].enable)]
    /\ UNCHANGED <<sig, ch, setIrq, clearIfg, cpuStalled, used, job, acked>>

-----------------------------------------------------------------------------
(* Interrupts *)

Flagged == {c \in Channels : ch[c].flag}

\* interruptUpdate(): with m_clearIfg set, clear the first flag and come again.
ClearFlag ==
    /\ Evaluate("interruptUpdate", 0)
    /\ clearIfg /\ Flagged # {}
    /\ ch' = [ch EXCEPT ![Min(Flagged)].flag = FALSE]
    /\ NotifyFlagEvent
    /\ due' = due \ {Min(Flagged)}
    /\ acked' = FALSE
    /\ UNCHANGED <<sig, nxt, regs, proc, setIrq, clearIfg, cpuStalled, used, job>>

UpdateVector ==
    /\ Evaluate("interruptUpdate", 0)
    /\ ~clearIfg \/ Flagged = {}
    /\ clearIfg' = FALSE
    /\ regs' = [regs EXCEPT !.iv = IF Flagged = {} THEN 0
                                       ELSE 2^(Min(Flagged) + 1)]
    /\ IF Flagged # {} /\ ch[Min(Flagged)].ie
       THEN setIrq' = TRUE /\ delta' = delta \cup {<<"updateIrq", 0>>}
       ELSE UNCHANGED <<setIrq, delta>>
    /\ acked' = FALSE
    /\ UNCHANGED <<sig, nxt, ch, proc, flagTimed, cpuStalled, used, job, due>>

\* irqControl(): the start of the handler lowers the line and acknowledges.
Acknowledges == sig.pwrOn /\ ~(setIrq /\ ~sig.irq) /\ sig.active

\* Mutant: the line is not raised while the handler runs.
IrqControl_NotInHandler ==
    /\ Evaluate("irqControl", 0)
    /\ nxt' = [nxt EXCEPT !.irq = sig.pwrOn /\ ~sig.active /\ (setIrq \/ @)]
    /\ setIrq' = FALSE
    /\ IF sig.pwrOn /\ sig.active /\ ~setIrq
       THEN NotifyFlagEvent /\ clearIfg' = TRUE /\ acked' = TRUE
       ELSE UNCHANGED <<delta, flagTimed, clearIfg, acked>>
    /\ UNCHANGED <<sig, regs, ch, proc, cpuStalled, used, job, due>>

IrqControl ==
    /\ Evaluate("irqControl", 0)
    /\ nxt' = [nxt EXCEPT
                 !.irq = CASE ~sig.pwrOn -> FALSE
                           [] sig.pwrOn /\ setIrq /\ ~sig.irq -> TRUE
                           [] Acknowledges -> FALSE
                           [] OTHER -> @]
    /\ setIrq' = FALSE
    /\ IF Acknowledges
       THEN NotifyFlagEvent /\ clearIfg' = TRUE /\ acked' = TRUE
       ELSE UNCHANGED <<delta, flagTimed, clearIfg, acked>>
    /\ UNCHANGED <<sig, regs, ch, proc, cpuStalled, used, job, due>>

-----------------------------------------------------------------------------
(* Dma::reset, on both edges of pwrOn *)

Aborted(j) == [j EXCEPT !.live = FALSE, !.done = FALSE]

Reset ==
    /\ Evaluate("reset", 0)
    /\ regs' = RegsReset
    /\ ch' = [c \in Channels |-> ChannelReset(ch[c])]
    /\ job' = [c \in Channels |-> Aborted(job[c])] /\ due' = {}
    /\ UNCHANGED <<sig, nxt, delta, proc, irqVars, cpuStalled, used, acked>>

-----------------------------------------------------------------------------
(* Dma::b_transport: register accesses of the CPU *)

\* readMem(), writeMem(): a stalled bus holds the CPU up, even past a power
\* failure.
CpuWaits ==
    /\ Evaluate("cpu", 0)
    /\ sig.busStall
    /\ cpuStalled' = TRUE
    /\ UNCHANGED <<sig, nxt, delta, regs, ch, proc, irqVars, used, job, due, acked>>

Access ==
    /\ Evaluate("cpu", 0)
    /\ ~sig.busStall
    /\ cpuStalled' = FALSE
    /\ used' = [used EXCEPT !.accesses = @ + 1]
    /\ UNCHANGED <<sig, proc, setIrq>>

\* Mutant: the internal addresses follow the registers too.
UpdateChannelAddresses_Internal(r) ==
    ch' = [c \in Channels |->
             [ch[c] EXCEPT !.sa = r.sa[c], !.da = r.da[c], !.size = r.sz[c],
                           !.tSa = r.sa[c], !.tDa = r.da[c],
                           !.tSize = IF ch[c].enable THEN @ ELSE r.sz[c]]]

\* updateChannelAddresses(), after any access from DMA0SA to DMA5SZ, for all
\* channels.
UpdateChannelAddresses(r) ==
    ch' = [c \in Channels |->
             [ch[c] EXCEPT !.sa = r.sa[c], !.da = r.da[c], !.size = r.sz[c],
                           !.tSize = IF ch[c].enable THEN @ ELSE r.sz[c]]]

AccessAddresses(r) ==
    /\ Access
    /\ regs' = r
    /\ UpdateChannelAddresses(r)
    /\ UNCHANGED <<nxt, delta, flagTimed, clearIfg, job, due, acked>>

ReadAddresses == AccessAddresses(regs)

WriteAddresses ==
    \E c \in Channels :
        /\ ~ch[c].enable
        /\ \/ \E a \in Addresses : AccessAddresses([regs EXCEPT !.sa[c] = a])
           \/ \E a \in Addresses : AccessAddresses([regs EXCEPT !.da[c] = a])
           \/ \E n \in Sizes : AccessAddresses([regs EXCEPT !.sz[c] = n])

\* DMAxCTL: updateConfig().
WriteCTL(c, cfg, enable, request) ==
    /\ Access
    /\ regs' = [regs EXCEPT !.en[c] = enable]
    /\ ch' = [ch EXCEPT ![c].mode = cfg.mode, ![c].ie = cfg.ie, ![c].sInc = cfg.sInc,
                        ![c].dInc = cfg.dInc, ![c].enable = enable]
    /\ delta' = IF request THEN delta \cup {<<"softwareTrigger", c>>} ELSE delta
    /\ job' = IF enable /\ ch[c].enable THEN job
              ELSE [job EXCEPT ![c] = Aborted(@)]
    /\ due' = IF cfg.ie THEN due ELSE due \ {c}
    /\ UNCHANGED <<nxt, flagTimed, clearIfg, acked>>

Configured(k, cfg) ==
    /\ k.mode = cfg.mode /\ k.ie = cfg.ie /\ k.sInc = cfg.sInc /\ k.dInc = cfg.dInc

\* The software enables a programmed channel, triggers or disables it.
Configure ==
    \E c \in Channels, cfg \in Configs, enable, request \in BOOLEAN :
        /\ IF ch[c].enable THEN Configured(ch[c], cfg)
           ELSE enable /\ regs.sz[c] = cfg.sz
        /\ request => enable
        /\ WriteCTL(c, cfg, enable, request)

\* DMACTL0..2: setTrigger().
SelectTrigger ==
    \E select \in [Channels -> Triggers] :
        /\ Access
        /\ nxt' = [nxt EXCEPT !.select = select]
        /\ UNCHANGED <<regs, ch, delta, flagTimed, clearIfg, job, due, acked>>

\* DMAIV: the vector is cleared now, the flag at the end of the access.
AccessIV ==
    /\ Access
    /\ regs' = [regs EXCEPT !.iv = 0]
    /\ clearIfg' = TRUE
    /\ flagTimed' = (<<"updateIrqFlag", 0>> \notin delta)
    /\ acked' = TRUE
    /\ UNCHANGED <<nxt, ch, delta, job, due>>

Software ==
    \/ CpuWaits \/ ReadAddresses \/ WriteAddresses
    \/ Configure \/ SelectTrigger \/ AccessIV

-----------------------------------------------------------------------------

ChannelStep(c) ==
    Mux(c) \/ ChannelTrigger(c) \/ ChannelAccept(c) \/ ChannelResume(c)

ControllerStep ==
    \/ ProcessScan \/ ProcessSynced \/ ProcessWrite \/ ProcessWritten
    \/ ClearFlag \/ UpdateVector \/ IrqControl \/ Reset

Next ==
    \/ DeltaCycle \/ TimePasses \/ Software \/ ControllerStep
    \/ \E c \in Channels : ChannelStep(c)

Spec == Init /\ [][Next]_vars

(***************************************************************************)
(* Fairness: the simulation goes on.  Within an instant there are finitely *)
(* many steps, and the waits of the threads count cycles down, so nothing  *)
(* more is needed.                                                         *)
(***************************************************************************)
FairSpec == Spec /\ WF_vars(Next)

-----------------------------------------------------------------------------
(* Properties *)

\* Every transfer moves the next element of its job, from its place in the source
\* to its place in the destination (Dma::process sets the addresses, the channel's
\* thread advances them when it sees accept, two cycles of a burst's pause race
\* the next accept, and programming another channel rewrites this one's members).
ElementsInPlace ==
    [][proc.at = "read" /\ proc'.at = "write" /\ job[proc.channel].live =>
         LET c == proc.channel
         IN  /\ proc.from = job[c].src + job[c].moved * ch[c].sInc
             /\ ch[c].tDa = job[c].dst + job[c].moved * ch[c].dInc]_vars

\* A job that is reported as done has moved every element of its block once, and
\* no job moves more ("Transfer whole block after first trigger", Dma.cpp:416).
\* RepeatedBlock is the exception: it never counts.
WholeBlock ==
    \A c \in Channels :
        /\ job[c].done => job[c].moved = job[c].n
        /\ job[c].live /\ ch[c].case # "RepeatedBlock" => job[c].moved <= job[c].n

\* No lost completion (Dma::process, interruptUpdate, irqControl): while a job
\* that finished with its interrupt enabled is flagged, the line is up, unless a
\* channel that finished with its interrupt disabled hides it.
NoLostCompletion ==
    /\ Settled /\ proc.at = "idle" /\ sig.pwrOn /\ ~flagTimed
    /\ due # {} /\ Flagged \subseteq due
    => sig.irq

\* The CPU gets the bus back (busStall, the loops of the channel's thread), unless
\* a repeated block or burst is running, which never ends.
BusReleased ==
    sig.busStall ~>
        \/ ~sig.busStall
        \/ \E c \in Channels :
              /\ sig.pending[c]
              /\ ch[c].case \in {"RepeatedBlock", "RepeatedBurstBlock"}

\* "Clear pending and set next pending" (Dma.cpp:155), "Clear highest priority
\* pending flag & re-update interrupt state" (Dma.cpp:248): an acknowledgement
\* clears the flag of one completion.  m_clearIfg stays set until all are cleared.
OneFlagPerAcknowledgement ==
    [][\A c \in due :
         ch[c].flag /\ ~ch'[c].flag /\ <<"interruptUpdate", 0>> \in run \ run'
             => acked]_vars

\* "Continue burst-transfer indefinitely after first trigger, until breakout condition"
\* (Dma.cpp:501): a repeated burst whose channel is disabled ends.  The break of
\* Dma.cpp:520 leaves only the inner loop.
BurstBreaksOut ==
    \A c \in Channels :
        sig.pending[c] /\ ch[c].case = "RepeatedBurstBlock" /\ ~ch[c].enable
            ~> ~sig.pending[c]
=============================================================================
