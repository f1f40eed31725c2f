------------------------------- MODULE DmaCopy -------------------------------
(***************************************************************************)
(* The DMA controller with the memory it copies in, to which the CPU       *)
(* stores too: readMem(), writeMem() of the CPU and the two b_transport()  *)
(* calls of Dma::process.  It implements BlockCopy.                        *)
(***************************************************************************)
EXTENDS Dma

CONSTANTS
    Cells,     \* the addresses whose contents are looked at
    Values,    \* what they may hold
    Other      \* what the other addresses hold

\* The two modes that copy without end.  RepeatedBlock never counts down
\* (Dma.cpp:489), and RepeatedBurstBlock never leaves its loop (Dma.cpp:504).
Endless == {"RepeatedBlock", "RepeatedBurstBlock"}
BlocksEnd == \A cfg \in Configs : cfg.mode \notin Endless

VARIABLES
    mem,    \* the contents of the cells
    data    \* the element Dma::process holds between its read and its write

memVars == <<mem, data>>

Contents(m, a) == IF a \in Cells THEN m[a] ELSE Other
Stored(m, a, v) == [x \in Cells |-> IF x = a THEN v ELSE m[x]]

MemInit == Init /\ mem \in [Cells -> Values] /\ data \in Values

\* The bus transactions of Dma::process: the first begins the wait for the read,
\* the second the wait for the write.
ReadBegins == proc.at # "read" /\ proc'.at = "read"
WriteBegins == proc.at = "read" /\ proc'.at = "write"

Transfer ==
    /\ data' = IF ReadBegins THEN Contents(mem, proc'.from) ELSE data
    /\ mem' = IF WriteBegins THEN Stored(mem, ch[proc.channel].tDa, data) ELSE mem

\* writeMem() of the CPU, to memory.
CpuStore ==
    /\ Access
    /\ \E a \in Cells, v \in Values : mem' = Stored(mem, a, v)
    /\ UNCHANGED <<nxt, delta, regs, ch, flagTimed, clearIfg, job, due, acked, data>>

MemNext == (Next /\ Transfer) \/ CpuStore

MemSpec == MemInit /\ [][MemNext]_<<vars, memVars>>

-----------------------------------------------------------------------------
(* The blocks, as far as the software can see them *)

On(c, places) == proc.channel = c /\ proc.at \in places

\* The element of channel c that is being written has not reached its thread yet.
Beating(c) ==
    /\ On(c, {"write"})
    /\ ~sig.accept[c] \/ (<<"channel", c>> \in run /\ ch[c].at = "accept")

\* Dma::process has read an element of channel c, or is about to.
Committed(c) ==
    On(c, {"read"}) \/ (On(c, {"write"}) /\ proc.time = 0 /\ sig.pending[c])

\* Another element of channel c will be moved.
Underway(c) == Committed(c) \/ (ch[c].at # "trigger" /\ ~Beating(c))

IsRunning(c) ==
    /\ ch[c].enable
    /\ ch[c].at # "trigger" \/ (ch[c].mode \in Singles /\ ch[c].size # ch[c].tSize)

IsCut(c) == ~ch[c].enable /\ (ch[c].at # "trigger" \/ Committed(c))

IsHalted(c) == ch[c].at = "trigger" /\ ch[c].size \notin {0, ch[c].tSize}

\* The element that is being written counts before the thread has seen accept; an
\* element before a pause is counted after it.
Left(c) == ch[c].size - (IF Beating(c) THEN 1 ELSE 0) - (IF ch[c].at = "pause" THEN 1 ELSE 0)
From(c) == ch[c].tSa + (IF Beating(c) THEN ch[c].sInc ELSE 0)
To(c) == ch[c].tDa + (IF Beating(c) THEN ch[c].dInc ELSE 0)

Block(state, left, from, to, sInc, dInc) ==
    [state |-> state, left |-> left, from |-> from, to |-> to,
     sInc |-> sInc, dInc |-> dInc]

BlockOf(c) ==
    CASE IsRunning(c) ->
             Block("running", Left(c), From(c), To(c), ch[c].sInc, ch[c].dInc)
      [] ~IsRunning(c) /\ IsCut(c) ->
             IF Underway(c) THEN Block("cut", 1, ch[c].tSa, ch[c].tDa, 0, 0)
             ELSE Block("cut", 0, 0, 0, 0, 0)
      [] ~IsRunning(c) /\ ~IsCut(c) /\ IsHalted(c) ->
             Block("halted", ch[c].size, ch[c].tSa, ch[c].tDa, 0, 0)
      [] OTHER -> Block("idle", 0, 0, 0, 0, 0)

Blocks == [c \in Channels |-> BlockOf(c)]

Copy == INSTANCE BlockCopy WITH block <- Blocks, flagged <- Flagged

\* While the CPU stores to the same memory, the power fails and the software halts,
\* resumes and reprograms channels, Dma and DmaChannel copy blocks: each element is
\* moved once, in order, and as it was at the moment it is written, and a channel is
\* flagged when its block is whole, or was cut by a power failure.
ImplementsBlockCopy == Copy!CopySpec
=============================================================================
