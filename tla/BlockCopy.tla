------------------------------ MODULE BlockCopy ------------------------------
(***************************************************************************)
(* What a DMA controller promises the software, free of signals, threads,  *)
(* priorities and time: a block is copied one element at a time, in order, *)
(* each element at one instant although the processor stores to the same   *)
(* memory; and it is reported when, and only when, all of it was moved.    *)
(*                                                                         *)
(* A power failure cuts a block: at most one more element is moved, and    *)
(* the block is reported although it is not whole.  The software may halt  *)
(* a block between two triggers, and let it go on.                         *)
(***************************************************************************)
EXTENDS Integers

CONSTANTS
    Channels,
    Cells,   \* the addresses whose contents are looked at
    Other    \* what the other addresses hold

VARIABLES
    mem,     \* the contents of the cells
    block,   \* for each channel the block it copies, see Block
    flagged  \* the channels that reported a block

copyVars == <<mem, block, flagged>>

\* The elements left to move, and where the next one comes from and goes to.
Block(state, left, from, to, sInc, dInc) ==
    [state |-> state, left |-> left, from |-> from, to |-> to,
     sInc |-> sInc, dInc |-> dInc]

Idle == Block("idle", 0, 0, 0, 0, 0)

Contents(m, a) == IF a \in Cells THEN m[a] ELSE Other
Stored(m, a, v) == [x \in Cells |-> IF x = a THEN v ELSE m[x]]

CopyInit ==
    /\ DOMAIN mem = Cells
    /\ block = [c \in Channels |-> Idle]
    /\ flagged \subseteq Channels   \* interruptFlag is not initialized

\* Only channel c changes its block.
Only(c, b) == block' = [block EXCEPT ![c] = b]

\* A trigger starts a block.
Begin(c) ==
    /\ block[c].state \in {"idle", "halted"}
    /\ block'[c].state = "running" /\ block'[c].left >= 1
    /\ Only(c, block'[c])
    /\ UNCHANGED <<mem, flagged>>

\* The next element is copied.
CopyElement(c) == mem' = Stored(mem, block[c].to, Contents(mem, block[c].from))

Move(c) ==
    LET b == block[c]
    IN  /\ b.state = "running" /\ b.left > 0
        /\ CopyElement(c)
        /\ Only(c, Block("running", b.left - 1, b.from + b.sInc, b.to + b.dInc,
                         b.sInc, b.dInc))
        /\ UNCHANGED flagged

\* The whole block was moved.
Complete(c) ==
    /\ block[c].state = "running" /\ block[c].left = 0
    /\ Only(c, Idle)
    /\ flagged' = flagged \cup {c}
    /\ UNCHANGED mem

\* The software disables a block between two triggers, enables it again, or writes
\* the registers, which makes halted blocks forget how far they were.
Halt(c) ==
    /\ block[c].state = "running"
    /\ Only(c, Block("halted", block[c].left, block[c].from, block[c].to, 0, 0))
    /\ UNCHANGED <<mem, flagged>>

Resume(c) ==
    LET b == block[c]
    IN  /\ b.state = "halted"
        /\ Only(c, Block("running", b.left, b.from, b.to,
                         block'[c].sInc, block'[c].dInc))
        /\ UNCHANGED <<mem, flagged>>

Forget ==
    /\ \A c \in Channels :
          block'[c] # block[c] => block[c].state = "halted" /\ block'[c] = Idle
    /\ block' = [c \in Channels |-> block'[c]]
    /\ UNCHANGED <<mem, flagged>>

\* A power failure cuts every block, where the next element would have been moved.
Cut(b) == Block("cut", 1, b.from, b.to, 0, 0)
Spent == Block("cut", 0, 0, 0, 0, 0)

PowerFails ==
    /\ \A c \in Channels :
          \/ block'[c] = Idle
          \/ block[c].state = "running" /\ block'[c] = Cut(block[c])
          \/ block[c].state = "running" /\ block'[c] = Spent
          \/ block[c].state = "cut" /\ block'[c] = block[c]
    /\ block' = [c \in Channels |-> block'[c]]
    /\ flagged' = {}
    /\ UNCHANGED mem

\* A block that was cut: one last element, and a report.
Stray(c) ==
    /\ block[c].state = "cut" /\ block[c].left = 1
    /\ CopyElement(c)
    /\ \/ Only(c, Idle)
       \/ Only(c, Spent)
    /\ UNCHANGED flagged

GiveUp(c) ==
    /\ block[c].state = "cut"
    /\ Only(c, Idle) \/ UNCHANGED block
    /\ flagged' = flagged \cup {c}
    /\ UNCHANGED mem

Acknowledge(c) == flagged' = flagged \ {c} /\ UNCHANGED <<mem, block>>

\* The processor stores to the memory.
CpuWrites ==
    /\ \E a \in Cells : mem' = Stored(mem, a, mem'[a])
    /\ UNCHANGED <<block, flagged>>

CopyNext ==
    \/ \E c \in Channels :
          \/ Begin(c) \/ Move(c) \/ Complete(c) \/ Halt(c) \/ Resume(c)
          \/ Stray(c) \/ GiveUp(c) \/ Acknowledge(c)
    \/ Forget \/ PowerFails \/ CpuWrites

CopySpec == CopyInit /\ [][CopyNext]_copyVars
=============================================================================
