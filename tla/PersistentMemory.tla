-------------------------- MODULE PersistentMemory --------------------------
(***************************************************************************)
(* What a memory behind a cache promises to the processor on an            *)
(* intermittent supply: a read returns what was last written, and a change *)
(* of the supply takes every place back to a value it had at some moment   *)
(* since it was last saved.  Nothing is said about when a place is saved.  *)
(***************************************************************************)
CONSTANTS
    Places,    \* what is saved as a whole
    Offsets,   \* the bytes of a place
    Spans,     \* the sets of bytes one access may touch
    Vals       \* the values of a byte

VARIABLES
    view,      \* what the processor reads
    saved,     \* what survives
    reply      \* the answer to the last read

memoryVars == <<view, saved, reply>>

Contents == [Places -> [Offsets -> Vals]]
Merge(data, bytes) ==
    [o \in Offsets |-> IF o \in DOMAIN bytes THEN bytes[o] ELSE data[o]]

MemoryInit ==
    /\ view \in Contents
    /\ saved = view
    /\ reply = <<>>

SaveSome ==
    \A p \in Places : saved'[p] = saved[p] \/ saved'[p] = view'[p]

MemoryRead(p, span) ==
    /\ reply' = [o \in span |-> view[p][o]]
    /\ view' = view
    /\ saved' \in Contents
    /\ SaveSome

MemoryWrite(p, bytes) ==
    /\ view' = [view EXCEPT ![p] = Merge(@, bytes)]
    /\ saved' \in Contents
    /\ SaveSome
    /\ reply' = reply

SupplyChange ==
    /\ view' = saved
    /\ saved' = saved
    /\ reply' = reply

MemoryNext ==
    \/ \E p \in Places, span \in Spans : MemoryRead(p, span)
    \/ \E p \in Places : \E span \in Spans : \E bytes \in [span -> Vals] :
           MemoryWrite(p, bytes)
    \/ SupplyChange

MemorySpec == MemoryInit /\ [][MemoryNext]_memoryVars
=============================================================================
