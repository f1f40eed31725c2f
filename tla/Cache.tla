-------------------------------- MODULE Cache --------------------------------
(***************************************************************************)
(* The cache in front of the non-volatile memory: mcu/Cache.cpp, with the  *)
(* memory it fills from (mcu/GenericMemory.cpp).                           *)
(*                                                                         *)
(* An address is a set, a tag and an offset (module CacheAddress checks    *)
(* that the code's masks and shifts split addresses that way).  One access *)
(* of the processor is one action: b_transport() does not wait.            *)
(***************************************************************************)
EXTENDS CacheReplacementPolicies

CONSTANTS
    Sets, Tags, Offsets,
    Spans,         \* the sets of offsets one access may touch
    Vals,          \* the values of a byte
    WritePolicy,   \* CacheWritePolicy
    ResetVal,      \* 0xAA, what a reset leaves in the lines
    Debugger       \* whether a debugger writes to the memory

ASSUME CacheAssumption ==
    /\ Spans \subseteq SUBSET Offsets
    /\ WritePolicy \in {"WriteThrough", "WriteAround", "WriteBack"}
    /\ ResetVal \in Vals /\ 0 \in Tags
    /\ Debugger \in BOOLEAN

VARIABLES
    lines,   \* lines[s][l]: the cache lines of set s
    mem,     \* mem[s][t]: the line of memory with tag t in set s
    repl,    \* repl[s]: the replacement policy of set s
    reply    \* what the last read returned

cacheVars == <<lines, mem, repl, reply>>

Data == [Offsets -> Vals]
CacheLine == [valid : BOOLEAN, dirty : BOOLEAN, tag : Tags, data : Data]

CacheLineReset ==
    [valid |-> FALSE, dirty |-> FALSE, tag |-> 0,
     data |-> [o \in Offsets |-> ResetVal]]

Replies == {<<>>} \cup (UNION {[span -> Vals] : span \in Spans})

TypeOK ==
    /\ lines \in [Sets -> [Lines -> CacheLine]]
    /\ mem \in [Sets -> [Tags -> Data]]
    /\ repl \in [Sets -> PolicyStates]
    /\ reply \in Replies

\* The state after the first run of reset(); the memory holds the program.
Init ==
    /\ lines = [s \in Sets |-> [l \in Lines |-> CacheLineReset]]
    /\ mem \in [Sets -> [Tags -> Data]]
    /\ repl = [s \in Sets |-> PolicyInit]
    /\ reply = <<>>

-----------------------------------------------------------------------------
(* Helpers *)

\* memcpy() of some bytes into a line.
Merge(data, bytes) ==
    [o \in Offsets |-> IF o \in DOMAIN bytes THEN bytes[o] ELSE data[o]]

Holds(s, l, t) == lines[s][l].valid /\ lines[s][l].tag = t
\* Mutant: the search stops before the last line.
IsHit_SkipsLast(s, t) == \E l \in 0 .. NLines - 2 : Holds(s, l, t)

IsHit(s, t) == \E l \in Lines : Holds(s, l, t)
FindLine(s, t) ==
    CHOOSE l \in Lines : Holds(s, l, t) /\ \A k \in Lines : Holds(s, k, t) => l <= k

\* readLine(): a line filled from memory m.
ReadLine(m, s, t) ==
    [valid |-> TRUE, dirty |-> FALSE, tag |-> t, data |-> m[s][t]]

\* Mutant: the victim is written to the place of the line that replaces it.
WriteLine_WrongPlace(m, s, line) ==
    IF line.valid /\ line.dirty THEN [m EXCEPT ![s][0] = line.data] ELSE m

\* The memory after writeLine() of a victim that holds unsaved data.
WriteLine(m, s, line) ==
    IF line.valid /\ line.dirty THEN [m EXCEPT ![s][line.tag] = line.data] ELSE m

\* A write that goes to memory.
StoreBytes(m, s, t, bytes) == [m EXCEPT ![s][t] = Merge(@, bytes)]

-----------------------------------------------------------------------------
(* b_transport(): reads *)

ReadHit(s, t, span) ==
    /\ IsHit(s, t)
    /\ LET l == FindLine(s, t)
       IN  /\ repl' = [repl EXCEPT ![s] = Hit(@, l)]
           /\ reply' = [o \in span |-> lines[s][l].data[o]]
    /\ UNCHANGED <<lines, mem>>

ReadMiss(s, t, span) ==
    /\ ~IsHit(s, t)
    /\ \E miss \in Misses(repl[s]) :
        /\ repl' = [repl EXCEPT ![s] = miss.state]
        /\ mem' = WriteLine(mem, s, lines[s][miss.line])
        /\ lines' = [lines EXCEPT ![s][miss.line] = ReadLine(mem', s, t)]
        /\ reply' = [o \in span |-> mem'[s][t][o]]

-----------------------------------------------------------------------------
(* b_transport(): writes *)

\* Mutant: the line that held the bytes is kept.
WriteAroundHit_Keeps(s, t, bytes) ==
    /\ IsHit(s, t)
    /\ repl' = [repl EXCEPT ![s] = Hit(@, FindLine(s, t))]
    /\ mem' = StoreBytes(mem, s, t, bytes)
    /\ UNCHANGED <<lines, reply>>

\* Write around: memory only, and a line that held the bytes is dropped.
WriteAroundHit(s, t, bytes) ==
    /\ IsHit(s, t)
    /\ LET l == FindLine(s, t)
       IN  /\ repl' = [repl EXCEPT ![s] = Hit(@, l)]
           /\ lines' = [lines EXCEPT ![s][l].valid = FALSE]
    /\ mem' = StoreBytes(mem, s, t, bytes)
    /\ UNCHANGED reply

\* The policy has named a victim, which stays as it is.
WriteAroundMiss(s, t, bytes) ==
    /\ ~IsHit(s, t)
    /\ \E miss \in Misses(repl[s]) : repl' = [repl EXCEPT ![s] = miss.state]
    /\ mem' = StoreBytes(mem, s, t, bytes)
    /\ UNCHANGED <<lines, reply>>

\* Mutant: the line keeps its old data.
WriteThroughHit_MemoryOnly(s, t, bytes) ==
    /\ IsHit(s, t)
    /\ repl' = [repl EXCEPT ![s] = Hit(@, FindLine(s, t))]
    /\ mem' = StoreBytes(mem, s, t, bytes)
    /\ UNCHANGED <<lines, reply>>

\* Write through: the line and memory.
WriteThroughHit(s, t, bytes) ==
    /\ IsHit(s, t)
    /\ LET l == FindLine(s, t)
       IN  /\ repl' = [repl EXCEPT ![s] = Hit(@, l)]
           /\ lines' = [lines EXCEPT ![s][l].data = Merge(@, bytes)]
    /\ mem' = StoreBytes(mem, s, t, bytes)
    /\ UNCHANGED reply

WriteThroughMiss(s, t, bytes) ==
    /\ ~IsHit(s, t)
    /\ \E miss \in Misses(repl[s]) :
        /\ repl' = [repl EXCEPT ![s] = miss.state]
        /\ lines' = [lines EXCEPT ![s][miss.line] =
                       [ReadLine(mem, s, t) EXCEPT !.data = Merge(@, bytes)]]
    /\ mem' = StoreBytes(mem, s, t, bytes)
    /\ UNCHANGED reply

\* Mutant: the line is not marked dirty.
WriteBackHit_StaysClean(s, t, bytes) ==
    /\ IsHit(s, t)
    /\ repl' = [repl EXCEPT ![s] = Hit(@, FindLine(s, t))]
    /\ lines' = [lines EXCEPT ![s][FindLine(s, t)].data = Merge(@, bytes)]
    /\ UNCHANGED <<mem, reply>>

\* Write back: the line only; memory gets the victim's data.
WriteBackHit(s, t, bytes) ==
    /\ IsHit(s, t)
    /\ LET l == FindLine(s, t)
       IN  /\ repl' = [repl EXCEPT ![s] = Hit(@, l)]
           /\ lines' = [lines EXCEPT ![s][l].data = Merge(@, bytes),
                                     ![s][l].dirty = TRUE]
    /\ UNCHANGED <<mem, reply>>

WriteBackMiss(s, t, bytes) ==
    /\ ~IsHit(s, t)
    /\ \E miss \in Misses(repl[s]) :
        /\ repl' = [repl EXCEPT ![s] = miss.state]
        /\ mem' = WriteLine(mem, s, lines[s][miss.line])
        /\ lines' = [lines EXCEPT ![s][miss.line] =
                       [ReadLine(mem', s, t) EXCEPT !.data = Merge(@, bytes),
                                                    !.dirty = TRUE]]
    /\ UNCHANGED reply

\* The switch on m_writePolicy.
Write(s, t, bytes) ==
    CASE WritePolicy = "WriteAround" ->
             WriteAroundHit(s, t, bytes) \/ WriteAroundMiss(s, t, bytes)
      [] WritePolicy = "WriteThrough" ->
             WriteThroughHit(s, t, bytes) \/ WriteThroughMiss(s, t, bytes)
      [] WritePolicy = "WriteBack" ->
             WriteBackHit(s, t, bytes) \/ WriteBackMiss(s, t, bytes)

-----------------------------------------------------------------------------
(* Power and the debugger *)

\* reset(), on both edges of pwrOn: unsaved data is dropped.
Reset ==
    /\ lines' = [s \in Sets |-> [l \in Lines |-> CacheLineReset]]
    /\ repl' = [s \in Sets |-> PolicyReset(repl[s])]
    /\ UNCHANGED <<mem, reply>>

\* transport_dbg() goes to memory and leaves the lines alone.
DebugWrite(s, t, bytes) ==
    /\ Debugger
    /\ mem' = StoreBytes(mem, s, t, bytes)
    /\ UNCHANGED <<lines, repl, reply>>

Next ==
    \/ \E s \in Sets, t \in Tags, span \in Spans :
           ReadHit(s, t, span) \/ ReadMiss(s, t, span)
    \/ \E s \in Sets, t \in Tags, span \in Spans : \E bytes \in [span -> Vals] :
           Write(s, t, bytes) \/ DebugWrite(s, t, bytes)
    \/ Reset

Spec == Init /\ [][Next]_cacheVars

-----------------------------------------------------------------------------
(* Properties *)

\* At most one line of a set holds a tag (findLine() takes the first it meets,
\* so a second one would be a forgotten copy), whatever the accesses and resets.
UniqueTags ==
    \A s \in Sets, t \in Tags : \A l, k \in Lines :
        Holds(s, l, t) /\ Holds(s, k, t) => l = k

\* The sc_asserts of b_transport(), writeLine() and readLine(): a dirty line is
\* valid and exists only under write back; so a victim never carries unsaved data
\* into a write-around or write-through access.
DirtyAssertions ==
    \A s \in Sets, l \in Lines :
        lines[s][l].dirty => lines[s][l].valid /\ WritePolicy = "WriteBack"

\* A clean line agrees with memory (readLine(), writeLine(), the three write
\* policies), unless a debugger has changed memory behind the cache.
CleanLinesCoherent ==
    \A s \in Sets, l \in Lines :
        lines[s][l].valid /\ ~lines[s][l].dirty
            => lines[s][l].data = mem[s][lines[s][l].tag]

\* What the processor would read.
View(s, t) == IF IsHit(s, t) THEN lines[s][FindLine(s, t)].data ELSE mem[s][t]

\* The m_lru list always has every line exactly once, as hit() needs when it
\* removes a line by its number.
LruIsPermutation ==
    \A s \in Sets, l \in Lines :
        \E p \in 1 .. NLines :
            /\ repl[s].lru[p] = l
            /\ \A q \in 1 .. NLines : repl[s].lru[q] = l => q = p

\* Under write through and write around nothing is kept from memory, so a power
\* failure loses nothing (the comments of WP_WRITE_THROUGH and WP_WRITE_AROUND in
\* b_transport(): memory is updated by every write).
MemoryIsUpToDate == \A s \in Sets, t \in Tags : mem[s][t] = View(s, t)

\* A write is visible to the next read under every write policy, even while a
\* debugger changes memory behind the cache (b_transport() must update or drop
\* the line that holds the bytes).
WritesVisible ==
    [][\A s \in Sets, t \in Tags, span \in Spans : \A bytes \in [span -> Vals] :
         Write(s, t, bytes) => \A o \in span : View(s, t)'[o] = bytes[o]]_cacheVars

\* The cache with its memory is a memory whose places are the lines of memory.
Persistent == INSTANCE PersistentMemory WITH
    Places <- Sets \X Tags,
    view <- [p \in Sets \X Tags |-> View(p[1], p[2])],
    saved <- [p \in Sets \X Tags |-> mem[p[1]][p[2]]]

\* Every read returns the last write whatever was evicted in between, and a power
\* failure takes a line back to its last write-back, never to a mixture with
\* another line's data (the whole of b_transport() and reset()).
ImplementsPersistentMemory == Persistent!MemorySpec

=============================================================================
