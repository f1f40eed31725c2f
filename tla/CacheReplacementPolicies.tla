---------------------- MODULE CacheReplacementPolicies ----------------------
(***************************************************************************)
(* The four replacement policies of mcu/CacheReplacementPolicies.hpp.      *)
(*                                                                         *)
(* Every set of the cache owns one policy object.  Its state is a record   *)
(* with the fields of all four classes, of which the configured one uses   *)
(* its own: lru, the list m_lru from the most to the least recent line;    *)
(* cnt, the position of RoundRobin; counters and tie, the use counts and   *)
(* the tie breaker of LFU.  PseudoRandom keeps one static shift register   *)
(* for all caches; its output is any line.                                 *)
(***************************************************************************)
EXTENDS Integers

CONSTANTS
    NLines,     \* CacheNLines
    Policy,     \* CacheReplacementPolicy
    Saturation  \* where a use count of LFU stops; Cache.cpp passes 64

ASSUME PolicyAssumption ==
    /\ NLines \in Nat \ {0}
    /\ Saturation \in Nat
    /\ Policy \in {"LRU", "LFU", "RoundRobin", "PseudoRandom"}

Lines == 0 .. NLines - 1

PolicyStates ==
    [lru : [1 .. NLines -> Lines], cnt : Lines,
     counters : [Lines -> 0 .. Saturation], tie : BOOLEAN]

PolicyInit ==
    [lru |-> [i \in 1 .. NLines |-> i - 1], cnt |-> 0,
     counters |-> [l \in Lines |-> 0], tie |-> FALSE]

-----------------------------------------------------------------------------
(* Least recently used *)

\* remove() of the p-th element, then push_front().
MoveToFront(q, p) ==
    [i \in 1 .. NLines |-> IF i = 1 THEN q[p]
                           ELSE IF i <= p THEN q[i - 1] ELSE q[i]]

\* Mutant: a hit does not count as a use.
LruHit_NoMove(r, l) == r

LruHit(r, l) ==
    [r EXCEPT !.lru = MoveToFront(@, CHOOSE p \in 1 .. NLines : r.lru[p] = l)]

LruMiss(r) ==
    {[line |-> r.lru[NLines], state |-> [r EXCEPT !.lru = MoveToFront(@, NLines)]]}

-----------------------------------------------------------------------------
(* Round robin *)

RoundRobinMiss(r) ==
    LET next == (r.cnt + 1) % NLines
    IN  {[line |-> next, state |-> [r EXCEPT !.cnt = next]]}

-----------------------------------------------------------------------------
(* Least frequently used *)

\* Mutant: the count is allowed to pass the limit by one.
LfuHit_OffByOne(r, l) ==
    [r EXCEPT !.counters[l] = IF @ <= Saturation THEN @ + 1 ELSE @]

LfuHit(r, l) ==
    [r EXCEPT !.counters[l] = IF @ < Saturation THEN @ + 1 ELSE @]

LeastUsed(r) == {l \in Lines : \A k \in Lines : r.counters[l] <= r.counters[k]}

\* The scan keeps the first line with the least count, and the last one if
\* there are several; the tie breaker alternates between the two.
LfuMiss(r) ==
    LET first == CHOOSE l \in LeastUsed(r) : \A k \in LeastUsed(r) : l <= k
        last  == CHOOSE l \in LeastUsed(r) : \A k \in LeastUsed(r) : k <= l
        victim == IF r.tie THEN first ELSE last
    IN  {[line |-> victim,
          state |-> [r EXCEPT !.counters[victim] = 0,
                              !.tie = IF first = last THEN @ ELSE ~@]]}

-----------------------------------------------------------------------------
(* The interface CacheReplacementIf, as the configured class implements it *)

Hit(r, l) ==
    CASE Policy = "LRU" -> LruHit(r, l)
      [] Policy = "LFU" -> LfuHit(r, l)
      [] OTHER -> r

\* The possible results of a miss: the victim and the next state.
Misses(r) ==
    CASE Policy = "LRU" -> LruMiss(r)
      [] Policy = "LFU" -> LfuMiss(r)
      [] Policy = "RoundRobin" -> RoundRobinMiss(r)
      [] OTHER -> {[line |-> l, state |-> r] : l \in Lines}

\* reset() leaves the tie breaker of LFU as it is.
PolicyReset(r) == [PolicyInit EXCEPT !.tie = r.tie]

=============================================================================
