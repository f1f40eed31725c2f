------------------------------- MODULE CacheLru -------------------------------
(***************************************************************************)
(* The cache with a record of which of its lines was used last, to compare *)
(* the victims the policy names with the least recently used line.  A line *)
(* is used by a hit and by being filled.                                   *)
(***************************************************************************)
EXTENDS Cache

VARIABLE newer   \* newer[s]: the pairs <<l, k>> where l was used after k

lruVars == <<cacheVars, newer>>

Use(order, l) ==
    {pair \in order : pair[2] # l} \cup {<<l, k>> : k \in Lines \ {l}}

\* The lines an access to tag t uses: the one that hits, or the one filled.
Uses(s, t) ==
    IF IsHit(s, t) THEN {FindLine(s, t)} ELSE {l \in Lines : Holds(s, l, t)'}

Note(s, t) ==
    newer' = [newer EXCEPT ![s] =
                IF Uses(s, t) = {} THEN @ ELSE Use(@, CHOOSE l \in Uses(s, t) : TRUE)]

LruInit == Init /\ newer = [s \in Sets |-> {}]

LruNext ==
    \/ \E s \in Sets, t \in Tags, span \in Spans :
           /\ ReadHit(s, t, span) \/ ReadMiss(s, t, span)
           /\ Note(s, t)
    \/ \E s \in Sets, t \in Tags, span \in Spans : \E bytes \in [span -> Vals] :
           Write(s, t, bytes) /\ Note(s, t)
    \/ Reset /\ newer' = [s \in Sets |-> {}]

LruSpec == LruInit /\ [][LruNext]_lruVars

\* "Least recently used replacement policy" (CacheReplacementPolicies.hpp:44):
\* a line that is replaced was not used after any other line of its set.
EvictsLeastRecent ==
    [][\A s \in Sets, l \in Lines :
         /\ lines[s][l].valid /\ lines'[s][l].valid
         /\ lines[s][l].tag # lines'[s][l].tag
         => \A k \in Lines : <<l, k>> \notin newer[s]]_lruVars
=============================================================================
