---------------------------- MODULE CacheLru_proofs ----------------------------
(***************************************************************************)
(* LRU replaces the least recently used line, for every number of sets,    *)
(* lines and tags, where every miss fills a line: under write through and  *)
(* write back.  (Under write around a miss moves its victim to the front   *)
(* of the list without filling it, and the theorem does not hold.)         *)
(***************************************************************************)
EXTENDS CacheLru, Cache_proofs

-----------------------------------------------------------------------------
(* The list m_lru is sorted by last use *)

\* A line that was used after another one is nearer to the front of the list.
Sorted(q, order) ==
    \A i, j \in 1 .. NLines : <<q[i], q[j]>> \in order => i < j

SortedInv == \A s \in Sets : Sorted(repl[s].lru, newer[s])

\* Moving the line that is used to the front keeps the list sorted.
LEMMA MoveToFrontSorts ==
    ASSUME NEW q \in [1 .. NLines -> Lines], Permutes(q), NEW p \in 1 .. NLines,
           NEW order, Sorted(q, order)
    PROVE  Sorted(MoveToFront(q, p), Use(order, q[p]))
<1> DEFINE r == MoveToFront(q, p)
           l == q[p]
           Was(i) == IF i <= p THEN i - 1 ELSE i
<1>1. /\ Permutes(r)
      /\ r[1] = l
      /\ \A i \in 2 .. NLines : Was(i) \in 1 .. NLines /\ r[i] = q[Was(i)]
  <2>1. Permutes(r)
    BY MoveToFrontGood
  <2>2. r[1] = l
    BY PolicyAssumption DEF MoveToFront
  <2>3. ASSUME NEW i \in 2 .. NLines
        PROVE  Was(i) \in 1 .. NLines /\ r[i] = q[Was(i)]
    BY PolicyAssumption DEF MoveToFront
  <2> QED BY <2>1, <2>2, <2>3
<1> SUFFICES ASSUME NEW i \in 1 .. NLines, NEW j \in 1 .. NLines,
                    <<r[i], r[j]>> \in Use(order, l)
             PROVE  i < j
  BY DEF Sorted
<1> HIDE DEF r
<1>2. /\ r[j] # l
      /\ r[i] # l => <<r[i], r[j]>> \in order
  BY DEF Use
<1>3. j \in 2 .. NLines
  BY <1>1, <1>2
<1>4. CASE i = 1
  BY <1>3, <1>4
<1>5. CASE i # 1
  <2>1. r[i] # l
    <3>1. l \in Lines /\ 1 \in 1 .. NLines
      BY PolicyAssumption
    <3> QED BY <1>1, <1>5, <3>1 DEF Permutes
  <2>2. i \in 2 .. NLines
    BY <1>5
  <2>3. <<q[Was(i)], q[Was(j)]>> \in order
    BY <1>1, <1>2, <1>3, <2>1, <2>2
  <2>4. Was(i) < Was(j)
    BY <1>1, <1>3, <2>2, <2>3 DEF Sorted
  <2> QED BY <2>4
<1> QED BY <1>4, <1>5

\* The line at the back was not used after any other.
LEMMA LastIsOldest ==
    ASSUME NEW q \in [1 .. NLines -> Lines], Permutes(q), NEW order, Sorted(q, order),
           NEW k \in Lines
    PROVE  <<q[NLines], k>> \notin order
<1>1. PICK j \in 1 .. NLines : q[j] = k
  BY DEF Permutes
<1> QED BY <1>1, PolicyAssumption DEF Sorted

-----------------------------------------------------------------------------
(* The accesses *)

LruMode == Policy = "LRU" /\ WritePolicy # "WriteAround"

\* What an access does to one set: line l is used, and moved to the front.
Touches(s, l) ==
    /\ \E p \in 1 .. NLines :
        /\ repl[s].lru[p] = l
        /\ repl' = [repl EXCEPT ![s] = [@ EXCEPT !.lru = MoveToFront(repl[s].lru, p)]]
    /\ newer' = [newer EXCEPT ![s] = Use(@, l)]

\* After it the list of every set is sorted.
LEMMA TouchSorts ==
    ASSUME Inv, SortedInv, DOMAIN newer = Sets, NEW s \in Sets, NEW l, Touches(s, l)
    PROVE  SortedInv' /\ DOMAIN newer' = Sets
<1>1. PICK p \in 1 .. NLines :
        /\ repl[s].lru[p] = l
        /\ repl' = [repl EXCEPT ![s] = [@ EXCEPT !.lru = MoveToFront(repl[s].lru, p)]]
  BY DEF Touches
<1>2. newer' = [newer EXCEPT ![s] = Use(@, l)]
  BY DEF Touches
<1>3. repl \in [Sets -> PolicyStates] /\ \A z \in Sets : GoodPolicy(repl[z])
  BY PoliciesGood DEF Inv, TypeOK
<1>4. repl[s].lru \in [1 .. NLines -> Lines] /\ Permutes(repl[s].lru)
  BY <1>3 DEF GoodPolicy, PolicyStates
<1>5. /\ repl'[s].lru = MoveToFront(repl[s].lru, p)
      /\ newer'[s] = Use(newer[s], l)
      /\ \A z \in Sets \ {s} : repl'[z] = repl[z] /\ newer'[z] = newer[z]
      /\ DOMAIN newer' = Sets
  BY <1>1, <1>2, <1>3 DEF PolicyStates
<1>6. Sorted(repl'[s].lru, newer'[s])
  BY <1>1, <1>4, <1>5, MoveToFrontSorts DEF SortedInv
<1> QED BY <1>5, <1>6 DEF SortedInv

\* A hit uses the line that holds the tag, and no line changes its tag.
LEMMA HitTouches ==
    ASSUME Inv, LruMode, NEW s \in Sets, NEW t \in Tags, IsHit(s, t), Note(s, t),
           repl' = [repl EXCEPT ![s] = Hit(@, FindLine(s, t))]
    PROVE  Touches(s, FindLine(s, t))
<1> DEFINE l == FindLine(s, t)
           p == CHOOSE p \in 1 .. NLines : repl[s].lru[p] = l
<1>1. l \in Lines
  BY HitFacts
<1>2. repl \in [Sets -> PolicyStates] /\ GoodPolicy(repl[s])
  BY PoliciesGood DEF Inv, TypeOK
<1>3. p \in 1 .. NLines /\ repl[s].lru[p] = l
  BY <1>1, <1>2 DEF GoodPolicy, Permutes
<1>4. Hit(repl[s], l) = [repl[s] EXCEPT !.lru = MoveToFront(repl[s].lru, p)]
  BY DEF LruMode, Hit, LruHit
<1>5. newer' = [newer EXCEPT ![s] = Use(@, l)]
  <2>1. Uses(s, t) = {l}
    BY DEF Uses
  <2> QED BY <2>1 DEF Note
<1> HIDE DEF l, p
<1>6. repl' = [repl EXCEPT ![s] = [@ EXCEPT !.lru = MoveToFront(repl[s].lru, p)]]
  BY <1>4 DEF l
<1> QED BY <1>3, <1>5, <1>6 DEF Touches, l

\* A miss uses the line it fills, which was at the back.
LEMMA MissTouches ==
    ASSUME Inv, Inv', LruMode, NEW s \in Sets, NEW t \in Tags, ~IsHit(s, t), Note(s, t),
           NEW miss \in Misses(repl[s]), NEW line,
           repl' = [repl EXCEPT ![s] = miss.state],
           lines' = [lines EXCEPT ![s][miss.line] = line], line.valid, line.tag = t
    PROVE  miss.line = repl[s].lru[NLines] /\ Touches(s, miss.line)
<1>1. repl \in [Sets -> PolicyStates]
  BY DEF Inv, TypeOK
<1>2. /\ miss.line = repl[s].lru[NLines]
      /\ miss.state = [repl[s] EXCEPT !.lru = MoveToFront(repl[s].lru, NLines)]
  BY DEF LruMode, Misses, LruMiss
<1>3. miss.line \in Lines
  BY MissFacts
<1>4. lines \in [Sets -> [Lines -> CacheLine]]
  BY DEF Inv, TypeOK
<1>5. Holds(s, miss.line, t)'
  BY <1>3, <1>4 DEF Holds
<1>6. Uses(s, t) = {miss.line}
  BY <1>3, <1>5 DEF Uses, Inv, UniqueTags
<1>7. newer' = [newer EXCEPT ![s] = Use(@, miss.line)]
  BY <1>6 DEF Note
<1>8. NLines \in 1 .. NLines
  BY PolicyAssumption
<1>9. repl' = [repl EXCEPT ![s] = [@ EXCEPT !.lru = MoveToFront(repl[s].lru, NLines)]]
  BY <1>2
<1> QED BY <1>2, <1>7, <1>8, <1>9 DEF Touches

\* Whether the lines that change their tag are those that were at the back.
EvictsFromTheBack ==
    \A s \in Sets, l \in Lines :
        /\ lines[s][l].valid /\ lines'[s][l].valid
        /\ lines[s][l].tag # lines'[s][l].tag
        => l = repl[s].lru[NLines]

\* An access that hits.
LEMMA HitStep ==
    ASSUME Inv, SortedInv, DOMAIN newer = Sets, LruMode, NEW s \in Sets, NEW t \in Tags,
           IsHit(s, t), Note(s, t),
           repl' = [repl EXCEPT ![s] = Hit(@, FindLine(s, t))],
           \A z \in Sets, l \in Lines : lines'[z][l].tag = lines[z][l].tag
    PROVE  SortedInv' /\ DOMAIN newer' = Sets /\ EvictsFromTheBack
BY HitTouches, TouchSorts DEF EvictsFromTheBack

\* An access that misses.
LEMMA MissStep ==
    ASSUME Inv, Inv', SortedInv, DOMAIN newer = Sets, LruMode,
           NEW s \in Sets, NEW t \in Tags, ~IsHit(s, t), Note(s, t),
           NEW miss \in Misses(repl[s]), NEW line,
           repl' = [repl EXCEPT ![s] = miss.state],
           lines' = [lines EXCEPT ![s][miss.line] = line], line.valid, line.tag = t
    PROVE  SortedInv' /\ DOMAIN newer' = Sets /\ EvictsFromTheBack
<1>1. miss.line = repl[s].lru[NLines] /\ Touches(s, miss.line)
  BY MissTouches
<1>2. miss.line \in Lines
  BY MissFacts
<1>3. lines \in [Sets -> [Lines -> CacheLine]]
  BY DEF Inv, TypeOK
<1>4. \A z \in Sets, l \in Lines :
          z # s \/ l # miss.line => lines'[z][l] = lines[z][l]
  BY <1>2, <1>3
<1>5. EvictsFromTheBack
  BY <1>1, <1>4 DEF EvictsFromTheBack
<1> QED BY <1>1, <1>5, TouchSorts

\* A read.
LEMMA ReadStep ==
    ASSUME Inv, Inv', SortedInv, DOMAIN newer = Sets, LruMode,
           NEW s \in Sets, NEW t \in Tags, NEW span,
           ReadHit(s, t, span) \/ ReadMiss(s, t, span), Note(s, t)
    PROVE  SortedInv' /\ DOMAIN newer' = Sets /\ EvictsFromTheBack
<1>1. CASE ReadHit(s, t, span)
  <2>1. /\ IsHit(s, t) /\ lines' = lines
        /\ repl' = [repl EXCEPT ![s] = Hit(@, FindLine(s, t))]
    BY <1>1 DEF ReadHit
  <2> QED BY <2>1, HitStep
<1>2. CASE ReadMiss(s, t, span)
  <2>1. PICK miss \in Misses(repl[s]) :
          /\ repl' = [repl EXCEPT ![s] = miss.state]
          /\ lines' = [lines EXCEPT ![s][miss.line] = ReadLine(mem', s, t)]
    BY <1>2 DEF ReadMiss
  <2>2. ~IsHit(s, t)
    BY <1>2 DEF ReadMiss
  <2>3. ReadLine(mem', s, t).valid /\ ReadLine(mem', s, t).tag = t
    BY DEF ReadLine
  <2> QED BY <2>1, <2>2, <2>3, MissStep
<1> QED BY <1>1, <1>2

\* A write that hits.
LEMMA WriteHitStep ==
    ASSUME Inv, Inv', SortedInv, DOMAIN newer = Sets, LruMode,
           NEW s \in Sets, NEW t \in Tags, NEW bytes,
           WriteThroughHit(s, t, bytes) \/ WriteBackHit(s, t, bytes), Note(s, t)
    PROVE  SortedInv' /\ DOMAIN newer' = Sets /\ EvictsFromTheBack
<1> DEFINE l == FindLine(s, t)
<1>1. IsHit(s, t) /\ repl' = [repl EXCEPT ![s] = Hit(@, FindLine(s, t))]
  BY DEF WriteThroughHit, WriteBackHit
<1>2. l \in Lines
  BY <1>1, HitFacts
<1>3. lines \in [Sets -> [Lines -> CacheLine]]
  BY DEF Inv, TypeOK
<1>4. CASE WriteThroughHit(s, t, bytes)
  <2>1. lines' = [lines EXCEPT ![s][l].data = Merge(@, bytes)]
    BY <1>4 DEF WriteThroughHit
  <2> HIDE DEF l
  <2>2. \A z \in Sets, k \in Lines : lines'[z][k].tag = lines[z][k].tag
    BY <1>2, <1>3, <2>1 DEF CacheLine
  <2> QED BY <1>1, <2>2, HitStep
<1>5. CASE WriteBackHit(s, t, bytes)
  <2>1. lines' = [lines EXCEPT ![s][l].data = Merge(@, bytes), ![s][l].dirty = TRUE]
    BY <1>5 DEF WriteBackHit
  <2> HIDE DEF l
  <2>2. \A z \in Sets, k \in Lines : lines'[z][k].tag = lines[z][k].tag
    BY <1>2, <1>3, <2>1 DEF CacheLine
  <2> QED BY <1>1, <2>2, HitStep
<1> QED BY <1>4, <1>5

\* A write that misses.
LEMMA WriteMissStep ==
    ASSUME Inv, Inv', SortedInv, DOMAIN newer = Sets, LruMode,
           NEW s \in Sets, NEW t \in Tags, NEW bytes,
           WriteThroughMiss(s, t, bytes) \/ WriteBackMiss(s, t, bytes), Note(s, t)
    PROVE  SortedInv' /\ DOMAIN newer' = Sets /\ EvictsFromTheBack
<1>1. ~IsHit(s, t)
  BY DEF WriteThroughMiss, WriteBackMiss
<1>2. CASE WriteThroughMiss(s, t, bytes)
  <2> DEFINE line == [ReadLine(mem, s, t) EXCEPT !.data = Merge(@, bytes)]
  <2>1. PICK miss \in Misses(repl[s]) :
          /\ repl' = [repl EXCEPT ![s] = miss.state]
          /\ lines' = [lines EXCEPT ![s][miss.line] = line]
    BY <1>2 DEF WriteThroughMiss
  <2>2. line.valid /\ line.tag = t
    BY DEF ReadLine
  <2> HIDE DEF line
  <2> QED BY <1>1, <2>1, <2>2, MissStep
<1>3. CASE WriteBackMiss(s, t, bytes)
  <2> DEFINE line == [ReadLine(mem', s, t) EXCEPT !.data = Merge(@, bytes),
                                                  !.dirty = TRUE]
  <2>1. PICK miss \in Misses(repl[s]) :
          /\ repl' = [repl EXCEPT ![s] = miss.state]
          /\ lines' = [lines EXCEPT ![s][miss.line] = line]
    BY <1>3 DEF WriteBackMiss
  <2>2. line.valid /\ line.tag = t
    BY DEF ReadLine
  <2> HIDE DEF line
  <2> QED BY <1>1, <2>1, <2>2, MissStep
<1> QED BY <1>2, <1>3

-----------------------------------------------------------------------------
(* The specification *)

LruInv == Inv /\ SortedInv /\ DOMAIN newer = Sets

\* Every step keeps the lists sorted and evicts from the back.
LEMMA LruStep ==
    ASSUME LruMode, LruInv, Inv', [LruNext]_lruVars
    PROVE  SortedInv' /\ DOMAIN newer' = Sets /\ EvictsFromTheBack
<1> USE DEF LruInv
<1>1. CASE \E s \in Sets, t \in Tags, span \in Spans :
             /\ ReadHit(s, t, span) \/ ReadMiss(s, t, span)
             /\ Note(s, t)
  BY <1>1, ReadStep
<1>2. CASE \E s \in Sets, t \in Tags, span \in Spans : \E bytes \in [span -> Vals] :
             Write(s, t, bytes) /\ Note(s, t)
  <2>1. PICK s \in Sets, t \in Tags, span \in Spans : \E bytes \in [span -> Vals] :
             Write(s, t, bytes) /\ Note(s, t)
    BY <1>2
  <2>2. PICK bytes \in [span -> Vals] : Write(s, t, bytes) /\ Note(s, t)
    BY <2>1
  <2>3. CASE WritePolicy = "WriteThrough"
    <3>1. WriteThroughHit(s, t, bytes) \/ WriteThroughMiss(s, t, bytes)
      BY <2>2, <2>3 DEF Write
    <3> QED BY <2>2, <3>1, WriteHitStep, WriteMissStep
  <2>4. CASE WritePolicy = "WriteBack"
    <3>1. WriteBackHit(s, t, bytes) \/ WriteBackMiss(s, t, bytes)
      BY <2>2, <2>4 DEF Write
    <3> QED BY <2>2, <3>1, WriteHitStep, WriteMissStep
  <2> QED BY <2>3, <2>4, CacheAssumption DEF LruMode
<1>3. CASE Reset /\ newer' = [s \in Sets |-> {}]
  <2>1. /\ SortedInv' /\ DOMAIN newer' = Sets
    BY <1>3 DEF SortedInv, Sorted
  <2>2. \A s \in Sets, l \in Lines : ~lines'[s][l].valid
    BY <1>3 DEF Reset, CacheLineReset
  <2> QED BY <2>1, <2>2 DEF EvictsFromTheBack
<1>4. CASE UNCHANGED lruVars
  BY <1>4 DEF lruVars, cacheVars, SortedInv, EvictsFromTheBack
<1> QED BY <1>1, <1>2, <1>3, <1>4 DEF LruNext

\* The record of uses does not restrict the cache.
LEMMA LruSteps == LruSpec => Spec
<1>1. LruInit => Init
  BY DEF LruInit
<1>2. [LruNext]_lruVars => [Next]_cacheVars
  BY DEF LruNext, Next, lruVars
<1> QED BY <1>1, <1>2, PTL DEF LruSpec, Spec

LEMMA LruInvariant == ASSUME LruMode PROVE LruSpec => []LruInv
<1>1. LruSpec => []Inv
  BY LruSteps, CacheInvariant, PTL
<1>2. LruInit => SortedInv /\ DOMAIN newer = Sets
  BY DEF LruInit, SortedInv, Sorted
<1>3. LruInv /\ Inv' /\ [LruNext]_lruVars => LruInv'
  BY LruStep DEF LruInv
<1>4. Inv /\ SortedInv /\ DOMAIN newer = Sets <=> LruInv
  BY DEF LruInv
<1> QED BY <1>1, <1>2, <1>3, <1>4, PTL DEF LruSpec

\* A line that is replaced was not used after any other line of its set: LRU evicts
\* the least recently used line (LRU::miss() takes the back of m_lru).
THEOREM LruEvictsLeastRecent ==
    ASSUME Policy = "LRU", WritePolicy # "WriteAround"
    PROVE  LruSpec => EvictsLeastRecent
<1>1. LruMode
  BY DEF LruMode
<1>2. ASSUME LruInv, Inv', [LruNext]_lruVars
      PROVE  [\A s \in Sets, l \in Lines :
                /\ lines[s][l].valid /\ lines'[s][l].valid
                /\ lines[s][l].tag # lines'[s][l].tag
                => \A k \in Lines : <<l, k>> \notin newer[s]]_lruVars
  <2>1. EvictsFromTheBack
    BY <1>1, <1>2, LruStep
  <2>2. \A s \in Sets : GoodPolicy(repl[s])
    BY <1>2, PoliciesGood DEF LruInv, Inv, TypeOK
  <2>3. \A s \in Sets, k \in Lines : <<repl[s].lru[NLines], k>> \notin newer[s]
    BY <1>2, <2>2, LastIsOldest DEF LruInv, SortedInv, GoodPolicy, PolicyStates
  <2> QED BY <2>1, <2>3 DEF EvictsFromTheBack
<1>3. LruInv => Inv
  BY DEF LruInv
<1> QED BY <1>1, <1>2, <1>3, LruInvariant, PTL DEF LruSpec, EvictsLeastRecent

\* The list m_lru has every line exactly once, whatever the accesses and resets.
THEOREM LruListComplete == LruSpec => []LruIsPermutation
<1>1. Inv => LruIsPermutation
  BY DEF Inv
<1> QED BY LruSteps, CacheInvariant, <1>1, PTL
=============================================================================
