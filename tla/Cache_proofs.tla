---------------------------- MODULE Cache_proofs ----------------------------
(***************************************************************************)
(* The cache is correct for every number of sets, lines, tags and bytes,   *)
(* for the four replacement policies and the three write policies.         *)
(***************************************************************************)
EXTENDS Cache, WellFoundedInduction, TLAPS

-----------------------------------------------------------------------------
(* The replacement policies *)

\* Every line is at exactly one place of the list.
Permutes(q) ==
    \A l \in Lines : \E p \in 1 .. NLines :
        q[p] = l /\ \A i \in 1 .. NLines : q[i] = l => i = p

\* A policy object in a state the code can leave it in.
GoodPolicy(r) == r \in PolicyStates /\ Permutes(r.lru)

\* A non-empty set of naturals has a least element.
LEMMA LeastNatural ==
    ASSUME NEW S, S \subseteq Nat, S # {}
    PROVE  \E x \in S : \A y \in S : x <= y
<1> DEFINE R == OpToRel(<, Nat)
<1>1. IsWellFoundedOn(R, Nat)
  BY NatLessThanWellFounded
<1>2. \A x, y \in Nat : y < x => <<y, x>> \in R
  BY DEF OpToRel
<1> HIDE DEF R
<1>3. PICK x \in S : \A y \in S : ~(<<y, x>> \in R)
  BY <1>1, WFMin
<1>4. \A y \in S : ~(y < x)
  BY <1>2, <1>3
<1> QED BY <1>4

\* A non-empty set of lines has a greatest element.
LEMMA GreatestLine ==
    ASSUME NEW S, S \subseteq Lines, S # {}
    PROVE  \E x \in S : \A y \in S : y <= x
<1> DEFINE T == {NLines - 1 - x : x \in S}
<1>1. T \subseteq Nat /\ T # {}
  BY PolicyAssumption DEF Lines
<1>2. PICK m \in T : \A y \in T : m <= y
  BY <1>1, LeastNatural
<1>3. PICK x \in S : m = NLines - 1 - x
  BY <1>2
<1>4. \A y \in S : m <= NLines - 1 - y
  BY <1>2
<1> QED BY <1>3, <1>4, PolicyAssumption DEF Lines

\* The constructor's state is good.
LEMMA PolicyInitGood == GoodPolicy(PolicyInit)
<1>1. PolicyInit \in PolicyStates
  BY PolicyAssumption DEF PolicyInit, PolicyStates, Lines
<1>2. ASSUME NEW l \in Lines
      PROVE  /\ l + 1 \in 1 .. NLines
             /\ PolicyInit.lru[l + 1] = l
             /\ \A i \in 1 .. NLines : PolicyInit.lru[i] = l => i = l + 1
  BY PolicyAssumption DEF PolicyInit, Lines
<1>3. Permutes(PolicyInit.lru)
  BY <1>2 DEF Permutes
<1> QED BY <1>1, <1>3 DEF GoodPolicy

\* Moving an element to the front keeps the list a permutation of the lines.
LEMMA MoveToFrontGood ==
    ASSUME NEW q \in [1 .. NLines -> Lines], Permutes(q), NEW p \in 1 .. NLines
    PROVE  /\ MoveToFront(q, p) \in [1 .. NLines -> Lines]
           /\ Permutes(MoveToFront(q, p))
<1> DEFINE r == MoveToFront(q, p)
<1>1. r \in [1 .. NLines -> Lines]
  BY PolicyAssumption DEF MoveToFront
<1>2. ASSUME NEW l \in Lines
      PROVE  \E n \in 1 .. NLines : r[n] = l /\ \A i \in 1 .. NLines : r[i] = l => i = n
  <2>1. PICK m \in 1 .. NLines : q[m] = l /\ \A i \in 1 .. NLines : q[i] = l => i = m
    BY DEF Permutes
  <2> DEFINE n == IF m = p THEN 1 ELSE IF m < p THEN m + 1 ELSE m
  <2>2. n \in 1 .. NLines
    BY PolicyAssumption
  <2>3. r[n] = l
    BY <2>1, <2>2, PolicyAssumption DEF MoveToFront
  <2>4. ASSUME NEW i \in 1 .. NLines, r[i] = l
        PROVE  i = n
    <3>1. CASE i = 1
      BY <2>1, <2>4, <3>1, PolicyAssumption DEF MoveToFront
    <3>2. CASE i # 1 /\ i <= p
      <4>1. i - 1 \in 1 .. NLines /\ q[i - 1] = l
        BY <2>4, <3>2, PolicyAssumption DEF MoveToFront
      <4> QED BY <2>1, <3>2, <4>1
    <3>3. CASE i # 1 /\ i > p
      BY <2>1, <2>4, <3>3, PolicyAssumption DEF MoveToFront
    <3> QED BY <3>1, <3>2, <3>3, PolicyAssumption
  <2> QED BY <2>2, <2>3, <2>4
<1> QED BY <1>1, <1>2 DEF Permutes

\* A hit leaves the policy good.
LEMMA HitGood ==
    ASSUME NEW r, GoodPolicy(r), NEW l \in Lines
    PROVE  GoodPolicy(Hit(r, l))
<1>1. CASE Policy = "LRU"
  <2> DEFINE p == CHOOSE p \in 1 .. NLines : r.lru[p] = l
  <2>1. p \in 1 .. NLines
    BY DEF GoodPolicy, Permutes
  <2>2. r.lru \in [1 .. NLines -> Lines]
    BY DEF GoodPolicy, PolicyStates
  <2>3. /\ MoveToFront(r.lru, p) \in [1 .. NLines -> Lines]
        /\ Permutes(MoveToFront(r.lru, p))
    BY <2>1, <2>2, MoveToFrontGood DEF GoodPolicy
  <2>4. Hit(r, l) = [r EXCEPT !.lru = MoveToFront(r.lru, p)]
    BY <1>1 DEF Hit, LruHit
  <2> QED BY <2>3, <2>4 DEF GoodPolicy, PolicyStates
<1>2. CASE Policy = "LFU"
  <2> DEFINE c == IF r.counters[l] < Saturation THEN r.counters[l] + 1
                                                ELSE r.counters[l]
  <2>1. Hit(r, l) = [r EXCEPT !.counters = [r.counters EXCEPT ![l] = c]]
    BY <1>2 DEF Hit, LfuHit
  <2>2. r \in PolicyStates /\ c \in 0 .. Saturation
    BY PolicyAssumption DEF GoodPolicy, PolicyStates
  <2> HIDE DEF c
  <2> QED BY <2>1, <2>2, ZenonT(40) DEF GoodPolicy, PolicyStates
<1>3. CASE Policy \notin {"LRU", "LFU"}
  BY <1>3 DEF Hit
<1> QED BY <1>1, <1>2, <1>3

\* A miss names a line and leaves the policy good.
LEMMA MissGood ==
    ASSUME NEW r, GoodPolicy(r), NEW miss \in Misses(r)
    PROVE  miss.line \in Lines /\ GoodPolicy(miss.state)
<1>1. CASE Policy = "LRU"
  <2>1. r.lru \in [1 .. NLines -> Lines] /\ NLines \in 1 .. NLines
    BY PolicyAssumption DEF GoodPolicy, PolicyStates
  <2>2. /\ MoveToFront(r.lru, NLines) \in [1 .. NLines -> Lines]
        /\ Permutes(MoveToFront(r.lru, NLines))
    BY <2>1, MoveToFrontGood DEF GoodPolicy
  <2>3. miss = [line |-> r.lru[NLines],
                state |-> [r EXCEPT !.lru = MoveToFront(r.lru, NLines)]]
    BY <1>1 DEF Misses, LruMiss
  <2> QED BY <2>1, <2>2, <2>3 DEF GoodPolicy, PolicyStates
<1>2. CASE Policy = "LFU"
  <2> DEFINE first == CHOOSE l \in LeastUsed(r) : \A k \in LeastUsed(r) : l <= k
             last  == CHOOSE l \in LeastUsed(r) : \A k \in LeastUsed(r) : k <= l
             victim == IF r.tie THEN first ELSE last
             tie == IF first = last THEN r.tie ELSE ~r.tie
  <2>1. /\ r.counters \in [Lines -> 0 .. Saturation]
        /\ r.tie \in BOOLEAN
    BY DEF GoodPolicy, PolicyStates
  <2>2. LeastUsed(r) # {}
    <3> DEFINE counts == {r.counters[l] : l \in Lines}
    <3>1. counts \subseteq Nat /\ counts # {}
      BY <2>1, PolicyAssumption DEF Lines
    <3>2. PICK c \in counts : \A d \in counts : c <= d
      BY <3>1, LeastNatural
    <3>3. PICK l \in Lines : c = r.counters[l]
      BY <3>2
    <3> QED BY <3>2, <3>3 DEF LeastUsed
  <2>3. LeastUsed(r) \subseteq Lines /\ LeastUsed(r) \subseteq Nat
    BY PolicyAssumption DEF LeastUsed, Lines
  <2>4. first \in Lines
    <3>1. \E l \in LeastUsed(r) : \A k \in LeastUsed(r) : l <= k
      BY <2>2, <2>3, LeastNatural
    <3> QED BY <2>3, <3>1
  <2>5. last \in Lines
    <3>1. \E l \in LeastUsed(r) : \A k \in LeastUsed(r) : k <= l
      BY <2>2, <2>3, GreatestLine
    <3> QED BY <2>3, <3>1
  <2>6. miss = [line |-> victim,
                state |-> [r EXCEPT !.counters = [r.counters EXCEPT ![victim] = 0],
                                    !.tie = tie]]
    BY <1>2 DEF Misses, LfuMiss
  <2>7. victim \in Lines
    BY <2>4, <2>5
  <2>8. tie \in BOOLEAN
    BY <2>1
  <2> HIDE DEF victim, tie
  <2>9. miss.line = victim /\ miss.state.lru = r.lru
    BY <2>6 DEF GoodPolicy, PolicyStates
  <2>10. [r.counters EXCEPT ![victim] = 0] \in [Lines -> 0 .. Saturation]
    BY <2>1, <2>7, PolicyAssumption
  <2>11. miss.state \in PolicyStates
    BY <2>6, <2>8, <2>10 DEF GoodPolicy, PolicyStates
  <2> QED BY <2>7, <2>9, <2>11 DEF GoodPolicy
<1>3. CASE Policy = "RoundRobin"
  <2>1. (r.cnt + 1) % NLines \in Lines
    BY PolicyAssumption DEF GoodPolicy, PolicyStates, Lines
  <2> QED BY <1>3, <2>1 DEF Misses, RoundRobinMiss, GoodPolicy, PolicyStates
<1>4. CASE Policy = "PseudoRandom"
  BY <1>4 DEF Misses, GoodPolicy
<1> QED BY <1>1, <1>2, <1>3, <1>4, PolicyAssumption

\* reset() leaves the policy good.
LEMMA ResetGood ==
    ASSUME NEW r, GoodPolicy(r)
    PROVE  GoodPolicy(PolicyReset(r))
<1>1. r.tie \in BOOLEAN
  BY DEF GoodPolicy, PolicyStates
<1>2. /\ PolicyReset(r) = [PolicyInit EXCEPT !.tie = r.tie]
      /\ PolicyInit \in PolicyStates /\ Permutes(PolicyInit.lru)
  BY PolicyInitGood DEF PolicyReset, GoodPolicy
<1>3. PolicyReset(r) \in PolicyStates /\ PolicyReset(r).lru = PolicyInit.lru
  BY <1>1, <1>2 DEF PolicyStates
<1> QED BY <1>2, <1>3 DEF GoodPolicy

-----------------------------------------------------------------------------
(* One access *)

(***************************************************************************)
(* The inductive invariant.  Uniqueness needs the type of the policies,    *)
(* which for LRU needs the permutation: a line missing from the list would *)
(* never be found by hit().  Coherence needs uniqueness and the assertions *)
(* on dirty lines, because a victim's data may be dropped only if clean.   *)
(***************************************************************************)
Inv ==
    /\ TypeOK /\ UniqueTags /\ DirtyAssertions /\ LruIsPermutation
    /\ ~Debugger => CleanLinesCoherent

\* The policies of all sets are good.
LEMMA PoliciesGood ==
    repl \in [Sets -> PolicyStates] /\ LruIsPermutation
        <=> repl \in [Sets -> PolicyStates] /\ \A s \in Sets : GoodPolicy(repl[s])
BY DEF LruIsPermutation, GoodPolicy, Permutes

PolicyBecomes(s, r) == repl' = [repl EXCEPT ![s] = r]

\* The same of the next state.
LEMMA PoliciesGoodNext ==
    ASSUME NEW s \in Sets, NEW r, GoodPolicy(r), TypeOK, LruIsPermutation,
           PolicyBecomes(s, r)
    PROVE  repl' \in [Sets -> PolicyStates] /\ LruIsPermutation'
<1>1. repl \in [Sets -> PolicyStates] /\ \A z \in Sets : GoodPolicy(repl[z])
  BY PoliciesGood DEF TypeOK
<1>2. r \in PolicyStates
  BY DEF GoodPolicy
<1>3. repl' \in [Sets -> PolicyStates] /\ \A z \in Sets : GoodPolicy(repl'[z])
  BY <1>1, <1>2 DEF PolicyBecomes
<1> QED BY <1>3 DEF LruIsPermutation, GoodPolicy, Permutes

\* findLine() returns the line that holds the tag.
LEMMA FindLineHolds ==
    ASSUME TypeOK, UniqueTags, NEW s \in Sets, NEW t \in Tags, IsHit(s, t)
    PROVE  /\ FindLine(s, t) \in Lines
           /\ Holds(s, FindLine(s, t), t)
           /\ \A k \in Lines \ {FindLine(s, t)} : ~Holds(s, k, t)
<1>1. PICK l \in Lines : Holds(s, l, t)
  BY DEF IsHit
<1>2. \A k \in Lines : Holds(s, k, t) => l <= k
  BY <1>1, PolicyAssumption DEF UniqueTags, Lines
<1>3. FindLine(s, t) \in Lines /\ Holds(s, FindLine(s, t), t)
  BY <1>1, <1>2 DEF FindLine
<1> QED BY <1>3 DEF UniqueTags

\* What the processor reads, without the choice of a line.
LEMMA ViewIs ==
    ASSUME TypeOK, UniqueTags, NEW s \in Sets, NEW t \in Tags
    PROVE  /\ \A l \in Lines : Holds(s, l, t) => View(s, t) = lines[s][l].data
           /\ (\A l \in Lines : ~Holds(s, l, t)) => View(s, t) = mem[s][t]
<1>1. CASE IsHit(s, t)
  <2>1. \A l \in Lines : Holds(s, l, t) => l = FindLine(s, t)
    BY <1>1, FindLineHolds
  <2> QED BY <1>1, <2>1 DEF View, IsHit
<1>2. CASE ~IsHit(s, t)
  BY <1>2 DEF View, IsHit
<1> QED BY <1>1, <1>2

LineBecomes(s, l, line) == lines' = [lines EXCEPT ![s][l] = line]

\* Line l of set s becomes a line for tag t, which no other line holds.
LEMMA UpdateLine ==
    ASSUME TypeOK, UniqueTags, DirtyAssertions,
           NEW s \in Sets, NEW t \in Tags, NEW l \in Lines, NEW line \in CacheLine,
           LineBecomes(s, l, line),
           \A k \in Lines \ {l} : ~Holds(s, k, t),
           line.valid => line.tag = t,
           line.dirty => line.valid /\ WritePolicy = "WriteBack"
    PROVE  /\ lines' \in [Sets -> [Lines -> CacheLine]]
           /\ lines'[s][l] = line
           /\ \A z \in Sets, k \in Lines :
                  z # s \/ k # l => lines'[z][k] = lines[z][k]
           /\ UniqueTags'
           /\ DirtyAssertions'
<1>1. lines \in [Sets -> [Lines -> CacheLine]]
  BY DEF TypeOK
<1>2. lines' \in [Sets -> [Lines -> CacheLine]]
  BY <1>1 DEF LineBecomes
<1>3. lines'[s][l] = line
  BY <1>1 DEF LineBecomes
<1>4. \A z \in Sets, k \in Lines : z # s \/ k # l => lines'[z][k] = lines[z][k]
  BY <1>1 DEF LineBecomes
<1>5. UniqueTags'
  <2> SUFFICES ASSUME NEW z \in Sets, NEW u \in Tags, NEW i \in Lines, NEW k \in Lines,
                      Holds(z, i, u)', Holds(z, k, u)'
               PROVE  i = k
    BY DEF UniqueTags
  <2>1. CASE z # s \/ (i # l /\ k # l)
    BY <1>4, <2>1 DEF UniqueTags, Holds
  <2>2. CASE z = s /\ (i = l \/ k = l)
    <3>1. u = t
      BY <1>3, <2>2 DEF Holds
    <3>2. \A j \in Lines \ {l} : ~Holds(s, j, t)'
      BY <1>4 DEF Holds
    <3> QED BY <2>2, <3>1, <3>2
  <2> QED BY <2>1, <2>2
<1>6. DirtyAssertions'
  BY <1>3, <1>4 DEF DirtyAssertions
<1> QED BY <1>2, <1>3, <1>4, <1>5, <1>6

\* The effect of such an access on coherence and on what the processor reads,
\* if the data of the line that is replaced is in memory afterwards.
LEMMA UpdateMemory ==
    ASSUME TypeOK, UniqueTags, DirtyAssertions, CleanLinesCoherent,
           NEW s \in Sets, NEW t \in Tags, NEW l \in Lines, NEW line \in CacheLine,
           LineBecomes(s, l, line),
           \A k \in Lines \ {l} : ~Holds(s, k, t),
           line.valid => line.tag = t,
           line.dirty => line.valid /\ WritePolicy = "WriteBack",
           line.valid /\ ~line.dirty => line.data = mem'[s][t],
           \A z \in Sets, u \in Tags :
               mem'[z][u] = mem[z][u] \/ (z = s /\ (u = t \/ Holds(s, l, u))),
           \A u \in Tags \ {t} : Holds(s, l, u) => mem'[s][u] = lines[s][l].data
    PROVE  /\ CleanLinesCoherent'
           /\ \A z \in Sets, u \in Tags :
                  z # s \/ u # t => /\ View(z, u)' = View(z, u)
                                    /\ \/ mem'[z][u] = mem[z][u]
                                       \/ mem'[z][u] = View(z, u)'
           /\ View(s, t)' = IF line.valid THEN line.data ELSE mem'[s][t]
<1>1. /\ lines' \in [Sets -> [Lines -> CacheLine]]
      /\ lines'[s][l] = line
      /\ \A z \in Sets, k \in Lines : z # s \/ k # l => lines'[z][k] = lines[z][k]
      /\ UniqueTags'
  BY UpdateLine
<1>2. CleanLinesCoherent'
  <2> SUFFICES ASSUME NEW z \in Sets, NEW k \in Lines,
                      lines'[z][k].valid, ~lines'[z][k].dirty
               PROVE  lines'[z][k].data = mem'[z][lines'[z][k].tag]
    BY DEF CleanLinesCoherent
  <2>1. CASE z = s /\ k = l
    BY <1>1, <2>1
  <2>2. CASE z # s \/ k # l
    <3> DEFINE u == lines[z][k].tag
    <3>1. /\ lines'[z][k] = lines[z][k] /\ u \in Tags
          /\ lines[z][k].data = mem[z][u]
      BY <1>1, <2>2 DEF CleanLinesCoherent, TypeOK, CacheLine
    <3>2. Holds(z, k, u)
      BY <3>1 DEF Holds
    <3>3. ~(z = s /\ (u = t \/ Holds(s, l, u)))
      BY <2>2, <3>1, <3>2 DEF UniqueTags
    <3>4. mem'[z][u] = mem[z][u]
      BY <3>1, <3>3
    <3> QED BY <3>1, <3>4
  <2> QED BY <2>1, <2>2
<1>3. ASSUME NEW z \in Sets, NEW u \in Tags
      PROVE  /\ \A k \in Lines : Holds(z, k, u)' => View(z, u)' = lines'[z][k].data
             /\ (\A k \in Lines : ~Holds(z, k, u)') => View(z, u)' = mem'[z][u]
  <2>1. CASE IsHit(z, u)'
    <3> DEFINE Match(k) == lines'[z][k].valid /\ lines'[z][k].tag = u
               f == CHOOSE k \in Lines : Match(k) /\ \A j \in Lines : Match(j) => k <= j
    <3>1. PICK k \in Lines : Match(k)
      BY <2>1 DEF IsHit, Holds
    <3>2. \A i, j \in Lines : Match(i) /\ Match(j) => i = j
      BY <1>1 DEF UniqueTags, Holds
    <3>3. \A j \in Lines : Match(j) => k <= j
      BY <3>1, <3>2, PolicyAssumption DEF Lines
    <3>4. f \in Lines /\ Match(f)
      BY <3>1, <3>3
    <3>5. View(z, u)' = lines'[z][f].data
      BY <2>1 DEF View, IsHit, FindLine, Holds
    <3> HIDE DEF f
    <3>6. \A j \in Lines : Holds(z, j, u)' => j = f
      BY <3>2, <3>4 DEF Holds
    <3> QED BY <3>4, <3>5, <3>6 DEF Holds
  <2>2. CASE ~IsHit(z, u)'
    BY <2>2 DEF View, IsHit
  <2> QED BY <2>1, <2>2
<1>4. View(s, t)' = IF line.valid THEN line.data ELSE mem'[s][t]
  <2>1. CASE line.valid
    BY <1>1, <1>3, <2>1 DEF Holds
  <2>2. CASE ~line.valid
    <3>1. \A k \in Lines : ~Holds(s, k, t)'
      BY <1>1, <2>2 DEF Holds
    <3> QED BY <1>3, <2>2, <3>1
  <2> QED BY <2>1, <2>2
<1>5. ASSUME NEW z \in Sets, NEW u \in Tags, z # s \/ u # t
      PROVE  /\ View(z, u)' = View(z, u)
             /\ mem'[z][u] = mem[z][u] \/ mem'[z][u] = View(z, u)'
  <2>1. CASE \E k \in Lines : (z # s \/ k # l) /\ Holds(z, k, u)
    <3>1. PICK k \in Lines : (z # s \/ k # l) /\ Holds(z, k, u)
      BY <2>1
    <3>2. lines'[z][k] = lines[z][k] /\ Holds(z, k, u)'
      BY <1>1, <3>1 DEF Holds
    <3>3. View(z, u)' = View(z, u)
      BY <1>3, <3>1, <3>2, ViewIs
    <3>4. ~(z = s /\ (u = t \/ Holds(s, l, u)))
      BY <1>5, <3>1 DEF UniqueTags
    <3> QED BY <3>3, <3>4
  <2>2. CASE ~(\E k \in Lines : (z # s \/ k # l) /\ Holds(z, k, u))
    <3>1. \A k \in Lines : ~Holds(z, k, u)'
      <4> SUFFICES ASSUME NEW k \in Lines, Holds(z, k, u)' PROVE FALSE
        OBVIOUS
      <4>1. CASE z = s /\ k = l
        BY <1>1, <1>5, <4>1 DEF Holds
      <4>2. CASE z # s \/ k # l
        BY <1>1, <2>2, <4>2 DEF Holds
      <4> QED BY <4>1, <4>2
    <3>2. View(z, u)' = mem'[z][u]
      BY <1>3, <3>1
    <3>3. CASE z = s /\ Holds(s, l, u)
      <4>1. View(z, u) = lines[s][l].data
        BY <3>3, ViewIs
      <4> QED BY <1>5, <3>2, <3>3, <4>1
    <3>4. CASE ~(z = s /\ Holds(s, l, u))
      <4>1. \A k \in Lines : ~Holds(z, k, u)
        BY <2>2, <3>4
      <4>2. View(z, u) = mem[z][u]
        BY <4>1, ViewIs
      <4>3. mem'[z][u] = mem[z][u]
        BY <1>5, <3>4
      <4> QED BY <3>2, <4>2, <4>3
    <3> QED BY <3>3, <3>4
  <2> QED BY <2>1, <2>2
<1> QED BY <1>2, <1>4, <1>5

\* What an access to tag t of set s does to what is read and what is saved.
StepView(s, t, new) ==
    /\ \A z \in Sets, u \in Tags :
           z # s \/ u # t => /\ View(z, u)' = View(z, u)
                             /\ \/ mem'[z][u] = mem[z][u]
                                \/ mem'[z][u] = View(z, u)'
    /\ View(s, t)' = new
    /\ mem'[s][t] = mem[s][t] \/ mem'[s][t] = new

\* An access that leaves line l of the set for tag t preserves the invariant.
LEMMA AccessEffect ==
    ASSUME Inv,
           NEW s \in Sets, NEW t \in Tags, NEW l \in Lines, NEW line \in CacheLine,
           NEW r, GoodPolicy(r), NEW new,
           LineBecomes(s, l, line), PolicyBecomes(s, r),
           mem' \in [Sets -> [Tags -> Data]], reply' \in Replies,
           \A k \in Lines \ {l} : ~Holds(s, k, t),
           line.valid => line.tag = t,
           line.dirty => line.valid /\ WritePolicy = "WriteBack",
           ~Debugger =>
             /\ line.valid /\ ~line.dirty => line.data = mem'[s][t]
             /\ \A z \in Sets, u \in Tags :
                  mem'[z][u] = mem[z][u] \/ (z = s /\ (u = t \/ Holds(s, l, u)))
             /\ \A u \in Tags \ {t} :
                  Holds(s, l, u) => mem'[s][u] = lines[s][l].data
             /\ new = IF line.valid THEN line.data ELSE mem'[s][t]
             /\ mem'[s][t] = mem[s][t] \/ mem'[s][t] = new
    PROVE  Inv' /\ (~Debugger => StepView(s, t, new))
<1>1. repl' \in [Sets -> PolicyStates] /\ LruIsPermutation'
  BY PoliciesGoodNext DEF Inv
<1>2. /\ lines' \in [Sets -> [Lines -> CacheLine]]
      /\ UniqueTags' /\ DirtyAssertions'
  BY UpdateLine DEF Inv
<1>3. TypeOK'
  BY <1>1, <1>2 DEF TypeOK
<1>4. ASSUME ~Debugger
      PROVE  CleanLinesCoherent' /\ StepView(s, t, new)
  BY <1>4, UpdateMemory DEF Inv, StepView
<1> QED BY <1>1, <1>2, <1>3, <1>4 DEF Inv

\* Copying bytes into a line gives a line.
LEMMA MergeType ==
    ASSUME NEW data \in Data, NEW span, NEW bytes \in [span -> Vals]
    PROVE  Merge(data, bytes) \in Data
BY DEF Merge, Data

\* A write to memory changes the line it is for and no other.
LEMMA StoreBytesIs ==
    ASSUME NEW m \in [Sets -> [Tags -> Data]], NEW s \in Sets, NEW t \in Tags,
           NEW span, NEW bytes \in [span -> Vals]
    PROVE  /\ StoreBytes(m, s, t, bytes) \in [Sets -> [Tags -> Data]]
           /\ StoreBytes(m, s, t, bytes)[s][t] = Merge(m[s][t], bytes)
           /\ \A z \in Sets, u \in Tags :
                  z # s \/ u # t => StoreBytes(m, s, t, bytes)[z][u] = m[z][u]
<1>1. Merge(m[s][t], bytes) \in Data
  BY MergeType
<1>2. StoreBytes(m, s, t, bytes)
        = [m EXCEPT ![s] = [m[s] EXCEPT ![t] = Merge(m[s][t], bytes)]]
  BY DEF StoreBytes
<1> QED BY <1>1, <1>2

\* Writing a victim back puts its data at its own place and nowhere else.
LEMMA WriteLineIs ==
    ASSUME NEW m \in [Sets -> [Tags -> Data]], NEW s \in Sets, NEW line \in CacheLine
    PROVE  /\ WriteLine(m, s, line) \in [Sets -> [Tags -> Data]]
           /\ line.valid /\ line.dirty
                => WriteLine(m, s, line)[s][line.tag] = line.data
           /\ \A z \in Sets, u \in Tags :
                  ~(z = s /\ u = line.tag /\ line.valid /\ line.dirty)
                    => WriteLine(m, s, line)[z][u] = m[z][u]
<1>1. line.tag \in Tags /\ line.data \in Data
  BY DEF CacheLine
<1>2. CASE line.valid /\ line.dirty
  BY <1>1, <1>2 DEF WriteLine
<1>3. CASE ~(line.valid /\ line.dirty)
  BY <1>3 DEF WriteLine
<1> QED BY <1>2, <1>3

\* The bytes a read returns.
LEMMA ReplyType ==
    ASSUME NEW span \in Spans, NEW data \in Data
    PROVE  [o \in span |-> data[o]] \in Replies
<1>1. span \subseteq Offsets
  BY CacheAssumption
<1>2. [o \in span |-> data[o]] \in [span -> Vals]
  BY <1>1 DEF Data
<1> QED BY <1>2 DEF Replies

-----------------------------------------------------------------------------
(* The accesses of the processor *)

\* A hit concerns a line that alone holds the tag.
LEMMA HitFacts ==
    ASSUME Inv, NEW s \in Sets, NEW t \in Tags, IsHit(s, t),
           NEW l, l = FindLine(s, t)
    PROVE  /\ l \in Lines /\ lines[s][l] \in CacheLine
           /\ lines[s][l].valid /\ lines[s][l].tag = t
           /\ \A k \in Lines \ {l} : ~Holds(s, k, t)
           /\ \A u \in Tags \ {t} : ~Holds(s, l, u)
           /\ GoodPolicy(Hit(repl[s], l))
           /\ View(s, t) = lines[s][l].data
           /\ lines[s][l].dirty => WritePolicy = "WriteBack"
           /\ ~Debugger /\ ~lines[s][l].dirty => lines[s][l].data = mem[s][t]
<1>1. l \in Lines /\ Holds(s, l, t) /\ \A k \in Lines \ {l} : ~Holds(s, k, t)
  BY FindLineHolds DEF Inv
<1>2. lines[s][l] \in CacheLine
  BY <1>1 DEF Inv, TypeOK
<1>3. GoodPolicy(Hit(repl[s], l))
  BY <1>1, PoliciesGood, HitGood DEF Inv, TypeOK
<1>4. View(s, t) = lines[s][l].data
  BY <1>1, ViewIs DEF Inv
<1>5. /\ lines[s][l].dirty => WritePolicy = "WriteBack"
      /\ ~Debugger /\ ~lines[s][l].dirty => lines[s][l].data = mem[s][t]
  BY <1>1 DEF Inv, DirtyAssertions, CleanLinesCoherent, Holds
<1> QED BY <1>1, <1>2, <1>3, <1>4, <1>5 DEF Holds

\* A miss names a victim that holds another line or none.
LEMMA MissFacts ==
    ASSUME Inv, NEW s \in Sets, NEW t \in Tags, ~IsHit(s, t),
           NEW miss \in Misses(repl[s])
    PROVE  /\ miss.line \in Lines /\ lines[s][miss.line] \in CacheLine
           /\ GoodPolicy(miss.state)
           /\ \A k \in Lines : ~Holds(s, k, t)
           /\ View(s, t) = mem[s][t]
           /\ lines[s][miss.line].dirty => WritePolicy = "WriteBack"
           /\ ~Debugger /\ lines[s][miss.line].valid /\ ~lines[s][miss.line].dirty
                => lines[s][miss.line].data = mem[s][lines[s][miss.line].tag]
<1>1. miss.line \in Lines /\ GoodPolicy(miss.state)
  BY PoliciesGood, MissGood DEF Inv, TypeOK
<1>2. lines[s][miss.line] \in CacheLine
  BY <1>1 DEF Inv, TypeOK
<1>3. \A k \in Lines : ~Holds(s, k, t)
  BY DEF IsHit
<1>4. View(s, t) = mem[s][t]
  BY <1>3, ViewIs DEF Inv
<1>5. /\ lines[s][miss.line].dirty => WritePolicy = "WriteBack"
      /\ ~Debugger /\ lines[s][miss.line].valid /\ ~lines[s][miss.line].dirty
           => lines[s][miss.line].data = mem[s][lines[s][miss.line].tag]
  BY <1>1 DEF Inv, DirtyAssertions, CleanLinesCoherent
<1> QED BY <1>1, <1>2, <1>3, <1>4, <1>5

\* After a miss under write back or a read miss, memory has the victim's data.
LEMMA VictimSaved ==
    ASSUME Inv, NEW s \in Sets, NEW t \in Tags, ~IsHit(s, t),
           NEW miss \in Misses(repl[s]),
           mem' = WriteLine(mem, s, lines[s][miss.line])
    PROVE  /\ mem' \in [Sets -> [Tags -> Data]]
           /\ mem'[s][t] = mem[s][t]
           /\ \A z \in Sets, u \in Tags :
                mem'[z][u] = mem[z][u] \/ (z = s /\ Holds(s, miss.line, u))
           /\ ~Debugger => \A u \in Tags : Holds(s, miss.line, u)
                                => mem'[s][u] = lines[s][miss.line].data
<1> DEFINE old == lines[s][miss.line]
<1>1. /\ miss.line \in Lines /\ old \in CacheLine
      /\ \A k \in Lines : ~Holds(s, k, t)
      /\ ~Debugger /\ old.valid /\ ~old.dirty => old.data = mem[s][old.tag]
  BY MissFacts
<1>2. mem \in [Sets -> [Tags -> Data]]
  BY DEF Inv, TypeOK
<1>3. /\ mem' \in [Sets -> [Tags -> Data]]
      /\ old.valid /\ old.dirty => mem'[s][old.tag] = old.data
      /\ \A z \in Sets, u \in Tags :
           ~(z = s /\ u = old.tag /\ old.valid /\ old.dirty) => mem'[z][u] = mem[z][u]
  BY <1>1, <1>2, WriteLineIs
<1>4. \A u \in Tags : Holds(s, miss.line, u) <=> old.valid /\ old.tag = u
  BY DEF Holds
<1>5. mem'[s][t] = mem[s][t]
  BY <1>1, <1>3, <1>4
<1>6. \A z \in Sets, u \in Tags :
          mem'[z][u] = mem[z][u] \/ (z = s /\ Holds(s, miss.line, u))
  BY <1>3, <1>4
<1>7. ~Debugger => \A u \in Tags : Holds(s, miss.line, u) => mem'[s][u] = old.data
  BY <1>1, <1>3, <1>4
<1> QED BY <1>3, <1>5, <1>6, <1>7

\* Reads: the processor gets what it would have got before, and nothing it can
\* read changes.
LEMMA ReadHitEffect ==
    ASSUME Inv, NEW s \in Sets, NEW t \in Tags, NEW span \in Spans,
           ReadHit(s, t, span)
    PROVE  /\ Inv'
           /\ ~Debugger => /\ StepView(s, t, View(s, t))
                           /\ reply' = [o \in span |-> View(s, t)[o]]
<1> DEFINE l == FindLine(s, t)
<1>1. /\ IsHit(s, t) /\ lines' = lines /\ mem' = mem
      /\ PolicyBecomes(s, Hit(repl[s], l))
      /\ reply' = [o \in span |-> lines[s][l].data[o]]
  BY DEF ReadHit, PolicyBecomes
<1>2. /\ l \in Lines /\ lines[s][l] \in CacheLine
      /\ lines[s][l].valid /\ lines[s][l].tag = t
      /\ \A k \in Lines \ {l} : ~Holds(s, k, t)
      /\ \A u \in Tags \ {t} : ~Holds(s, l, u)
      /\ GoodPolicy(Hit(repl[s], l))
      /\ View(s, t) = lines[s][l].data
      /\ lines[s][l].dirty => WritePolicy = "WriteBack"
      /\ ~Debugger /\ ~lines[s][l].dirty => lines[s][l].data = mem[s][t]
  BY <1>1, HitFacts
<1> HIDE DEF l
<1>3. LineBecomes(s, l, lines[s][l])
  BY <1>1, <1>2 DEF LineBecomes, Inv, TypeOK
<1>4. mem \in [Sets -> [Tags -> Data]]
  BY DEF Inv, TypeOK
<1>5. reply' \in Replies
  BY <1>1, <1>2, ReplyType DEF CacheLine
<1>6. Inv' /\ (~Debugger => StepView(s, t, lines[s][l].data))
  BY <1>1, <1>2, <1>3, <1>4, <1>5, AccessEffect
<1> QED BY <1>1, <1>2, <1>6

\* A read that misses.
LEMMA ReadMissEffect ==
    ASSUME Inv, NEW s \in Sets, NEW t \in Tags, NEW span \in Spans,
           ReadMiss(s, t, span)
    PROVE  /\ Inv'
           /\ ~Debugger => /\ StepView(s, t, View(s, t))
                           /\ reply' = [o \in span |-> View(s, t)[o]]
<1>1. PICK miss \in Misses(repl[s]) :
        /\ PolicyBecomes(s, miss.state)
        /\ mem' = WriteLine(mem, s, lines[s][miss.line])
        /\ lines' = [lines EXCEPT ![s][miss.line] = ReadLine(mem', s, t)]
        /\ reply' = [o \in span |-> mem'[s][t][o]]
  BY DEF ReadMiss, PolicyBecomes
<1> DEFINE line == ReadLine(mem', s, t)
<1>2. ~IsHit(s, t)
  BY DEF ReadMiss
<1>3. LineBecomes(s, miss.line, line)
  BY <1>1 DEF LineBecomes
<1>4. /\ miss.line \in Lines /\ GoodPolicy(miss.state)
      /\ \A k \in Lines : ~Holds(s, k, t)
      /\ View(s, t) = mem[s][t]
  BY <1>2, MissFacts
<1>5. /\ mem' \in [Sets -> [Tags -> Data]]
      /\ mem'[s][t] = mem[s][t]
      /\ \A z \in Sets, u \in Tags :
           mem'[z][u] = mem[z][u] \/ (z = s /\ Holds(s, miss.line, u))
      /\ ~Debugger => \A u \in Tags : Holds(s, miss.line, u)
                           => mem'[s][u] = lines[s][miss.line].data
  BY <1>1, <1>2, VictimSaved
<1>6. /\ line \in CacheLine
      /\ line.valid /\ ~line.dirty /\ line.tag = t /\ line.data = mem'[s][t]
  BY <1>5 DEF ReadLine, CacheLine
<1>7. reply' \in Replies
  BY <1>1, <1>5, ReplyType
<1> HIDE DEF line
<1>8. Inv' /\ (~Debugger => StepView(s, t, line.data))
  BY <1>1, <1>3, <1>4, <1>5, <1>6, <1>7, AccessEffect
<1> QED BY <1>1, <1>4, <1>5, <1>6, <1>8

\* Writes: what the processor reads changes by the bytes written.
LEMMA WriteAroundHitEffect ==
    ASSUME Inv, NEW s \in Sets, NEW t \in Tags, NEW span \in Spans,
           NEW bytes \in [span -> Vals],
           WritePolicy = "WriteAround", WriteAroundHit(s, t, bytes)
    PROVE  Inv' /\ (~Debugger => StepView(s, t, Merge(View(s, t), bytes)))
<1> DEFINE l == FindLine(s, t)
           line == [lines[s][l] EXCEPT !.valid = FALSE]
<1>1. /\ IsHit(s, t) /\ WritePolicy = "WriteAround"
      /\ PolicyBecomes(s, Hit(repl[s], l))
      /\ lines' = [lines EXCEPT ![s][l].valid = FALSE]
      /\ mem' = StoreBytes(mem, s, t, bytes) /\ reply' = reply
  BY DEF WriteAroundHit, PolicyBecomes
<1>2. /\ l \in Lines /\ lines[s][l] \in CacheLine
      /\ lines[s][l].valid /\ lines[s][l].tag = t
      /\ \A k \in Lines \ {l} : ~Holds(s, k, t)
      /\ \A u \in Tags \ {t} : ~Holds(s, l, u)
      /\ GoodPolicy(Hit(repl[s], l))
      /\ View(s, t) = lines[s][l].data
      /\ lines[s][l].dirty => WritePolicy = "WriteBack"
      /\ ~Debugger /\ ~lines[s][l].dirty => lines[s][l].data = mem[s][t]
  BY <1>1, HitFacts
<1>3. mem \in [Sets -> [Tags -> Data]] /\ reply' \in Replies
  BY <1>1 DEF Inv, TypeOK
<1>4. /\ mem' \in [Sets -> [Tags -> Data]]
      /\ mem'[s][t] = Merge(mem[s][t], bytes)
      /\ \A z \in Sets, u \in Tags : z # s \/ u # t => mem'[z][u] = mem[z][u]
  <2>1. mem' = StoreBytes(mem, s, t, bytes)
    BY <1>1
  <2> QED BY <1>3, <2>1, StoreBytesIs
<1>5. line \in CacheLine /\ ~line.valid /\ ~line.dirty
  BY <1>1, <1>2 DEF CacheLine
<1>6. LineBecomes(s, l, line)
  BY <1>1 DEF LineBecomes
<1> HIDE DEF l, line
<1>7. Inv' /\ (~Debugger => StepView(s, t, mem'[s][t]))
  BY <1>1, <1>2, <1>3, <1>4, <1>5, <1>6, AccessEffect, ZenonT(40)
<1>8. ~Debugger => mem'[s][t] = Merge(View(s, t), bytes)
  BY <1>1, <1>2, <1>4
<1> QED BY <1>7, <1>8

\* Write around, a miss: no line changes, and none holds the tag.
LEMMA WriteAroundMissEffect ==
    ASSUME Inv, NEW s \in Sets, NEW t \in Tags, NEW span \in Spans,
           NEW bytes \in [span -> Vals],
           WritePolicy = "WriteAround", WriteAroundMiss(s, t, bytes)
    PROVE  Inv' /\ (~Debugger => StepView(s, t, Merge(View(s, t), bytes)))
<1>1. PICK miss \in Misses(repl[s]) : PolicyBecomes(s, miss.state)
  BY DEF WriteAroundMiss, PolicyBecomes
<1>2. /\ ~IsHit(s, t) /\ lines' = lines /\ WritePolicy = "WriteAround"
      /\ mem' = StoreBytes(mem, s, t, bytes) /\ reply' = reply
  BY DEF WriteAroundMiss
<1>3. mem \in [Sets -> [Tags -> Data]] /\ reply' \in Replies
  BY <1>2 DEF Inv, TypeOK
<1>4. /\ mem' \in [Sets -> [Tags -> Data]]
      /\ mem'[s][t] = Merge(mem[s][t], bytes)
      /\ \A z \in Sets, u \in Tags : z # s \/ u # t => mem'[z][u] = mem[z][u]
  BY <1>2, <1>3, StoreBytesIs
<1>5. /\ GoodPolicy(miss.state)
      /\ \A k \in Lines : ~Holds(s, k, t)
      /\ View(s, t) = mem[s][t]
  BY <1>2, MissFacts
<1>6. repl' \in [Sets -> PolicyStates] /\ LruIsPermutation'
  BY <1>1, <1>5, PoliciesGoodNext DEF Inv
<1>7. TypeOK'
  BY <1>2, <1>3, <1>4, <1>6 DEF Inv, TypeOK
<1>8. UniqueTags' /\ DirtyAssertions'
  BY <1>2 DEF Inv, UniqueTags, Holds, DirtyAssertions
<1>9. ~Debugger => CleanLinesCoherent'
  <2> SUFFICES ASSUME ~Debugger, NEW z \in Sets, NEW k \in Lines,
                      lines[z][k].valid, ~lines[z][k].dirty
               PROVE  lines[z][k].data = mem'[z][lines[z][k].tag]
    BY <1>2 DEF CleanLinesCoherent
  <2>1. lines[z][k].data = mem[z][lines[z][k].tag] /\ lines[z][k].tag \in Tags
    BY DEF Inv, CleanLinesCoherent, TypeOK, CacheLine
  <2>2. z # s \/ lines[z][k].tag # t
    BY <1>5 DEF Holds
  <2> QED BY <1>4, <2>1, <2>2
<1>10. ASSUME NEW z \in Sets, NEW u \in Tags, z # s \/ u # t
       PROVE  View(z, u)' = View(z, u)
  BY <1>2, <1>4, <1>10 DEF View, IsHit, FindLine, Holds
<1>11. View(s, t)' = Merge(View(s, t), bytes)
  BY <1>2, <1>4, <1>5 DEF View, IsHit, FindLine, Holds
<1> QED BY <1>4, <1>5, <1>6, <1>7, <1>8, <1>9, <1>10, <1>11 DEF Inv, StepView

\* Write through, a hit.
LEMMA WriteThroughHitEffect ==
    ASSUME Inv, NEW s \in Sets, NEW t \in Tags, NEW span \in Spans,
           NEW bytes \in [span -> Vals],
           WritePolicy = "WriteThrough", WriteThroughHit(s, t, bytes)
    PROVE  Inv' /\ (~Debugger => StepView(s, t, Merge(View(s, t), bytes)))
<1> DEFINE l == FindLine(s, t)
           line == [lines[s][l] EXCEPT !.data = Merge(lines[s][l].data, bytes)]
<1>1. /\ IsHit(s, t) /\ WritePolicy = "WriteThrough"
      /\ PolicyBecomes(s, Hit(repl[s], l))
      /\ lines' = [lines EXCEPT ![s][l].data = Merge(@, bytes)]
      /\ mem' = StoreBytes(mem, s, t, bytes) /\ reply' = reply
  BY DEF WriteThroughHit, PolicyBecomes
<1>2. /\ l \in Lines /\ lines[s][l] \in CacheLine
      /\ lines[s][l].valid /\ lines[s][l].tag = t
      /\ \A k \in Lines \ {l} : ~Holds(s, k, t)
      /\ \A u \in Tags \ {t} : ~Holds(s, l, u)
      /\ GoodPolicy(Hit(repl[s], l))
      /\ View(s, t) = lines[s][l].data
      /\ lines[s][l].dirty => WritePolicy = "WriteBack"
      /\ ~Debugger /\ ~lines[s][l].dirty => lines[s][l].data = mem[s][t]
  BY <1>1, HitFacts
<1>3. mem \in [Sets -> [Tags -> Data]] /\ reply' \in Replies
  BY <1>1 DEF Inv, TypeOK
<1>4. /\ mem' \in [Sets -> [Tags -> Data]]
      /\ mem'[s][t] = Merge(mem[s][t], bytes)
      /\ \A z \in Sets, u \in Tags : z # s \/ u # t => mem'[z][u] = mem[z][u]
  <2>1. mem' = StoreBytes(mem, s, t, bytes)
    BY <1>1
  <2> QED BY <1>3, <2>1, StoreBytesIs
<1>5. Merge(lines[s][l].data, bytes) \in Data
  BY <1>2, MergeType DEF CacheLine
<1>6. /\ line \in CacheLine /\ line.valid /\ ~line.dirty /\ line.tag = t
      /\ line.data = Merge(lines[s][l].data, bytes)
  BY <1>1, <1>2, <1>5 DEF CacheLine
<1>7. LineBecomes(s, l, line)
  BY <1>1 DEF LineBecomes
<1>8. ~Debugger => line.data = mem'[s][t]
  BY <1>1, <1>2, <1>4, <1>6
<1> HIDE DEF l, line
<1>9. Inv' /\ (~Debugger => StepView(s, t, line.data))
  BY <1>1, <1>2, <1>3, <1>4, <1>6, <1>7, <1>8, AccessEffect
<1> QED BY <1>2, <1>6, <1>9

\* Write through, a miss: the victim is clean, so its data is in memory.
LEMMA WriteThroughMissEffect ==
    ASSUME Inv, NEW s \in Sets, NEW t \in Tags, NEW span \in Spans,
           NEW bytes \in [span -> Vals],
           WritePolicy = "WriteThrough", WriteThroughMiss(s, t, bytes)
    PROVE  Inv' /\ (~Debugger => StepView(s, t, Merge(View(s, t), bytes)))
<1>1. PICK miss \in Misses(repl[s]) :
        /\ PolicyBecomes(s, miss.state)
        /\ lines' = [lines EXCEPT ![s][miss.line] =
                       [ReadLine(mem, s, t) EXCEPT !.data = Merge(@, bytes)]]
  BY DEF WriteThroughMiss, PolicyBecomes
<1> DEFINE old == ReadLine(mem, s, t)
           line == [old EXCEPT !.data = Merge(old.data, bytes)]
<1>2. /\ ~IsHit(s, t) /\ WritePolicy = "WriteThrough"
      /\ mem' = StoreBytes(mem, s, t, bytes) /\ reply' = reply
  BY DEF WriteThroughMiss
<1>3. mem \in [Sets -> [Tags -> Data]] /\ reply' \in Replies
  BY <1>2 DEF Inv, TypeOK
<1>4. /\ mem' \in [Sets -> [Tags -> Data]]
      /\ mem'[s][t] = Merge(mem[s][t], bytes)
      /\ \A z \in Sets, u \in Tags : z # s \/ u # t => mem'[z][u] = mem[z][u]
  BY <1>2, <1>3, StoreBytesIs
<1>5. /\ miss.line \in Lines /\ lines[s][miss.line] \in CacheLine
      /\ GoodPolicy(miss.state)
      /\ \A k \in Lines : ~Holds(s, k, t)
      /\ View(s, t) = mem[s][t]
      /\ lines[s][miss.line].dirty => WritePolicy = "WriteBack"
      /\ ~Debugger /\ lines[s][miss.line].valid /\ ~lines[s][miss.line].dirty
           => lines[s][miss.line].data = mem[s][lines[s][miss.line].tag]
  BY <1>2, MissFacts
<1>6. /\ line \in CacheLine /\ line.valid /\ ~line.dirty /\ line.tag = t
      /\ line.data = mem'[s][t]
  <2>1. /\ old \in CacheLine /\ old.valid /\ ~old.dirty /\ old.tag = t
        /\ old.data = mem[s][t]
    BY <1>3 DEF CacheLine, ReadLine
  <2>2. Merge(old.data, bytes) \in Data /\ Merge(old.data, bytes) = mem'[s][t]
    BY <1>3, <1>4, <2>1, MergeType
  <2> HIDE DEF old
  <2> QED BY <2>1, <2>2 DEF CacheLine
<1>7. LineBecomes(s, miss.line, line)
  BY <1>1 DEF LineBecomes
<1>8. ~Debugger => \A u \in Tags \ {t} :
         Holds(s, miss.line, u) => mem'[s][u] = lines[s][miss.line].data
  BY <1>2, <1>4, <1>5 DEF Holds
<1> HIDE DEF line
<1>9. Inv' /\ (~Debugger => StepView(s, t, line.data))
  BY <1>1, <1>2, <1>3, <1>4, <1>5, <1>6, <1>7, <1>8, AccessEffect
<1> QED BY <1>4, <1>5, <1>6, <1>9

\* Write back, a hit.
LEMMA WriteBackHitEffect ==
    ASSUME Inv, NEW s \in Sets, NEW t \in Tags, NEW span \in Spans,
           NEW bytes \in [span -> Vals],
           WritePolicy = "WriteBack", WriteBackHit(s, t, bytes)
    PROVE  Inv' /\ (~Debugger => StepView(s, t, Merge(View(s, t), bytes)))
<1> DEFINE l == FindLine(s, t)
           line == [lines[s][l] EXCEPT !.data = Merge(lines[s][l].data, bytes),
                                       !.dirty = TRUE]
<1>1. /\ IsHit(s, t) /\ WritePolicy = "WriteBack"
      /\ PolicyBecomes(s, Hit(repl[s], l))
      /\ lines' = [lines EXCEPT ![s][l].data = Merge(@, bytes),
                                ![s][l].dirty = TRUE]
      /\ mem' = mem /\ reply' = reply
  BY DEF WriteBackHit, PolicyBecomes
<1>2. /\ l \in Lines /\ lines[s][l] \in CacheLine
      /\ lines[s][l].valid /\ lines[s][l].tag = t
      /\ \A k \in Lines \ {l} : ~Holds(s, k, t)
      /\ \A u \in Tags \ {t} : ~Holds(s, l, u)
      /\ GoodPolicy(Hit(repl[s], l))
      /\ View(s, t) = lines[s][l].data
      /\ lines[s][l].dirty => WritePolicy = "WriteBack"
      /\ ~Debugger /\ ~lines[s][l].dirty => lines[s][l].data = mem[s][t]
  BY <1>1, HitFacts
<1>3. mem \in [Sets -> [Tags -> Data]] /\ reply' \in Replies
  BY <1>1 DEF Inv, TypeOK
<1>4. Merge(lines[s][l].data, bytes) \in Data
  BY <1>2, MergeType DEF CacheLine
<1>5. /\ line \in CacheLine /\ line.valid /\ line.dirty /\ line.tag = t
      /\ line.data = Merge(lines[s][l].data, bytes)
  BY <1>2, <1>4 DEF CacheLine
<1>6. LineBecomes(s, l, line)
  <2>1. lines \in [Sets -> [Lines -> CacheLine]]
    BY DEF Inv, TypeOK
  <2> HIDE DEF l
  <2> QED BY <1>1, <1>2, <2>1 DEF LineBecomes, CacheLine
<1> HIDE DEF l, line
<1>7. Inv' /\ (~Debugger => StepView(s, t, line.data))
  BY <1>1, <1>2, <1>3, <1>5, <1>6, AccessEffect
<1> QED BY <1>2, <1>5, <1>7

\* Write back, a miss.
LEMMA WriteBackMissEffect ==
    ASSUME Inv, NEW s \in Sets, NEW t \in Tags, NEW span \in Spans,
           NEW bytes \in [span -> Vals],
           WritePolicy = "WriteBack", WriteBackMiss(s, t, bytes)
    PROVE  Inv' /\ (~Debugger => StepView(s, t, Merge(View(s, t), bytes)))
<1>1. PICK miss \in Misses(repl[s]) :
        /\ PolicyBecomes(s, miss.state)
        /\ mem' = WriteLine(mem, s, lines[s][miss.line])
        /\ lines' = [lines EXCEPT ![s][miss.line] =
                       [ReadLine(mem', s, t) EXCEPT !.data = Merge(@, bytes),
                                                    !.dirty = TRUE]]
  BY DEF WriteBackMiss, PolicyBecomes
<1> DEFINE old == ReadLine(mem', s, t)
           line == [old EXCEPT !.data = Merge(old.data, bytes), !.dirty = TRUE]
<1>2. ~IsHit(s, t) /\ WritePolicy = "WriteBack" /\ reply' = reply
  BY DEF WriteBackMiss
<1>3. reply' \in Replies
  BY <1>2 DEF Inv, TypeOK
<1>4. /\ miss.line \in Lines /\ GoodPolicy(miss.state)
      /\ \A k \in Lines : ~Holds(s, k, t)
      /\ View(s, t) = mem[s][t]
  BY <1>2, MissFacts
<1>5. /\ mem' \in [Sets -> [Tags -> Data]]
      /\ mem'[s][t] = mem[s][t]
      /\ \A z \in Sets, u \in Tags :
           mem'[z][u] = mem[z][u] \/ (z = s /\ Holds(s, miss.line, u))
      /\ ~Debugger => \A u \in Tags : Holds(s, miss.line, u)
                           => mem'[s][u] = lines[s][miss.line].data
  BY <1>1, <1>2, VictimSaved
<1>6. /\ line \in CacheLine /\ line.valid /\ line.dirty /\ line.tag = t
      /\ line.data = Merge(mem'[s][t], bytes)
  <2>1. old \in CacheLine /\ old.valid /\ old.tag = t /\ old.data = mem'[s][t]
    BY <1>5 DEF CacheLine, ReadLine
  <2>2. Merge(old.data, bytes) \in Data
    BY <2>1, <1>5, MergeType
  <2> HIDE DEF old
  <2> QED BY <2>1, <2>2 DEF CacheLine
<1>7. LineBecomes(s, miss.line, line)
  BY <1>1 DEF LineBecomes
<1>8. PolicyBecomes(s, miss.state)
  BY <1>1
<1> HIDE DEF line, old
<1>9. Inv' /\ (~Debugger => StepView(s, t, line.data))
  BY <1>2, <1>3, <1>4, <1>5, <1>6, <1>7, <1>8, AccessEffect, ZenonT(40)
<1> QED BY <1>4, <1>5, <1>6, <1>9

\* Any write.
LEMMA WriteEffect ==
    ASSUME Inv, NEW s \in Sets, NEW t \in Tags, NEW span \in Spans,
           NEW bytes \in [span -> Vals], Write(s, t, bytes)
    PROVE  /\ Inv'
           /\ ~Debugger => StepView(s, t, Merge(View(s, t), bytes))
           /\ reply' = reply
<1>1. CASE WritePolicy = "WriteAround"
  <2>1. WriteAroundHit(s, t, bytes) \/ WriteAroundMiss(s, t, bytes)
    BY <1>1 DEF Write
  <2> QED BY <1>1, <2>1, WriteAroundHitEffect, WriteAroundMissEffect
          DEF WriteAroundHit, WriteAroundMiss
<1>2. CASE WritePolicy = "WriteThrough"
  <2>1. WriteThroughHit(s, t, bytes) \/ WriteThroughMiss(s, t, bytes)
    BY <1>2 DEF Write
  <2> QED BY <1>2, <2>1, WriteThroughHitEffect, WriteThroughMissEffect
          DEF WriteThroughHit, WriteThroughMiss
<1>3. CASE WritePolicy = "WriteBack"
  <2>1. WriteBackHit(s, t, bytes) \/ WriteBackMiss(s, t, bytes)
    BY <1>3 DEF Write
  <2> QED BY <1>3, <2>1, WriteBackHitEffect, WriteBackMissEffect
          DEF WriteBackHit, WriteBackMiss
<1> QED BY <1>1, <1>2, <1>3, CacheAssumption

\* Any read.
LEMMA ReadEffect ==
    ASSUME Inv, NEW s \in Sets, NEW t \in Tags, NEW span \in Spans,
           ReadHit(s, t, span) \/ ReadMiss(s, t, span)
    PROVE  /\ Inv'
           /\ ~Debugger => /\ StepView(s, t, View(s, t))
                           /\ reply' = [o \in span |-> View(s, t)[o]]
BY ReadHitEffect, ReadMissEffect

-----------------------------------------------------------------------------
(* Power and the debugger *)

\* A line after reset().
LEMMA ResetLine == CacheLineReset \in CacheLine
<1>1. [o \in Offsets |-> ResetVal] \in Data /\ 0 \in Tags
  BY CacheAssumption DEF Data
<1> QED BY <1>1 DEF CacheLineReset, CacheLine

\* A change of the supply drops all lines, and with them what was not saved.
LEMMA ResetEffect ==
    ASSUME Inv, Reset
    PROVE  /\ Inv'
           /\ \A s \in Sets, t \in Tags : View(s, t)' = mem[s][t]
           /\ mem' = mem /\ reply' = reply
<1>1. /\ lines' = [s \in Sets |-> [l \in Lines |-> CacheLineReset]]
      /\ repl' = [s \in Sets |-> PolicyReset(repl[s])]
      /\ mem' = mem /\ reply' = reply
  BY DEF Reset
<1>2. \A s \in Sets : GoodPolicy(PolicyReset(repl[s]))
  BY PoliciesGood, ResetGood DEF Inv, TypeOK
<1>3. repl' \in [Sets -> PolicyStates] /\ LruIsPermutation'
  BY <1>1, <1>2 DEF GoodPolicy, LruIsPermutation, Permutes
<1>4. \A s \in Sets, l \in Lines : lines'[s][l] = CacheLineReset
  BY <1>1
<1>5. ~CacheLineReset.valid /\ ~CacheLineReset.dirty
  BY DEF CacheLineReset
<1>6. lines' \in [Sets -> [Lines -> CacheLine]]
  BY <1>1, ResetLine
<1>7. TypeOK'
  BY <1>1, <1>3, <1>6 DEF Inv, TypeOK
<1>8. UniqueTags' /\ DirtyAssertions' /\ CleanLinesCoherent'
  BY <1>4, <1>5 DEF UniqueTags, DirtyAssertions, CleanLinesCoherent, Holds
<1>9. \A s \in Sets, t \in Tags : View(s, t)' = mem[s][t]
  BY <1>1, <1>4, <1>5 DEF View, IsHit, Holds
<1> QED BY <1>1, <1>3, <1>7, <1>8, <1>9 DEF Inv

\* A debugger's write changes memory only.
LEMMA DebugWriteEffect ==
    ASSUME Inv, NEW s \in Sets, NEW t \in Tags, NEW span \in Spans,
           NEW bytes \in [span -> Vals], DebugWrite(s, t, bytes)
    PROVE  Inv' /\ Debugger
<1>1. /\ Debugger /\ lines' = lines /\ repl' = repl /\ reply' = reply
      /\ mem' = StoreBytes(mem, s, t, bytes)
  BY DEF DebugWrite
<1>2. mem' \in [Sets -> [Tags -> Data]]
  BY <1>1, StoreBytesIs DEF Inv, TypeOK
<1>3. TypeOK'
  BY <1>1, <1>2 DEF Inv, TypeOK
<1> QED BY <1>1, <1>3 DEF Inv, UniqueTags, DirtyAssertions, LruIsPermutation, Holds

-----------------------------------------------------------------------------
(* The theorems *)

\* The cache starts with no valid line.
LEMMA InitInv == Init => Inv
<1> SUFFICES ASSUME Init PROVE Inv
  OBVIOUS
<1>1. /\ lines = [s \in Sets |-> [l \in Lines |-> CacheLineReset]]
      /\ mem \in [Sets -> [Tags -> Data]]
      /\ repl = [s \in Sets |-> PolicyInit]
      /\ reply = <<>>
  BY DEF Init
<1>2. repl \in [Sets -> PolicyStates] /\ LruIsPermutation
  BY <1>1, PolicyInitGood DEF GoodPolicy, LruIsPermutation, Permutes
<1>3. \A s \in Sets, l \in Lines : lines[s][l] = CacheLineReset
  BY <1>1
<1>4. ~CacheLineReset.valid /\ ~CacheLineReset.dirty
  BY DEF CacheLineReset
<1>5. TypeOK
  BY <1>1, <1>2, ResetLine DEF TypeOK, Replies
<1> QED
  BY <1>2, <1>3, <1>4, <1>5
  DEF Inv, UniqueTags, DirtyAssertions, CleanLinesCoherent, Holds

\* Every step keeps the invariant.
LEMMA NextInv == Inv /\ [Next]_cacheVars => Inv'
<1> SUFFICES ASSUME Inv, [Next]_cacheVars PROVE Inv'
  OBVIOUS
<1>1. CASE \E s \in Sets, t \in Tags, span \in Spans :
             ReadHit(s, t, span) \/ ReadMiss(s, t, span)
  BY <1>1, ReadEffect
<1>2. CASE \E s \in Sets, t \in Tags, span \in Spans : \E bytes \in [span -> Vals] :
             Write(s, t, bytes) \/ DebugWrite(s, t, bytes)
  BY <1>2, WriteEffect, DebugWriteEffect
<1>3. CASE Reset
  BY <1>3, ResetEffect
<1>4. CASE UNCHANGED cacheVars
  <2>1. lines' = lines /\ mem' = mem /\ repl' = repl /\ reply' = reply
    BY <1>4 DEF cacheVars
  <2>2. TypeOK' /\ LruIsPermutation'
    BY <2>1 DEF Inv, TypeOK, LruIsPermutation
  <2>3. UniqueTags' /\ DirtyAssertions' /\ (~Debugger => CleanLinesCoherent')
    BY <2>1 DEF Inv, UniqueTags, DirtyAssertions, CleanLinesCoherent, Holds
  <2> QED BY <2>2, <2>3 DEF Inv
<1> QED BY <1>1, <1>2, <1>3, <1>4 DEF Next

\* The invariant holds in every state.
THEOREM CacheInvariant == Spec => []Inv
<1>1. Inv /\ [Next]_cacheVars => Inv'
  BY NextInv
<1> QED BY InitInv, <1>1, PTL DEF Spec

\* The state of the cache always has its type: in particular the policies name
\* lines that exist and hit() finds every line in its list.
THEOREM CacheTypeCorrect == Spec => [](TypeOK /\ LruIsPermutation)
<1>1. Inv => TypeOK /\ LruIsPermutation
  BY DEF Inv
<1> QED BY CacheInvariant, <1>1, PTL

\* No tag is ever held twice.
THEOREM CacheAssertions == Spec => []UniqueTags
<1>1. Inv => UniqueTags
  BY DEF Inv
<1> QED BY CacheInvariant, <1>1, PTL

\* The assertions of the code on dirty lines never fail.
THEOREM DirtyLinesValid == Spec => []DirtyAssertions
<1>1. Inv => DirtyAssertions
  BY DEF Inv
<1> QED BY CacheInvariant, <1>1, PTL

\* Without a debugger clean lines agree with memory.
THEOREM CacheCoherent ==
    ASSUME ~Debugger PROVE Spec => []CleanLinesCoherent
<1>1. Inv => CleanLinesCoherent
  BY DEF Inv
<1> QED BY CacheInvariant, <1>1, PTL

\* The same of the state after a step.
LEMMA ViewIsNext ==
    ASSUME Inv', NEW s \in Sets, NEW t \in Tags
    PROVE  /\ \A l \in Lines : Holds(s, l, t)' => View(s, t)' = lines'[s][l].data
           /\ (\A l \in Lines : ~Holds(s, l, t)') => View(s, t)' = mem'[s][t]
<1>1. CASE IsHit(s, t)'
  <2> DEFINE Match(k) == lines'[s][k].valid /\ lines'[s][k].tag = t
             f == CHOOSE k \in Lines : Match(k) /\ \A j \in Lines : Match(j) => k <= j
  <2>1. PICK k \in Lines : Match(k)
    BY <1>1 DEF IsHit, Holds
  <2>2. \A i, j \in Lines : Match(i) /\ Match(j) => i = j
    BY DEF Inv, UniqueTags, Holds
  <2>3. \A j \in Lines : Match(j) => k <= j
    BY <2>1, <2>2, PolicyAssumption DEF Lines
  <2>4. f \in Lines /\ Match(f)
    BY <2>1, <2>3
  <2>5. View(s, t)' = lines'[s][f].data
    BY <1>1 DEF View, IsHit, FindLine, Holds
  <2> HIDE DEF f
  <2>6. \A j \in Lines : Holds(s, j, t)' => j = f
    BY <2>2, <2>4 DEF Holds
  <2> QED BY <2>4, <2>5, <2>6 DEF Holds
<1>2. CASE ~IsHit(s, t)'
  BY <1>2 DEF View, IsHit
<1> QED BY <1>1, <1>2

\* A write that hits leaves the bytes in the line, or in memory and no line.
LEMMA WriteHitSeen ==
    ASSUME Inv, Inv', NEW s \in Sets, NEW t \in Tags, NEW bytes, IsHit(s, t),
           \/ WriteAroundHit(s, t, bytes) \/ WriteThroughHit(s, t, bytes)
           \/ WriteBackHit(s, t, bytes)
    PROVE  \E data : View(s, t)' = Merge(data, bytes)
<1> DEFINE l == FindLine(s, t)
<1>1. /\ l \in Lines /\ lines[s][l] \in CacheLine
      /\ lines[s][l].valid /\ lines[s][l].tag = t
      /\ \A k \in Lines \ {l} : ~Holds(s, k, t)
  BY HitFacts
<1>2. lines \in [Sets -> [Lines -> CacheLine]] /\ mem \in [Sets -> [Tags -> Data]]
  BY DEF Inv, TypeOK
<1>3. CASE WriteAroundHit(s, t, bytes)
  <2>1. /\ lines' = [lines EXCEPT ![s][l].valid = FALSE]
        /\ mem' = StoreBytes(mem, s, t, bytes)
    BY <1>3 DEF WriteAroundHit
  <2> HIDE DEF l
  <2>2. \A k \in Lines : ~Holds(s, k, t)'
    BY <1>1, <1>2, <2>1 DEF Holds, CacheLine
  <2>3. mem'[s][t] = Merge(mem[s][t], bytes)
    BY <1>2, <2>1 DEF StoreBytes
  <2> QED BY <2>2, <2>3, ViewIsNext
<1>4. CASE WriteThroughHit(s, t, bytes)
  <2>1. lines' = [lines EXCEPT ![s][l].data = Merge(@, bytes)]
    BY <1>4 DEF WriteThroughHit
  <2> HIDE DEF l
  <2>2. lines'[s][l] = [lines[s][l] EXCEPT !.data = Merge(@, bytes)]
    BY <1>1, <1>2, <2>1
  <2>3. /\ lines'[s][l].data = Merge(lines[s][l].data, bytes)
        /\ lines'[s][l].valid /\ lines'[s][l].tag = t
    BY <1>1, <2>2 DEF CacheLine
  <2>4. View(s, t)' = lines'[s][l].data
    BY <1>1, <2>3, ViewIsNext DEF Holds
  <2> QED BY <2>3, <2>4
<1>5. CASE WriteBackHit(s, t, bytes)
  <2>1. lines' = [lines EXCEPT ![s][l].data = Merge(@, bytes), ![s][l].dirty = TRUE]
    BY <1>5 DEF WriteBackHit
  <2> HIDE DEF l
  <2>2. lines'[s][l] = [lines[s][l] EXCEPT !.data = Merge(@, bytes), !.dirty = TRUE]
    BY <1>1, <1>2, <2>1
  <2>3. /\ lines'[s][l].data = Merge(lines[s][l].data, bytes)
        /\ lines'[s][l].valid /\ lines'[s][l].tag = t
    BY <1>1, <2>2 DEF CacheLine
  <2>4. View(s, t)' = lines'[s][l].data
    BY <1>1, <2>3, ViewIsNext DEF Holds
  <2> QED BY <2>3, <2>4
<1> QED BY <1>3, <1>4, <1>5

\* A write that misses leaves the bytes in the line it fills, or in memory.
LEMMA WriteMissSeen ==
    ASSUME Inv, Inv', NEW s \in Sets, NEW t \in Tags, NEW bytes, ~IsHit(s, t),
           \/ WriteAroundMiss(s, t, bytes) \/ WriteThroughMiss(s, t, bytes)
           \/ WriteBackMiss(s, t, bytes)
    PROVE  \E data : View(s, t)' = Merge(data, bytes)
<1>1. \A k \in Lines : ~Holds(s, k, t)
  BY DEF IsHit
<1>2. lines \in [Sets -> [Lines -> CacheLine]] /\ mem \in [Sets -> [Tags -> Data]]
  BY DEF Inv, TypeOK
<1>3. CASE WriteAroundMiss(s, t, bytes)
  <2>1. lines' = lines /\ mem' = StoreBytes(mem, s, t, bytes)
    BY <1>3 DEF WriteAroundMiss
  <2>2. \A k \in Lines : ~Holds(s, k, t)'
    BY <1>1, <2>1 DEF Holds
  <2>3. mem'[s][t] = Merge(mem[s][t], bytes)
    BY <1>2, <2>1 DEF StoreBytes
  <2> QED BY <2>2, <2>3, ViewIsNext
<1>4. ASSUME NEW miss \in Misses(repl[s]), NEW line, NEW data,
             lines' = [lines EXCEPT ![s][miss.line] = line],
             line.valid, line.tag = t, line.data = Merge(data, bytes)
      PROVE  \E d : View(s, t)' = Merge(d, bytes)
  <2>1. miss.line \in Lines
    BY MissFacts
  <2>2. lines'[s][miss.line] = line
    BY <1>2, <1>4, <2>1
  <2>3. View(s, t)' = line.data
    BY <1>4, <2>1, <2>2, ViewIsNext DEF Holds
  <2> QED BY <1>4, <2>3
<1>5. CASE WriteThroughMiss(s, t, bytes)
  <2>1. PICK miss \in Misses(repl[s]) :
             lines' = [lines EXCEPT ![s][miss.line] =
                         [ReadLine(mem, s, t) EXCEPT !.data = Merge(@, bytes)]]
    BY <1>5 DEF WriteThroughMiss
  <2> DEFINE line == [ReadLine(mem, s, t) EXCEPT !.data = Merge(@, bytes)]
  <2>2. line.valid /\ line.tag = t /\ line.data = Merge(mem[s][t], bytes)
    BY DEF ReadLine
  <2>3. lines' = [lines EXCEPT ![s][miss.line] = line]
    BY <2>1
  <2> HIDE DEF line
  <2> QED BY <1>4, <2>2, <2>3
<1>6. CASE WriteBackMiss(s, t, bytes)
  <2>1. PICK miss \in Misses(repl[s]) :
             lines' = [lines EXCEPT ![s][miss.line] =
                         [ReadLine(mem', s, t) EXCEPT !.data = Merge(@, bytes),
                                                      !.dirty = TRUE]]
    BY <1>6 DEF WriteBackMiss
  <2> DEFINE line == [ReadLine(mem', s, t) EXCEPT !.data = Merge(@, bytes),
                                                  !.dirty = TRUE]
  <2>2. line.valid /\ line.tag = t /\ line.data = Merge(mem'[s][t], bytes)
    BY DEF ReadLine
  <2>3. lines' = [lines EXCEPT ![s][miss.line] = line]
    BY <2>1
  <2> HIDE DEF line
  <2> QED BY <1>4, <2>2, <2>3
<1> QED BY <1>3, <1>5, <1>6

\* What the next read of any byte of the write returns.
LEMMA WriteSeen ==
    ASSUME Inv, Inv', NEW s \in Sets, NEW t \in Tags, NEW span \in Spans,
           NEW bytes \in [span -> Vals], Write(s, t, bytes)
    PROVE  \A o \in span : View(s, t)'[o] = bytes[o]
<1>1. \/ /\ IsHit(s, t)
         /\ \/ WriteAroundHit(s, t, bytes) \/ WriteThroughHit(s, t, bytes)
            \/ WriteBackHit(s, t, bytes)
      \/ /\ ~IsHit(s, t)
         /\ \/ WriteAroundMiss(s, t, bytes) \/ WriteThroughMiss(s, t, bytes)
            \/ WriteBackMiss(s, t, bytes)
  <2>1. CASE WritePolicy = "WriteAround"
    BY <2>1 DEF Write, WriteAroundHit, WriteAroundMiss
  <2>2. CASE WritePolicy = "WriteThrough"
    BY <2>2 DEF Write, WriteThroughHit, WriteThroughMiss
  <2>3. CASE WritePolicy = "WriteBack"
    BY <2>3 DEF Write, WriteBackHit, WriteBackMiss
  <2> QED BY <2>1, <2>2, <2>3, CacheAssumption
<1>2. PICK data : View(s, t)' = Merge(data, bytes)
  BY <1>1, WriteHitSeen, WriteMissSeen
<1>3. span \subseteq Offsets
  BY CacheAssumption
<1> QED BY <1>2, <1>3 DEF Merge

\* Every write is seen by the next read, whatever the write policy, and whatever
\* a debugger does behind the cache.
THEOREM EveryWriteVisible == Spec => WritesVisible
<1>1. ASSUME Inv, Inv', [Next]_cacheVars
      PROVE  [\A s \in Sets, t \in Tags, span \in Spans : \A bytes \in [span -> Vals] :
                Write(s, t, bytes) => \A o \in span : View(s, t)'[o] = bytes[o]]_cacheVars
  BY <1>1, WriteSeen
<1> QED BY CacheInvariant, <1>1, PTL DEF Spec, WritesVisible

\* Write through and write around keep nothing that a power failure could lose.
THEOREM NothingVolatile ==
    ASSUME ~Debugger, WritePolicy # "WriteBack" PROVE Spec => []MemoryIsUpToDate
<1>1. ASSUME Inv PROVE MemoryIsUpToDate
  <2> SUFFICES ASSUME NEW s \in Sets, NEW t \in Tags
               PROVE  mem[s][t] = View(s, t)
    BY DEF MemoryIsUpToDate
  <2>1. CASE \E l \in Lines : Holds(s, l, t)
    <3>1. PICK l \in Lines : Holds(s, l, t)
      BY <2>1
    <3>2. View(s, t) = lines[s][l].data
      BY <1>1, <3>1, ViewIs DEF Inv
    <3> QED BY <1>1, <3>1, <3>2 DEF Inv, DirtyAssertions, CleanLinesCoherent, Holds
  <2>2. CASE ~(\E l \in Lines : Holds(s, l, t))
    BY <1>1, <2>2, ViewIs DEF Inv
  <2> QED BY <2>1, <2>2
<1> QED BY CacheInvariant, <1>1, PTL

-----------------------------------------------------------------------------
(* The cache implements the abstract memory *)

\* A read of the processor is a read of the abstract memory.
LEMMA ReadRefines ==
    ASSUME Inv, ~Debugger, NEW s \in Sets, NEW t \in Tags, NEW span \in Spans,
           ReadHit(s, t, span) \/ ReadMiss(s, t, span)
    PROVE  Persistent!MemoryRead(<<s, t>>, span)
<1>1. /\ Inv' /\ StepView(s, t, View(s, t))
      /\ reply' = [o \in span |-> View(s, t)[o]]
  BY ReadEffect
<1>2. mem' \in [Sets -> [Tags -> Data]]
  BY <1>1 DEF Inv, TypeOK
<1>3. \A z \in Sets, u \in Tags :
        /\ View(z, u)' = View(z, u)
        /\ mem'[z][u] = mem[z][u] \/ mem'[z][u] = View(z, u)'
  BY <1>1 DEF StepView
<1>4. [p \in Sets \X Tags |-> View(p[1], p[2])]'
        = [p \in Sets \X Tags |-> View(p[1], p[2])]
  BY <1>3
<1>5. [p \in Sets \X Tags |-> mem'[p[1]][p[2]]] \in Persistent!Contents
  BY <1>2 DEF Persistent!Contents, Data
<1>6. Persistent!SaveSome
  BY <1>3 DEF Persistent!SaveSome
<1> QED BY <1>1, <1>4, <1>5, <1>6 DEF Persistent!MemoryRead

\* A write of the processor is a write of the abstract memory.
LEMMA WriteRefines ==
    ASSUME Inv, ~Debugger, NEW s \in Sets, NEW t \in Tags, NEW span \in Spans,
           NEW bytes \in [span -> Vals], Write(s, t, bytes)
    PROVE  Persistent!MemoryWrite(<<s, t>>, bytes)
<1>1. Inv' /\ StepView(s, t, Merge(View(s, t), bytes)) /\ reply' = reply
  BY WriteEffect
<1>2. mem' \in [Sets -> [Tags -> Data]]
  BY <1>1 DEF Inv, TypeOK
<1>3. /\ \A z \in Sets, u \in Tags :
            /\ z # s \/ u # t => View(z, u)' = View(z, u)
            /\ mem'[z][u] = mem[z][u] \/ mem'[z][u] = View(z, u)'
      /\ View(s, t)' = Merge(View(s, t), bytes)
  BY <1>1 DEF StepView
<1>4. Persistent!Merge(View(s, t), bytes) = Merge(View(s, t), bytes)
  BY DEF Merge, Persistent!Merge
<1>5. [p \in Sets \X Tags |-> View(p[1], p[2])]'
        = [[p \in Sets \X Tags |-> View(p[1], p[2])] EXCEPT
             ![<<s, t>>] = Persistent!Merge(@, bytes)]
  <2> DEFINE v == [p \in Sets \X Tags |-> View(p[1], p[2])]
             new == Persistent!Merge(View(s, t), bytes)
  <2>1. View(s, t)' = new
    BY <1>3, <1>4
  <2>2. v[<<s, t>>] = View(s, t)
    OBVIOUS
  <2> HIDE DEF new
  <2>3. v' = [v EXCEPT ![<<s, t>>] = new]
    <3> DEFINE w == [p \in Sets \X Tags |-> IF p = <<s, t>> THEN new
                                                         ELSE View(p[1], p[2])]
    <3>1. [v EXCEPT ![<<s, t>>] = new] = w
      OBVIOUS
    <3>2. ASSUME NEW p \in Sets \X Tags
          PROVE  View(p[1], p[2])' = IF p = <<s, t>> THEN new ELSE View(p[1], p[2])
      <4>1. p[1] \in Sets /\ p[2] \in Tags /\ p = <<p[1], p[2]>>
        OBVIOUS
      <4> QED BY <1>3, <2>1, <4>1
    <3>3. v' = w
      BY <3>2
    <3> QED BY <3>1, <3>3
  <2> QED BY <2>2, <2>3 DEF new
<1>6. [p \in Sets \X Tags |-> mem'[p[1]][p[2]]] \in Persistent!Contents
  BY <1>2 DEF Persistent!Contents, Data
<1>7. Persistent!SaveSome
  BY <1>3 DEF Persistent!SaveSome
<1> QED BY <1>1, <1>5, <1>6, <1>7 DEF Persistent!MemoryWrite

\* Without a debugger, the cache in front of its memory is a memory that reads
\* back what was written and whose lines survive a power failure whole.
THEOREM CacheRefinement ==
    ASSUME ~Debugger PROVE Spec => ImplementsPersistentMemory
<1>1. Init => Persistent!MemoryInit
  <2> SUFFICES ASSUME Init PROVE Persistent!MemoryInit
    OBVIOUS
  <2>1. \A s \in Sets, t \in Tags : View(s, t) = mem[s][t]
    BY DEF Init, View, IsHit, Holds, CacheLineReset
  <2>2. [p \in Sets \X Tags |-> View(p[1], p[2])]
          = [p \in Sets \X Tags |-> mem[p[1]][p[2]]]
    BY <2>1
  <2>3. [p \in Sets \X Tags |-> mem[p[1]][p[2]]] \in Persistent!Contents
    BY DEF Init, Persistent!Contents, Data
  <2> QED BY <2>2, <2>3 DEF Init, Persistent!MemoryInit
<1>2. Inv /\ [Next]_cacheVars => [Persistent!MemoryNext]_(Persistent!memoryVars)
  <2> SUFFICES ASSUME Inv, [Next]_cacheVars
               PROVE  [Persistent!MemoryNext]_(Persistent!memoryVars)
    OBVIOUS
  <2>1. CASE \E s \in Sets, t \in Tags, span \in Spans :
               ReadHit(s, t, span) \/ ReadMiss(s, t, span)
    <3>1. PICK s \in Sets, t \in Tags, span \in Spans :
                 ReadHit(s, t, span) \/ ReadMiss(s, t, span)
      BY <2>1
    <3>2. Persistent!MemoryRead(<<s, t>>, span)
      BY <3>1, ReadRefines
    <3> QED BY <3>2 DEF Persistent!MemoryNext
  <2>2. CASE \E s \in Sets, t \in Tags, span \in Spans : \E bytes \in [span -> Vals] :
               Write(s, t, bytes) \/ DebugWrite(s, t, bytes)
    <3>1. PICK s \in Sets, t \in Tags, span \in Spans : \E bytes \in [span -> Vals] :
                 Write(s, t, bytes) \/ DebugWrite(s, t, bytes)
      BY <2>2
    <3>2. PICK bytes \in [span -> Vals] : Write(s, t, bytes) \/ DebugWrite(s, t, bytes)
      BY <3>1
    <3>3. Write(s, t, bytes)
      BY <3>2, DebugWriteEffect
    <3>4. Persistent!MemoryWrite(<<s, t>>, bytes)
      BY <3>3, WriteRefines
    <3> QED BY <3>4 DEF Persistent!MemoryNext
  <2>3. CASE Reset
    <3>1. /\ \A s \in Sets, t \in Tags : View(s, t)' = mem[s][t]
          /\ mem' = mem /\ reply' = reply
      BY <2>3, ResetEffect
    <3>2. [p \in Sets \X Tags |-> View(p[1], p[2])]'
            = [p \in Sets \X Tags |-> mem[p[1]][p[2]]]
      BY <3>1
    <3>3. Persistent!SupplyChange
      BY <3>1, <3>2 DEF Persistent!SupplyChange
    <3> QED BY <3>3 DEF Persistent!MemoryNext
  <2>4. CASE UNCHANGED cacheVars
    BY <2>4 DEF cacheVars, Persistent!memoryVars, View, IsHit, FindLine, Holds
  <2> QED BY <2>1, <2>2, <2>3, <2>4 DEF Next
<1> QED BY CacheInvariant, <1>1, <1>2, PTL
        DEF Spec, ImplementsPersistentMemory, Persistent!MemorySpec
=============================================================================
