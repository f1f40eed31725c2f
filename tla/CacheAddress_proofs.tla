------------------------- MODULE CacheAddress_proofs -------------------------
(***************************************************************************)
(* The split of an address is right for lines of any width and any number  *)
(* of sets: LinesApart of CacheAddress.                                    *)
(***************************************************************************)
EXTENDS CacheAddress, TLAPS

\* A number is its quotient and its remainder.
LEMMA DivMod ==
    ASSUME NEW a \in Int, NEW d \in Nat \ {0}
    PROVE  /\ a \div d \in Int /\ a % d \in 0 .. d - 1
           /\ a = (a \div d) * d + (a % d)
<1>1. a \div d \in Int
  OBVIOUS
<1>2. a % d \in 0 .. d - 1
  OBVIOUS
<1>3. a = (a \div d) * d + (a % d)
  OBVIOUS
<1>. QED  BY <1>1, <1>2, <1>3

\* There is only one way to write it so.
LEMMA DivModUnique ==
    ASSUME NEW d \in Nat \ {0}, NEW q \in Int, NEW r \in 0 .. d - 1
    PROVE  (q * d + r) \div d = q /\ (q * d + r) % d = r
OBVIOUS

\* The parts of an address, and the address from its parts.
LEMMA Parts ==
    ASSUME NEW a \in Nat
    PROVE  /\ offset(a) \in 0 .. LineWidth - 1 /\ index(a) \in 0 .. NSets - 1
           /\ tag(a) \in Int /\ a \div LineWidth \in Int
           /\ a \div LineWidth = tag(a) * NSets + index(a)
           /\ a = (a \div LineWidth) * LineWidth + offset(a)
<1>1. LineWidth \in Nat \ {0} /\ NSets \in Nat \ {0}
  BY CacheAddressAssumption
<1>2. a \div LineWidth \in Int /\ a % LineWidth \in 0 .. LineWidth - 1
      /\ a = (a \div LineWidth) * LineWidth + (a % LineWidth)
  BY <1>1, DivMod
<1>3. PICK line : line = a \div LineWidth
  OBVIOUS
<1>4. line \div NSets \in Int /\ line % NSets \in 0 .. NSets - 1
      /\ line = (line \div NSets) * NSets + (line % NSets)
  BY <1>1, <1>2, <1>3, DivMod
<1>. QED  BY ONLY <1>2, <1>3, <1>4, Zenon DEF offset, index, tag

\* Reads the address of the line of a from the tag and the index of a.
LEMMA LineAddress ==
    ASSUME NEW a \in Nat, NEW other \in Nat, index(other) = index(a)
    PROVE  wbaddr(tag(a), other) = fillAddr(a)
<1>1. LineWidth \in Nat \ {0} /\ NSets \in Nat \ {0}
  BY CacheAddressAssumption
<1>. DEFINE t == tag(a)  i == index(a)  l == a \div LineWidth  o == offset(a)
<1>2. t \in Int /\ i \in Int /\ l \in Int /\ o \in Int /\ l = t * NSets + i
      /\ a = l * LineWidth + o
  <2>1. t \in Int /\ l \in Int /\ l = t * NSets + i /\ a = l * LineWidth + o
    BY Parts, Zenon
  <2>2. i \in 0 .. NSets - 1 /\ o \in 0 .. LineWidth - 1
    BY Parts, Zenon
  <2>. HIDE DEF t, i, l, o
  <2>. QED  BY <1>1, <2>1, <2>2
<1>3. wbaddr(t, other) = (t * NSets) * LineWidth + i * LineWidth
  BY DEF wbaddr
<1>4. fillAddr(a) = a - o
  BY DEF fillAddr
<1>. HIDE DEF t, i, l, o
<1>5. (t * NSets) * LineWidth + i * LineWidth = (t * NSets + i) * LineWidth
  BY <1>1, <1>2
<1>. QED  BY <1>1, <1>2, <1>3, <1>4, <1>5 DEF t

\* The bytes of an access up to the last one of the line are in the line.
LEMMA SameLine ==
    ASSUME NEW a \in Nat, NEW i \in Nat, offset(a) + i < LineWidth
    PROVE  /\ index(a + i) = index(a) /\ tag(a + i) = tag(a)
           /\ offset(a + i) = offset(a) + i
<1>1. LineWidth \in Nat \ {0}
  BY CacheAddressAssumption
<1>. DEFINE l == a \div LineWidth  o == offset(a)
<1>2. l \in Int /\ o \in Nat /\ a = l * LineWidth + o
  <2>1. l \in Int /\ o \in 0 .. LineWidth - 1 /\ a = l * LineWidth + o
    BY Parts, Zenon
  <2>. HIDE DEF l, o
  <2>. QED  BY <1>1, <2>1
<1>3. (a + i) \div LineWidth = l /\ (a + i) % LineWidth = o + i
  <2>1. o + i \in 0 .. LineWidth - 1 /\ o + i < LineWidth
    BY <1>1, <1>2
  <2>. HIDE DEF l, o
  <2>2. a + i = l * LineWidth + (o + i) /\ l * LineWidth \in Int
    BY <1>1, <1>2
  <2>. QED  BY <1>1, <1>2, <2>1, <2>2, DivModUnique
<1>. QED  BY <1>3 DEF index, tag, offset

\* An access that starts in a line and does not wrap to a smaller offset ends in it.
LEMMA EndsInLine ==
    ASSUME NEW a \in Nat, NEW n \in 1 .. LineWidth, ~Unaligned(a, n)
    PROVE  offset(a) + n - 1 < LineWidth
<1>1. LineWidth \in Nat \ {0}
  BY CacheAddressAssumption
<1>. DEFINE l == a \div LineWidth  o == offset(a)
<1>2. l \in Int /\ o \in 0 .. LineWidth - 1 /\ a = l * LineWidth + o
  BY Parts, <1>1
<1>3. SUFFICES ASSUME o + n - 1 >= LineWidth PROVE FALSE
  BY <1>1, <1>2
<1>4. offset(a + n - 1) = o + n - 1 - LineWidth
  <2>1. o + n - 1 - LineWidth \in 0 .. LineWidth - 1
    BY <1>1, <1>2, <1>3
  <2>. HIDE DEF l, o
  <2>2. a + n - 1 = (l + 1) * LineWidth + (o + n - 1 - LineWidth) /\ l + 1 \in Int
    BY <1>1, <1>2
  <2>3. ((l + 1) * LineWidth + (o + n - 1 - LineWidth)) % LineWidth = o + n - 1 - LineWidth
    BY <1>1, <2>1, <2>2, DivModUnique
  <2>. QED  BY <2>2, <2>3 DEF offset
<1>5. ~(o > o + n - 1 - LineWidth)
  BY <1>4 DEF Unaligned
<1>. QED  BY <1>1, <1>2, <1>5

\* A victim is written back to where it was filled from, whatever address of its set
\* evicts it (Cache::writeLine, readLine).
LEMMA VictimsGoHome ==
    ASSUME NEW s, NEW t
    PROVE  VictimGoesHome(s, t)
BY LineAddress, CacheAddressAssumption DEF VictimGoesHome, LineAddrs, SetAddrs, Addrs

\* The alignment check of Cache::b_transport lets through only accesses all of whose
\* bytes are in the line of the first, at the offsets that memcpy() uses.
LEMMA AccessesStayInLine ==
    ASSUME NEW s, NEW t
    PROVE  AccessInLine(s, t)
<1>. SUFFICES ASSUME NEW a \in LineAddrs(s, t), NEW n \in 1 .. LineWidth,
                     ~Unaligned(a, n), NEW i \in 0 .. n - 1
              PROVE  index(a + i) = s /\ tag(a + i) = t /\ offset(a + i) = offset(a) + i
  BY DEF AccessInLine
<1>1. a \in Nat /\ i \in Nat /\ index(a) = s /\ tag(a) = t
  BY CacheAddressAssumption DEF LineAddrs, SetAddrs, Addrs
<1>2. offset(a) + n - 1 < LineWidth /\ offset(a) \in Nat
  BY <1>1, EndsInLine, Parts
<1>3. offset(a) + i < LineWidth
  BY <1>1, <1>2, CacheAddressAssumption
<1>. QED  BY <1>1, <1>3, SameLine

\* For lines of any width and any number of sets the address arithmetic of the cache
\* (Cache::tag, index, offset, writeLine, readLine, b_transport) keeps the lines it
\* holds apart, in whatever state it is.
THEOREM LinesAreApart == Spec => []LinesApart
<1>1. LinesApart
  BY VictimsGoHome, AccessesStayInLine DEF LinesApart
<1>. QED  BY <1>1, PTL
=============================================================================
