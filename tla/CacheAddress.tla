---------------------------- MODULE CacheAddress ----------------------------
(***************************************************************************)
(* How mcu/Cache.cpp splits an address into tag, index and offset, puts    *)
(* the address of a victim together again, and tests that an access stays  *)
(* inside a line.  Module Cache takes these as given.                      *)
(*                                                                         *)
(* The code masks and shifts words of 32 bits; here the same fields are    *)
(* quotients and remainders, which a proof can reason about for lines and  *)
(* sets of any size.  CacheMasks has the masks, and that they agree.       *)
(* A set of Cache is an index, a tag of Cache a tag.                       *)
(***************************************************************************)
EXTENDS Cache

CONSTANTS
    LineWidth, NSets,   \* CacheLineWidth and CacheNSets
    AddrSpace           \* bound: addresses are below it (2^32 in the code)

ASSUME CacheAddressAssumption == {LineWidth, NSets, AddrSpace} \subseteq Nat \ {0}

Addrs == 0 .. AddrSpace - 1

index(a) == (a \div LineWidth) % NSets
tag(a) == (a \div LineWidth) \div NSets
offset(a) == a % LineWidth

\* Mutant: the tag is moved past the offset only.
wbaddr_TagTooLow(t, a) == t * LineWidth + index(a) * LineWidth

\* The address writeLine() uses for a line with tag t in the set of address a.
wbaddr(t, a) == (t * NSets) * LineWidth + index(a) * LineWidth

\* The address readLine() fills a line from.
fillAddr(a) == a - offset(a)

\* The access b_transport() refuses.
Unaligned(a, n) == offset(a) > offset(a + n - 1)

\* The addresses of a set, and those of the line with tag t in it.
SetAddrs(s) == {a \in Addrs : index(a) = s}
LineAddrs(s, t) == {a \in SetAddrs(s) : tag(a) = t}

\* A line that is held goes back to where it was filled from: for every other
\* address of the set, whose access may evict the line, writeLine() puts the same
\* address together as readLine() used.
VictimGoesHome(s, t) ==
    \A a \in LineAddrs(s, t), other \in SetAddrs(s) : wbaddr(t, other) = fillAddr(a)

\* No access leaves its line: every byte of an access b_transport() lets through
\* has the index and the tag of the first byte, at the offset memcpy() uses.
AccessInLine(s, t) ==
    \A a \in LineAddrs(s, t), n \in 1 .. LineWidth :
        ~Unaligned(a, n) =>
            \A i \in 0 .. n - 1 :
                index(a + i) = s /\ tag(a + i) = t /\ offset(a + i) = offset(a) + i

\* The lines the cache holds share no place with another line, whichever way it is
\* reached: by the address of a victim (writeLine(), readLine()) or by the bytes of
\* an access (b_transport()).
LinesApart ==
    \A s \in Sets, l \in Lines :
        lines[s][l].valid =>
            VictimGoesHome(s, lines[s][l].tag) /\ AccessInLine(s, lines[s][l].tag)
=============================================================================
