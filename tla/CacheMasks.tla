----------------------------- MODULE CacheMasks -----------------------------
(***************************************************************************)
(* The masks and shifts with which mcu/Cache.cpp computes the fields of an *)
(* address, against the quotients and remainders of CacheAddress.          *)
(***************************************************************************)
EXTENDS CacheAddress, Bitwise

CONSTANT AddrBits   \* bound: the width of an address (32 in the code)

PowersOfTwo == {2 ^ n : n \in 0 .. AddrBits}

ASSUME CacheMasksAssumption ==
    {LineWidth, NSets} \subseteq PowersOfTwo /\ AddrSpace = 2 ^ AddrBits

Log2(n) == CHOOSE b \in 0 .. AddrBits : 2 ^ b = n

nOffsetBits == Log2(LineWidth)
nIdBits == Log2(NSets)

\* a << n, a >> n and ~a, of a word of AddrBits bits.
ShiftL(a, n) == (a * 2 ^ n) % AddrSpace
ShiftR(a, n) == a \div 2 ^ n
Complement(a) == AddrSpace - 1 - a

offsetMask == LineWidth - 1

\* Mutant: the mask is not moved past the offset bits.
idMask_NotShifted == NSets - 1

idMask == ShiftL(NSets - 1, nOffsetBits)
tagMask == Complement(offsetMask | idMask)

\* The functions of the same name without "masked".
maskedIndex(a) == ShiftR(a & idMask, nOffsetBits)
maskedTag(a) == ShiftR(a & tagMask, nOffsetBits + nIdBits)
maskedOffset(a) == a & offsetMask
maskedWbaddr(t, a) ==
    ShiftL(t, nOffsetBits + nIdBits) | ShiftL(maskedIndex(a), nOffsetBits)
maskedFillAddr(a) == a & Complement(offsetMask)

\* The masks of Cache::Cache() cut an address of a line the cache holds where CacheAddress divides it, and
\* writeLine() and readLine() put the same addresses together (the masks are
\* computed from m_lineWidth and m_nSets, the shifts from their logarithms).
MasksDivide ==
    \A s \in Sets, l \in Lines : lines[s][l].valid =>
        LET t == lines[s][l].tag
        IN  /\ \A a \in LineAddrs(s, t) :
                  /\ maskedIndex(a) = s
                  /\ maskedTag(a) = t
                  /\ maskedOffset(a) = offset(a)
                  /\ maskedFillAddr(a) = fillAddr(a)
            /\ \A other \in SetAddrs(s) : maskedWbaddr(t, other) = wbaddr(t, other)
=============================================================================
