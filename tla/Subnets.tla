-------------------------------- MODULE Subnets --------------------------------
(***************************************************************************)
(* Subnets of net/addr/subnet.hpp: an address and how many of its first    *)
(* bits are the network.  Words of 32 bits are handled as they are in the  *)
(* code, in the order hton gives them; Subnet4, Subnet6 and SubnetAny      *)
(* differ in which addresses they take.                                    *)
(***************************************************************************)
EXTENDS NetAddrs

\* Bytes as bits from the highest to the lowest, and back.
Weights == <<128, 64, 32, 16, 8, 4, 2, 1>>
Bits(n) ==
    [k \in 1 .. 8 * Len(n) |-> (n[((k - 1) \div 8) + 1] \div Weights[((k - 1) % 8) + 1]) % 2]

ByteAt(bits, b) ==
    LET Part(k) == Weights[k] * bits[8 * (b - 1) + k]
    IN Part(1) + Part(2) + Part(3) + Part(4) + Part(5) + Part(6) + Part(7) + Part(8)
Bytes(bits) == [b \in 1 .. Len(bits) \div 8 |-> ByteAt(bits, b)]

Ones(n) == [k \in 1 .. n |-> 1]
None(n) == [k \in 1 .. n |-> 0]
AndBits(x, y) == [k \in DOMAIN x |-> x[k] * y[k]]
AndByte(v, w) == ByteAt(AndBits(Bits(<<v>>), Bits(<<w>>)), 1)
NotBits(x) == [k \in DOMAIN x |-> 1 - x[k]]

\* x + 1, which is 0 for all ones
Increment(x) ==
    LET last == SelectLastInSeq(x, LAMBDA b : b = 0)
    IN [k \in DOMAIN x |-> IF k < last THEN x[k] ELSE IF k = last THEN 1 ELSE 0]

\* std::countr_zero
TrailingZeros(x) == Len(x) - SelectLastInSeq(x, LAMBDA b : b = 1)

\* Fault: the shift by 32, which the machine takes for none, is not masked.
Addr32MaskShifted(pfx) ==
    Htoe(Native, "big", Bytes(IF pfx = 0 THEN Ones(32) ELSE Ones(pfx) \o None(32 - pfx)))

\* addr32Mask, for prefixes up to 32: what ~0 << 32 gives is masked.
Addr32Mask(pfx) ==
    Htoe(Native, "big", Bytes(IF pfx = 0 THEN None(32) ELSE Ones(pfx) \o None(32 - pfx)))

\* word(i), in memory and as an integer
MemWord(a, i) == SubSeq(a, 4 * i + 1, 4 * i + 4)
IntWord(a, i) == Memory(Native, MemWord(a, i))

\* addrToSubnet: words before the last that the prefix reaches are copied,
\* that one is masked, and the rest is zero.
AddrToSubnet(a, pfx) ==
    LET last == IF pfx = 0 THEN 0 ELSE (pfx - 1) \div 32
        word == IntWord(a, last)
        mask == Addr32Mask(pfx - 32 * last)
        masked == [b \in 1 .. 4 |-> AndByte(word[b], mask[b])]
        OutWord(i) == IF i < last THEN MemWord(a, i)
                      ELSE IF i = last THEN Memory(Native, masked) ELSE <<0, 0, 0, 0>>
    IN [k \in DOMAIN a |-> OutWord((k - 1) \div 4)[((k - 1) % 4) + 1]]

\* subnetContains and contains: addresses of two families never match.
SubnetContains(l, r, pfx) ==
    Len(l) = Len(r) /\ AddrToSubnet(l, pfx) = AddrToSubnet(r, pfx)

\* The constructors
Subnet(a, pfx) == IF 8 * Len(a) < pfx THEN Throws ELSE <<[addr |-> a, pfx |-> pfx]>>

\* pfxToMask<In4Addr>, for prefixes up to 32, and maskToPfx
PfxToMask(pfx) == Memory(Native, Addr32Mask(pfx))

\* Fault: a mask is taken for its ones in front.
MaskToPfxPrefix(mask) ==
    LET x == Bits(Htoe(Native, "big", IntWord(mask, 0)))
    IN <<32 - TrailingZeros(x)>>

MaskToPfx(mask) ==
    LET x == Bits(Htoe(Native, "big", IntWord(mask, 0)))
    IN IF AndBits(NotBits(x), Increment(NotBits(x))) # None(32) THEN Throws
       ELSE <<32 - TrailingZeros(x)>>

\* FromStr and ToStr of a kind of subnet: of the address before the slash.
AddrFromStr(kind, s) ==
    CASE kind = "subnet4" -> In4FromStr(s)
      [] kind = "subnet6" -> In6FromStr(s)
      [] kind = "subnetany" -> InAnyFromStr(s)

SubnetOf(a, pfx) ==
    IF a = Throws \/ pfx = Throws THEN Throws ELSE Subnet(a[1], pfx[1])

SubnetFromStr(kind, s) ==
    LET pos == RFind(s, Slash)
    IN IF pos = 0 THEN Throws
       ELSE SubnetOf(AddrFromStr(kind, Before(s, pos)), Word(After(s, pos), 255))

SubnetToStr(sub) == InAnyToStr(sub.addr) \o <<Slash, sub.pfx>>

===============================================================================
