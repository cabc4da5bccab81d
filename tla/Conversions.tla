------------------------------ MODULE Conversions ------------------------------
(***************************************************************************)
(* A program that calls the conversions of stdplus, one after another: the *)
(* numbers of Numbers, the addresses of NetAddrs, Subnets and SockAddrs,   *)
(* and the strings of ZStrings.  The conversions keep no state, so the     *)
(* state is the call that was made last, with its arguments and what it    *)
(* returned; the properties compare that with what the texts and the bytes *)
(* mean.                                                                   *)
(***************************************************************************)
EXTENDS Subnets, SockAddrs, ZStrings

CONSTANTS
    IntTypes, Bases, Widths, \* the integers that are printed, and how
    Numerals(_),             \* the texts that are parsed in a base
    Durations, Second,       \* times, and how much of them is a second
    Values(_), Inputs(_),    \* addresses of a kind, and texts for it
    Nearby(_), Masks,        \* addresses that differ in one bit; netmasks
    Paths, Packed,           \* paths of sockets; integers that are packed
    Strings, Others          \* nul-terminated strings, and what they meet

VARIABLE call

Idle == [op |-> "none"]
Does(c) == call' = c
Did(op) == call.op = op

InKinds == {"in4", "in6"}
SubnetKinds == {"subnet4", "subnet6", "subnetany"}
SockKinds == {"sock4", "sock6", "socku", "sockin", "sockany"}
Kinds == InKinds \cup {"inany", "ether"} \cup SubnetKinds \cup SockKinds

\* Addresses as their constructors make them
Addrs == [1 .. 4 -> 0 .. 255] \cup [1 .. 16 -> 0 .. 255]
PortNumbers == 0 .. 65535
Inets == [fam : {"inet"}, addr : Addrs, port : PortNumbers]
Inet6s == [fam : {"inet6"}, addr : Addrs, port : PortNumbers, scope : Nat]
Names == Seq(Int \ {Unset})
IsSockAddr(a) ==
    \/ a \in Inets
    \/ a \in Inet6s
    \/ a.path \in Names /\ SockUAddr(a.path) = <<a>>

ASSUME DurationsAssumption == Durations \subseteq Int /\ Second \in Nat \ {0}
ASSUME AddrsAssumption ==
    /\ Values("inany") \subseteq Addrs
    /\ \A a \in Values("inany") : Nearby(a) \subseteq Addrs
ASSUME MasksAssumption == Masks \subseteq [1 .. 4 -> 0 .. 255]
ASSUME SocksAssumption ==
    /\ \A kind \in SockKinds : \A a \in Values(kind) : IsSockAddr(a)
    /\ \A p \in Paths : p \in Names
ASSUME PackedAssumption == \A n \in Packed : n \in Seq(0 .. 255)
ASSUME StringsAssumption == \A s \in Strings \cup Others : s \in Seq(Nat)

\* fromStr<T>(text)
FromStr(kind, s) ==
    CASE kind = "in4" -> In4FromStr(s)
      [] kind = "in6" -> In6FromStr(s)
      [] kind = "inany" -> InAnyFromStr(s)
      [] kind = "ether" -> EtherFromStr(s)
      [] kind \in SubnetKinds -> SubnetFromStr(kind, s)
      [] kind = "sock4" -> Sock4FromStr(s)
      [] kind = "sock6" -> Sock6FromStr(s)
      [] kind = "socku" -> SockUFromStr(s)
      [] kind = "sockin" -> SockInFromStr(s)
      [] kind = "sockany" -> SockAnyFromStr(s)

\* toStr(v)
ToStr(kind, v) ==
    CASE kind \in InKinds \cup {"inany"} -> InAnyToStr(v)
      [] kind = "ether" -> EtherToStr(v)
      [] kind \in SubnetKinds -> SubnetToStr(v)
      [] kind \in SockKinds -> SockToStr(v)

\* The families that fromBuf of a type takes.
Families(kind) ==
    CASE kind = "sock4" -> {"inet"}
      [] kind = "sock6" -> {"inet6"}
      [] kind = "socku" -> {"unix"}
      [] kind = "sockin" -> {"inet", "inet6"}
      [] kind = "sockany" -> {"inet", "inet6", "unix"}

-----------------------------------------------------------------------------
\* The calls.  The lowest value of the widest type has no negative, and a
\* prefix for pfxToMask has at most 32 bits: what is outside is undefined.
PrintInt ==
    /\ call = Idle
    /\ \E T \in IntTypes, base \in Bases, width \in Widths :
           \E v \in Lo(T) .. Hi(T) :
               /\ T.signed => v # Lo(Carrier(T))
               /\ Does([op |-> "print_int", T |-> T, base |-> base, width |-> width, v |-> v,
                        text |-> IntToStr(base, v, width), room |-> Room(base, v)])

ParseInt ==
    /\ call = Idle
    /\ \E T \in IntTypes, base \in Bases \cup {0} :
           \E s \in Numerals(base) :
               Does([op |-> "parse_int", T |-> T, base |-> base, text |-> s,
                     ret |-> StrToInt(base, T, s)])

ToTimespec ==
    /\ call = Idle
    /\ \E t \in Durations : Does([op |-> "timespec", t |-> t, ts |-> ChronoToKTS(t, Second)])

ToText ==
    /\ call = Idle
    /\ \E kind \in Kinds :
           \E v \in Values(kind) :
               Does([op |-> "print", kind |-> kind, v |-> v, text |-> ToStr(kind, v)])

FromText ==
    /\ call = Idle
    /\ \E kind \in Kinds :
           \E s \in Inputs(kind) :
               Does([op |-> "parse", kind |-> kind, text |-> s, ret |-> FromStr(kind, s)])

MakeSubnet ==
    /\ call = Idle
    /\ \E a \in Values("inany"), pfx \in 0 .. 255 :
           Does([op |-> "subnet", addr |-> a, pfx |-> pfx, ret |-> Subnet(a, pfx)])

\* contains() and network() of a subnet, and an address that is near to its
\* own or any other
InSubnet ==
    /\ call = Idle
    /\ \E a \in Values("inany"), pfx \in 0 .. 128 :
           \E other \in Nearby(a) \cup Values("inany") :
               /\ pfx <= 8 * Len(a)
               /\ Does([op |-> "contains", addr |-> a, other |-> other, pfx |-> pfx,
                        ret |-> SubnetContains(a, other, pfx), net |-> AddrToSubnet(a, pfx)])

ToMask ==
    /\ call = Idle
    /\ \E pfx \in 0 .. 32 : Does([op |-> "mask", pfx |-> pfx, mask |-> PfxToMask(pfx)])

FromMask ==
    /\ call = Idle
    /\ \E m \in Masks : Does([op |-> "pfx", mask |-> m, ret |-> MaskToPfx(m)])

MakeSockU ==
    /\ call = Idle
    /\ \E p \in Paths : Does([op |-> "path", path |-> p, ret |-> SockUAddr(p)])

\* buf() of an address, and fromBuf of what it gives, whose length may be off
\* by some bytes.
ReadBuf ==
    /\ call = Idle
    /\ \E kind \in SockKinds, from \in SockKinds, off \in 0 .. 1 :
           \E a \in Values(kind) :
               LET buf == [Buf(a) EXCEPT !.len = @ - off]
               IN /\ off > 0 => a.fam # "unix"
                  /\ Does([op |-> "buf", addr |-> a, off |-> off, from |-> from, buf |-> buf,
                           ret |-> FromBuf(Families(from), buf)])

CrashInBuf ==
    /\ call = Idle
    /\ \E kind \in SockKinds :
           \E a \in Values(kind) : CopiesBackwards(a) /\ Does([op |-> "crash", addr |-> a])

\* The value of an EndianPacked, and the bytes it is kept in
Pack ==
    /\ call = Idle
    /\ \E n \in Packed, e \in {"little", "big"} :
           LET kept == Htoe(Native, e, n)
           IN Does([op |-> "pack", n |-> n, e |-> e, bytes |-> Memory(Native, kept),
                    value |-> Htoe(Native, e, kept)])

\* A zstring of an array, and of a std::string of some size
MakeZ ==
    /\ call = Idle
    /\ \E z \in Strings : Does([op |-> "array", z |-> z, ret |-> FromArray(z)])

MakeZOfString ==
    /\ call = Idle
    /\ \E z \in Strings :
           \E size \in 0 .. Len(z) - 1 :
               /\ z[size + 1] = 0
               /\ Does([op |-> "string", z |-> z, size |-> size, ret |-> FromString(z, size)])

CompareZs ==
    /\ call = Idle
    /\ \E z \in Strings, t \in Others :
           /\ FromArray(z) # <<>>
           /\ Does([op |-> "compare", z |-> z, other |-> t, sized |-> Compare(z, t),
                    ended |-> CompareZ(z, Append(t, 0))])

SuffixOf ==
    /\ call = Idle
    /\ \E z \in Strings, pos \in 0 .. 3 :
           /\ FromArray(z) # <<>>
           /\ Does([op |-> "suffix", z |-> z, pos |-> pos, ret |-> Suffix(z, pos)])

\* The call returns, or a program that crashed is started again.
Return == call # Idle /\ call' = Idle

Init == call = Idle

Next ==
    \/ PrintInt \/ ParseInt \/ ToTimespec
    \/ ToText \/ FromText
    \/ MakeSubnet \/ InSubnet \/ ToMask \/ FromMask
    \/ MakeSockU \/ ReadBuf \/ CrashInBuf \/ Pack
    \/ MakeZ \/ MakeZOfString \/ CompareZs \/ SuffixOf
    \/ Return

Spec == Init /\ [][Next]_call

-----------------------------------------------------------------------------
\* The number that digits denote in a base.
Denotes(base, digits) == FoldLeft(LAMBDA n, d : n * base + d, 0, digits)

\* Whether Hi(T) + 1 has a digit more than Hi(T)
GainsDigit(base, T) == \E k \in 1 .. T.bits : base ^ k = Hi(T) + 1

\* A printed integer reads back as itself, is as short as its width allows,
\* and is written within buf_size when no width is asked for.  The buffer is
\* too small for the lowest value when its negative has a digit more than
\* the highest one.
PrintExact ==
    Did("print_int") =>
        LET neg == call.v < 0
            digits == IF neg THEN Tail(call.text) ELSE call.text
            n == Denotes(call.base, digits)
        IN /\ neg <=> Head(call.text) = Minus
           /\ call.v = IF neg THEN -n ELSE n
           /\ StrToInt(call.base, call.T, call.text) = <<call.v>>
           /\ Len(digits) >= call.width
           /\ Len(digits) > LargerOf(call.width, 1) => Head(digits) # 0
           /\ \/ call.width > 0 \/ call.room <= BufSize(call.base, call.T)
              \/ call.v = Lo(call.T) /\ GainsDigit(call.base, call.T)

\* The number of a type with the same lowest bits.
CutTo(T, n) == ((n - Lo(T)) % 2 ^ T.bits) + Lo(T)

\* A text is read as the number it denotes, or refused when it denotes none
\* or one above the type.  Only the negative of the carrier's highest number
\* bounds it below: the carrier's lowest is refused, and a number below a
\* type narrower than a pointer is cut to the type's bits, two's complement
\* (numeric/str.hpp:281 checks one side only).
ParseExact ==
    Did("parse_int") =>
        LET T == call.T
            C == Carrier(T)
            neg == T.signed /\ IsPrefix(<<Minus>>, call.text)
            body == IF neg THEN Tail(call.text) ELSE call.text
            hex == call.base = 0 /\ IsPrefix(<<0, 33>>, body)
            digits == IF hex THEN SubSeq(body, 3, Len(body)) ELSE body
            base == IF call.base > 0 THEN call.base ELSE IF hex THEN 16 ELSE 10
            valid == digits # <<>> /\ \A k \in DOMAIN digits : digits[k] < base
            n == IF neg THEN -Denotes(base, digits) ELSE Denotes(base, digits)
        IN IF ~valid \/ n > Hi(T) \/ n < -Hi(C) THEN call.ret = Throws
           ELSE call.ret = <<IF n >= Lo(T) THEN n ELSE CutTo(T, n)>>

\* The kernel gets a time with the seconds and the nanoseconds of the
\* duration it was made from; those of a negative one that is not whole are
\* a second too early.
KernelTime ==
    Did("timespec") =>
        LET ts == call.ts
            whole == call.t >= 0 \/ call.t % Second = 0
        IN /\ ts.sec * Second + ts.nsec = call.t - (IF whole THEN 0 ELSE Second)
           /\ whole => ts.nsec \in 0 .. Second - 1

\* Where the first run of n zero hextets of an address begins.
RunsOf(a, n) == {i \in 0 .. 8 - n : \A k \in i .. i + n - 1 : Hextet(a, k) = 0}

\* A printed address reads back as itself, but for the scope.  The text of
\* an In6Addr leaves out the first of the longest runs of two or more zeros,
\* and no zero that stands alone.
AddressText ==
    Did("print") =>
        LET v == call.v
            zeros == Cardinality({k \in DOMAIN call.text : call.text[k] = 0})
            longest == CHOOSE n \in 0 .. 8 : RunsOf(v, n) # {} /\ \A m \in n + 1 .. 8 : RunsOf(v, m) = {}
            gap == CHOOSE k \in 1 .. Len(call.text) : SubSeq(call.text, k, k + 1) = <<Colon, Colon>>
            words == Cardinality({k \in 1 .. gap : call.text[k] # Colon})
        IN /\ FromStr(call.kind, call.text) =
                  <<IF call.kind \in SockKinds /\ v.fam = "inet6" THEN [v EXCEPT !.scope = 0] ELSE v>>
           /\ call.kind = "in6" /\ Find(call.text, Dot) = 0 =>
                  IF longest > 1
                  THEN /\ zeros = Cardinality(RunsOf(v, 1)) - longest
                       /\ words = CHOOSE i \in RunsOf(v, longest) : \A k \in RunsOf(v, longest) : i <= k
                  ELSE zeros = Cardinality(RunsOf(v, 1))

-----------------------------------------------------------------------------
\* What texts mean, as sets of one value or none.  Numbers up to max with
\* separators between them:
Fields(s, sep, max) ==
    IF /\ Len(s) % 2 = 1
       /\ \A k \in DOMAIN s : IF k % 2 = 1 THEN s[k] \in 0 .. max ELSE s[k] = sep
    THEN {[k \in 1 .. (Len(s) + 1) \div 2 |-> s[2 * k - 1]]} ELSE {}

Means4(s) == {f \in Fields(s, Dot, 255) : Len(f) = 4}

Hextets(s) ==
    {FlattenSeq([k \in DOMAIN f |-> <<f[k] \div 256, f[k] % 256>>]) :
        f \in IF s = <<>> THEN {<<>>} ELSE Fields(s, Colon, 65535)}

\* Hextets that may end with an In4Addr
Side(s) ==
    LET n == Len(s) - 7
        ends4 == n > 1 /\ s[n] = Colon
    IN Hextets(s) \cup Means4(s)
       \cup (IF ends4 THEN {h \o f : h \in Hextets(Before(s, n)), f \in Means4(After(s, n))} ELSE {})

\* RFC 4291: eight hextets, or at most seven around one gap.
Means6(s) ==
    LET gaps == {g \in 1 .. Len(s) - 1 : s[g] = Colon /\ s[g + 1] = Colon}
        Around(g) == {lr \in Hextets(Before(s, g)) \X Side(After(s, g + 1)) :
                          Len(lr[1]) + Len(lr[2]) <= 14}
        Filled(lr) == lr[1] \o None(16 - Len(lr[1]) - Len(lr[2])) \o lr[2]
    IN {a \in Side(s) : Len(a) = 16} \cup UNION {{Filled(lr) : lr \in Around(g)} : g \in gaps}

\* What fromStr takes besides: a separator before the first hextet, and one
\* after the eighth.
Means6Loosely(s) ==
    LET t == IF IsPrefix(<<Colon>>, s) /\ ~IsPrefix(<<Colon, Colon>>, s) THEN Tail(s) ELSE s
    IN Means6(t)
       \cup {a \in IF IsSuffix(<<Colon>>, t) THEN Hextets(Before(t, Len(t))) ELSE {} : Len(a) = 16}

Means(kind, s) ==
    CASE kind \in {"in4", "subnet4", "sock4"} -> Means4(s)
      [] kind \in {"in6", "subnet6", "sock6"} -> Means6Loosely(s)
      [] kind \in {"inany", "subnetany"} -> Means4(s) \cup Means6Loosely(s)
      [] kind = "ether" ->
         {f \in Fields(s, Colon, 255) \cup {s} : Len(f) = 6 /\ \A k \in 1 .. 6 : f[k] \in 0 .. 255}

\* A text is read as the address it means by the grammar of its kind, with
\* every octet in its place, and refused when it means none.
AddressGrammar ==
    Did("parse") =>
        LET s == call.text
            n == Len(s)
            kind == call.kind
            Ends(sep, max) == n > 1 /\ s[n - 1] = sep /\ s[n] \in 0 .. max
            InBrackets == n > 3 /\ s[1] = Open /\ s[n - 2] = Close
            subnet == {[addr |-> a, pfx |-> s[n]] :
                          a \in {a \in Means(kind, SubSeq(s, 1, n - 2)) : s[n] <= 8 * Len(a)}}
            sock4 == {Sock4(a, s[n]) : a \in Means4(SubSeq(s, 1, n - 2))}
            sock6 == {Sock6(a, s[n], 0) : a \in Means6Loosely(SubSeq(s, 2, n - 3))}
            meant == IF kind \in SubnetKinds THEN IF Ends(Slash, 255) THEN subnet ELSE {}
                     ELSE IF kind \notin SockKinds THEN Means(kind, s)
                     ELSE IF ~Ends(Colon, 65535) THEN {}
                     ELSE (IF kind = "sock6" THEN {} ELSE sock4)
                          \cup (IF kind = "sock4" \/ ~InBrackets THEN {} ELSE sock6)
        IN ~(kind \in {"socku", "sockany"} /\ (kind = "socku" \/ IsPrefix(<<Unix>>, s))) =>
               meant = IF call.ret = Throws THEN {} ELSE {call.ret[1]}

\* A subnet contains the addresses of its family that agree with its own in
\* as many first bits as its prefix says, its network has those bits and no
\* others, and no subnet has more bits than its address.
SubnetBits ==
    /\ Did("contains") =>
           LET own == Bits(call.addr)
               other == Bits(call.other)
               First(bits) == SubSeq(bits, 1, call.pfx)
           IN /\ call.ret <=> Len(own) = Len(other) /\ First(own) = First(other)
              /\ Bits(call.net) = First(own) \o None(Len(own) - call.pfx)
    /\ Did("subnet") =>
           call.ret = IF call.pfx \in 0 .. 8 * Len(call.addr)
                      THEN <<[addr |-> call.addr, pfx |-> call.pfx]>> ELSE Throws

\* A netmask is taken when it is ones and then zeros, and is then the mask of
\* the prefix that is returned; every prefix comes back from its mask.
MaskInverse ==
    /\ Did("pfx") =>
           LET ones == {n \in 0 .. 32 : Bits(call.mask) = Ones(n) \o None(32 - n)}
           IN ones = IF call.ret = Throws THEN {} ELSE {call.ret[1]}
    /\ Did("mask") =>
           /\ Bits(call.mask) = Ones(call.pfx) \o None(32 - call.pfx)
           /\ MaskToPfx(call.mask) = <<call.pfx>>

\* What the kernel is given for an address is read back as that address by
\* every type that holds its family, and refused by the others and with a
\* wrong length.  It is in network order and fits its structure, except that
\* an abstract name which fills sun_path has its nul written behind it
\* (sock.hpp:306), and has no byte that was never written except the
\* terminator of a path, whatever the comment at line 206 says of it.  An
\* empty path is given to the kernel only where the copy of line 303, of a
\* range that ends before it begins, does not crash.
SockBytes ==
    /\ Did("buf") =>
           LET a == call.addr
               b == call.buf
           IN /\ call.ret = IF a.fam \in Families(call.from) /\ call.off = 0 THEN <<a>> ELSE Throws
              /\ a.fam # "unix" => b.port = <<a.port \div 256, a.port % 256>> /\ b.addr = a.addr
              /\ a.fam = "unix" =>
                     /\ b.len - 2 <= SunPath
                     /\ \A k \in 1 .. b.len - 2 : b.path[k] = Unset => k = b.len - 2 /\ a.path[1] # At
                     /\ b.path[SunPath + 1] # Unset => a.path[1] = At /\ Len(a.path) = SunPath
    /\ Did("path") =>
           IF call.ret = Throws
           THEN Len(call.path) >= SunPath \/ \E k \in 2 .. Len(call.path) : call.path[k] = Nul
           ELSE FromBuf({"unix"}, Buf(call.ret[1])) = call.ret
    /\ Did("pack") =>
           /\ call.value = call.n
           /\ call.bytes = IF call.e = "big" THEN call.n ELSE Reverse(call.n)

\* The order of two strings: that of their first difference.
IsBelow(s, t) ==
    \/ IsStrictPrefix(s, t)
    \/ \E k \in DOMAIN s \cap DOMAIN t :
           s[k] < t[k] /\ SubSeq(s, 1, k - 1) = SubSeq(t, 1, k - 1)
Order(s, t) == IF s = t THEN 0 ELSE IF IsBelow(s, t) THEN -1 ELSE 1

\* Strings that end with a nul compare as what is before it, an array is
\* taken when it has one, a std::string when it has none within, and a suffix
\* is a string that ends with the same nul.
ZOrder ==
    LET nuls == {k \in DOMAIN call.z : call.z[k] = 0}
    IN /\ Did("compare") =>
              /\ call.sized = Order(Said(call.z), call.other)
              /\ call.ended = Order(Said(call.z), Said(Append(call.other, 0)))
       /\ Did("array") => (call.ret # <<>> <=> nuls # {})
       /\ Did("string") => (call.ret # <<>> <=> \A k \in nuls : k > call.size)
       /\ Did("suffix") =>
              IF call.pos <= Len(Said(call.z))
              THEN Said(call.z) = SubSeq(call.z, 1, call.pos) \o Said(call.ret[1])
              ELSE call.ret = <<>>
================================================================================
