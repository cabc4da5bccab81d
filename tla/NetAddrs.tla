------------------------------- MODULE NetAddrs -------------------------------
(***************************************************************************)
(* Addresses and their texts: net/addr/ip.hpp and net/addr/ether.hpp.      *)
(*                                                                         *)
(* An address is its bytes in memory: four for In4Addr, sixteen for        *)
(* In6Addr, and InAnyAddr is one of the two.  A text is a sequence of      *)
(* tokens: a number n \in Nat stands for its digits in the base of its     *)
(* place, Junk for a word that is no number, the others for their          *)
(* character.  Words are single tokens between separators; two of them in  *)
(* a row are again no number.                                              *)
(***************************************************************************)
EXTENDS Numbers

CONSTANT Native \* the byte order of the machine

ASSUME NativeAssumption == Native \in {"little", "big"}

Colon == -1
Dot == -2
Slash == -3
Open == -4
Close == -5
Unix == -6
Junk == -7

\* Where c is first and last, and what is before and after such a place.
Find(s, c) == SelectInSeq(s, LAMBDA x : x = c)
RFind(s, c) == SelectLastInSeq(s, LAMBDA x : x = c)
Before(s, loc) == SubSeq(s, 1, loc - 1)
After(s, loc) == SubSeq(s, loc + 1, Len(s))

\* StrToInt of a word, in a type that goes to max.
Word(s, max) == IF Len(s) = 1 /\ s[1] \in 0 .. max THEN s ELSE Throws

Put(a, at, b) == [k \in DOMAIN a |-> IF k - at \in DOMAIN b THEN b[k - at] ELSE a[k]]

\* A text up to the first separator and behind it, when there is one.
UpTo(s, loc) == IF loc = 0 THEN s ELSE Before(s, loc)
Beyond(s, loc) == IF loc = 0 THEN <<>> ELSE After(s, loc)

\* All of what was read, unless one throws.
AllOf(rets) == IF Throws \in {rets[k] : k \in DOMAIN rets} THEN Throws ELSE <<FlattenSeq(rets)>>

\* The loops of FromStr<In4Addr> and of FromStr<EtherAddr>: n octets of which
\* all but the last end with a separator; what is left when there is none is
\* no octet.
Octets(s, sep, n) ==
    LET rest[i \in 1 .. n] ==
            IF i = 1 THEN s ELSE Beyond(rest[i - 1], Find(rest[i - 1], sep))
    IN AllOf([i \in 1 .. n |->
                 Word(UpTo(rest[i], IF i < n THEN Find(rest[i], sep) ELSE 0), 255)])

-----------------------------------------------------------------------------
\* hton and ntoh of an integer that is kept in memory.
Stored(n) == Memory(Native, Htoe(Native, "big", n))

\* FromStr<In4Addr>: of the octets in their order
In4Of(octs) == IF octs = Throws THEN Throws ELSE <<Stored(octs[1])>>
In4FromStr(s) == In4Of(Octets(s, Dot, 4))

\* Fault: the octets are taken off the low end of the number.
In4ToStrNumber(a) ==
    LET n == Htoe(Native, "big", Memory(Native, a)) IN <<n[4], Dot, n[3], Dot, n[2], Dot, n[1]>>

\* ToStr<In4Addr>: the octets are taken off the low end of the swapped number.
In4ToStr(a) ==
    LET n == Bswap(Htoe(Native, "big", Memory(Native, a)))
    IN <<n[4], Dot, n[3], Dot, n[2], Dot, n[1]>>

-----------------------------------------------------------------------------
Zeros == [k \in 1 .. 16 |-> 0]

\* hextet(i, hton(v)) and ntoh(hextet(i))
PutHextet(a, i, v) == Put(a, 2 * i, Stored(<<v \div 256, v % 256>>))
NumberOf(n) == 256 * n[1] + n[2]
Hextet(a, i) ==
    NumberOf(Htoe(Native, "big", Memory(Native, <<a[2 * i + 1], a[2 * i + 2]>>)))

\* Reading an In6Addr: what is left of the text, the address, the number of
\* hextets read from the front and the place for the next from the back.
Reading(s) == [phase |-> "front", s |-> s, a |-> Zeros, i |-> 0, j |-> 7]
Fails(st) == [st EXCEPT !.phase = "throws"]

\* An In4Addr for the last two hextets, after which s is left to read.
PutIn4(st, v4, phase, s) ==
    IF v4 = Throws THEN Fails(st)
    ELSE [st EXCEPT !.phase = phase, !.a = Put(@, 12, v4[1]), !.s = s, !.j = 5]

\* A hextet from the front, which may be empty before a gap.
FrontHextet(st, word, rest) ==
    LET i == IF word = <<>> THEN st.i ELSE st.i + 1
        gap == i < 8 /\ IsPrefix(<<Colon>>, rest)
    IN IF (word # <<>> /\ Word(word, 65535) = Throws) \/ (~gap /\ st.s = <<>>)
       THEN Fails(st)
       ELSE [st EXCEPT !.phase = IF gap THEN "back" ELSE @, !.s = IF gap THEN Tail(rest) ELSE rest,
                       !.i = i, !.a = IF word = <<>> THEN @ ELSE PutHextet(@, st.i, word[1])]

\* The first loop of FromStr<In6Addr>: hextets up to the gap or the end.
FrontWord(st, loc) ==
    IF st.i = 6 /\ loc = 0 THEN PutIn4(st, In4FromStr(st.s), "done", <<>>)
    ELSE FrontHextet(st, UpTo(st.s, loc), Beyond(st.s, loc))

FrontStep(st) ==
    IF st.phase # "front" \/ st.i = 8 THEN st ELSE FrontWord(st, Find(st.s, Colon))

\* The checks after it: nothing more to separate, and an In4Addr at the end.
GapIn4(st, loc) == PutIn4(st, In4FromStr(After(st.s, loc)), "back", Before(st.s, loc))

GapStep(st) ==
    IF st.phase \in {"done", "throws"} THEN st
    ELSE IF IsPrefix(<<Colon>>, st.s) THEN Fails(st)
    ELSE IF st.i < 6 /\ Find(st.s, Dot) > 0 THEN GapIn4(st, RFind(st.s, Colon))
    ELSE [st EXCEPT !.phase = "back"]

\* A hextet from the back.
BackHextet(st, loc) ==
    LET word == After(st.s, loc)
    IN IF Word(word, 65535) = Throws THEN Fails(st)
       ELSE [st EXCEPT !.a = PutHextet(@, st.j, word[1]), !.s = Before(@, loc), !.j = @ - 1]

\* Fault: the hextets after the gap may reach the ones before it.
BackStepOver(st) ==
    IF st.phase # "back" \/ st.s = <<>> \/ st.j < st.i THEN st
    ELSE BackHextet(st, RFind(st.s, Colon))

\* The second loop: hextets from the end back to the gap.
BackStep(st) ==
    IF st.phase # "back" \/ st.s = <<>> \/ st.j <= st.i THEN st
    ELSE BackHextet(st, RFind(st.s, Colon))

\* FromStr<In6Addr>: all must have been read.  Steps that find nothing to do
\* have left their loop.
Rounds(n) == [k \in 1 .. n |-> k]
Read(st) ==
    IF st.phase = "throws" \/ (st.phase = "back" /\ st.s # <<>>) THEN Throws ELSE <<st.a>>
In6FromStr(s) ==
    Read(FoldLeft(LAMBDA st, k : BackStep(st),
                  GapStep(FoldLeft(LAMBDA st, k : FrontStep(st), Reading(s), Rounds(10))),
                  Rounds(8)))

\* The scan of ToStr<In6Addr> for the hextets that it leaves out: a run of
\* zeros that ends and is longer than those before it is remembered.
ZeroRun(a) ==
    LET Scan(r, i) ==
            IF i < 8 /\ Hextet(a, i) = 0
            THEN IF r.start + r.size = i THEN [r EXCEPT !.size = @ + 1]
                 ELSE [r EXCEPT !.start = i, !.size = 1]
            ELSE IF r.start + r.size = i /\ r.size > r.skip.size
            THEN [r EXCEPT !.skip = [start |-> r.start, size |-> r.size]]
            ELSE r
        none == [start |-> 0, size |-> 0]
    IN FoldLeft(Scan, [start |-> 0, size |-> 0, skip |-> none], [k \in 1 .. 9 |-> k - 1]).skip

\* What ToStr<In6Addr> writes for a hextet when it leaves out a run.
Piece(skip, i, v) ==
    IF skip.size > 1 /\ i \in skip.start .. skip.start + skip.size - 1
    THEN IF i # skip.start THEN <<>> ELSE IF i = 0 THEN <<Colon, Colon>> ELSE <<Colon>>
    ELSE IF i < 7 THEN <<v, Colon>> ELSE <<v>>

\* ToStr<In6Addr>: a run of more than one zero is left out, and a mapped
\* In4Addr is printed as one.
Mapped(a) == (\A i \in 0 .. 4 : Hextet(a, i) = 0) /\ Hextet(a, 5) = 65535
Pieces6(a, skip) == FlattenSeq([k \in 1 .. 8 |-> Piece(skip, k - 1, Hextet(a, k - 1))])
In6ToStr(a) ==
    IF Mapped(a) THEN <<Colon, Colon, 65535, Colon>> \o In4ToStr(SubSeq(a, 13, 16))
    ELSE Pieces6(a, ZeroRun(a))

-----------------------------------------------------------------------------
\* FromStr<InAnyAddr>, ToStr<InAnyAddr>
InAnyFromStr(s) == IF Find(s, Colon) = 0 THEN In4FromStr(s) ELSE In6FromStr(s)
InAnyToStr(a) == IF Len(a) = 4 THEN In4ToStr(a) ELSE In6ToStr(a)

\* ToStr<EtherAddr>, with two digits for each octet
EtherToStr(a) == FlattenSeq([k \in 1 .. 6 |-> IF k < 6 THEN <<a[k], Colon>> ELSE <<a[k]>>])

\* FromStr<EtherAddr>: twelve digits, or octets with separators.
EtherFromStr(s) ==
    LET Chars(c) == IF c \in Nat THEN 2 ELSE 1
        size == FoldLeft(LAMBDA n, c : n + Chars(c), 0, s)
    IN IF size = 12 /\ Find(s, Colon) = 0
       THEN IF \A k \in DOMAIN s : s[k] \in 0 .. 255 THEN <<s>> ELSE Throws
       ELSE Octets(s, Colon, 6)

===============================================================================
