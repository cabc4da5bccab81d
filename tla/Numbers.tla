-------------------------------- MODULE Numbers --------------------------------
(***************************************************************************)
(* Integers as text and as bytes: numeric/str.hpp, numeric/endian.hpp and  *)
(* chronoToKTS of io_uring.cpp.                                            *)
(*                                                                         *)
(* A type is its number of bits and whether it has a sign.  A text is a    *)
(* sequence of digits 0..35; Minus and Other stand for the characters that *)
(* are no digit in any base, and the x of 0x is the digit 33.  Functions   *)
(* that may throw return <<>> when they do, and <<v>> when they return v.  *)
(***************************************************************************)
EXTENDS Integers, SequencesExt

CONSTANT PtrBits \* the width of intptr_t, in which narrower types are converted

ASSUME PtrBitsAssumption == PtrBits \in Nat \ {0}

Minus == 36
Other == 37
Throws == <<>>

Lo(T) == IF T.signed THEN -(2 ^ (T.bits - 1)) ELSE 0
Hi(T) == IF T.signed THEN 2 ^ (T.bits - 1) - 1 ELSE 2 ^ T.bits - 1
Unsigned(T) == [T EXCEPT !.signed = FALSE]

\* The type in which values of type T are converted.
Carrier(T) == [T EXCEPT !.bits = IF @ <= PtrBits THEN PtrBits ELSE @]

\* What is left of v in a variable of type T.
Narrow(T, v) == Lo(T) + ((v - Lo(T)) % (2 ^ T.bits))

LargerOf(a, b) == IF a < b THEN b ELSE a

\* How often v is divided by div until nothing is left.
Digits(div, v) ==
    CHOOSE n \in 0 .. 2 * PtrBits : v \div (div ^ n) = 0 /\ \A m \in 0 .. n - 1 : v \div (div ^ m) > 0

-----------------------------------------------------------------------------
\* multiIntSupport: how many digits are written at a time.
Multi(base) == IF base = 10 THEN 2 ELSE 1

\* How many characters uintToStr writes before it trims and pads them.
Written(base, v) ==
    Multi(base) * LargerOf(Digits(base ^ Multi(base), v), 1)

\* Fault: the zero of a last pair of digits is not cut off.
UintToStrUntrimmed(base, v, width) ==
    LET i == Written(base, v)
    IN Reverse([k \in 1 .. LargerOf(i, width) |->
                   IF k <= i THEN (v \div (base ^ (k - 1))) % base ELSE 0])

\* uintToStr: digits from the last to the first, without the zeros that come
\* of writing several at a time, filled up to the width and turned around.
UintToStr(base, v, width) ==
    LET Digit(k) == (v \div (base ^ (k - 1))) % base
        least == LargerOf(LargerOf(width, 1), Digits(base, v))
        i == IF Multi(base) > 1 /\ least < Written(base, v) THEN least ELSE Written(base, v)
    IN Reverse([k \in 1 .. LargerOf(i, width) |-> IF k <= i THEN Digit(k) ELSE 0])

\* IntToStr: not for the lowest value of the widest type, which has no
\* negative.
IntToStr(base, v, width) ==
    IF v < 0 THEN <<Minus>> \o UintToStr(base, -v, width)
    ELSE UintToStr(base, v, width)

\* IntToStr::buf_size: what a text without a width is written to.
BufSize(base, T) ==
    LET div == Multi(base)
    IN ((Digits(base, Hi(T)) + div - 1) \div div) * div + (IF T.signed THEN 1 ELSE 0)

\* The room that IntToStr takes of it.
Room(base, v) == IF v < 0 THEN 1 + Written(base, -v) ELSE Written(base, v)

-----------------------------------------------------------------------------
\* Bases go to 36.
IsPowerOf2(base) == \E k \in 1 .. 5 : base = 2 ^ k

\* Fault: a digit is added without a look at what it leads to.
AddDigitUnchecked(base, max, ret, c) ==
    IF c >= base \/ ret > max \div base THEN Throws ELSE <<(ret * base + c) % (max + 1)>>

\* The loop of strToUInt: the digits so far and one more.
AddDigit(base, max, ret, c) ==
    IF c >= base \/ ret > max \div base THEN Throws
    ELSE IF ~IsPowerOf2(base) /\ max - c < ret * base THEN Throws
    ELSE <<ret * base + c>>

\* strToUInt
StrToUInt(base, max, s) ==
    IF s = <<>> THEN Throws
    ELSE FoldLeft(LAMBDA ret, c :
                      IF ret = Throws THEN Throws ELSE AddDigit(base, max, ret[1], c),
                  <<0>>, s)

\* strToUInt0: with base 0 the text says which base it is in.
StrToUInt0(base, max, s) ==
    IF base > 0 THEN StrToUInt(base, max, s)
    ELSE IF IsPrefix(<<0, 33>>, s) THEN StrToUInt(16, max, SubSeq(s, 3, Len(s)))
    ELSE StrToUInt(10, max, s)

\* strToInt: a sign and a number that the type holds.
Signed(C, neg, ret) ==
    IF ret = Throws \/ ret[1] > Hi(C) THEN Throws ELSE <<IF neg THEN -ret[1] ELSE ret[1]>>

StrToCarrier(base, C, s) ==
    LET neg == C.signed /\ IsPrefix(<<Minus>>, s)
    IN Signed(C, neg, StrToUInt0(base, Hi(Unsigned(C)), IF neg THEN Tail(s) ELSE s))

\* StrToInt: what the carrier holds must not be above the type, and is then
\* cut to it.
Cut(T, ret) == IF ret = Throws \/ ret[1] > Hi(T) THEN Throws ELSE <<Narrow(T, ret[1])>>
StrToInt(base, T, s) == Cut(T, StrToCarrier(base, Carrier(T), s))

-----------------------------------------------------------------------------
\* An integer is its bytes from the highest to the lowest.
Bswap(n) == Reverse(n)

\* htoe and etoh, on a machine with byte order native.
Htoe(native, e, n) == IF native = e THEN n ELSE Bswap(n)

\* The bytes of an integer as they lie in memory, and the integer of bytes.
Memory(native, n) == IF native = "big" THEN n ELSE Reverse(n)

\* Fault: the seconds are rounded to the next.
ChronoToKTSRounded(t, n) == [sec |-> (t + n \div 2) \div n, nsec |-> t % n]

\* chronoToKTS: t nanoseconds where a second has n of them; the seconds are
\* rounded down and the remainder towards zero.
ChronoToKTS(t, n) ==
    [sec |-> t \div n, nsec |-> IF t >= 0 THEN t % n ELSE -((-t) % n)]

===============================================================================
