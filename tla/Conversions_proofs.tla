--------------------------- MODULE Conversions_proofs ---------------------------
(***************************************************************************)
(* Proofs about the conversions: times, masks and subnets, what the kernel *)
(* is given for an address, and strings that end with a nul, for any       *)
(* times, addresses, paths and strings.                                    *)
(***************************************************************************)
EXTENDS Conversions, SequenceTheorems, WellFoundedInduction, TLAPS

\* Which call was made when the state tells of one.
LEMMA CallOf ==
    ASSUME [Next]_call
    PROVE  \/ UNCHANGED call \/ call'.op \in {"none", "print_int", "parse_int", "print", "parse", "crash"}
           \/ ToTimespec /\ call'.op = "timespec"
           \/ MakeSubnet /\ call'.op = "subnet"
           \/ InSubnet /\ call'.op = "contains"
           \/ ToMask /\ call'.op = "mask"
           \/ FromMask /\ call'.op = "pfx"
           \/ MakeSockU /\ call'.op = "path"
           \/ ReadBuf /\ call'.op = "buf"
           \/ Pack /\ call'.op = "pack"
           \/ MakeZ /\ call'.op = "array"
           \/ MakeZOfString /\ call'.op = "string"
           \/ CompareZs /\ call'.op = "compare"
           \/ SuffixOf /\ call'.op = "suffix"
<1> USE DEF Does
<1>1. CASE PrintInt
  BY <1>1 DEF PrintInt
<1>2. CASE ParseInt
  BY <1>2 DEF ParseInt
<1>3. CASE ToTimespec
  BY <1>3 DEF ToTimespec
<1>4. CASE ToText
  BY <1>4 DEF ToText
<1>5. CASE FromText
  <2>1. \E a, b, c :
          call' = [op |-> "parse", kind |-> a, text |-> b, ret |-> c]
    BY <1>5, Zenon DEF FromText
  <2> QED BY <1>5, <2>1
<1>6. CASE MakeSubnet
  <2>1. \E a, b, c :
          call' = [op |-> "subnet", addr |-> a, pfx |-> b, ret |-> c]
    BY <1>6, Zenon DEF MakeSubnet
  <2> QED BY <1>6, <2>1
<1>7. CASE InSubnet
  <2>1. \E a, b, c, d, e :
          call' = [op |-> "contains", addr |-> a, other |-> b, pfx |-> c, ret |-> d, net |-> e]
    BY <1>7, Zenon DEF InSubnet
  <2> QED BY <1>7, <2>1
<1>8. CASE ToMask
  BY <1>8 DEF ToMask
<1>9. CASE FromMask
  BY <1>9 DEF FromMask
<1>10. CASE MakeSockU
  BY <1>10 DEF MakeSockU
<1>11. CASE ReadBuf
  <2>1. \E a, b, c, d, e :
          call' = [op |-> "buf", addr |-> a, off |-> b, from |-> c, buf |-> d, ret |-> e]
    BY <1>11, Zenon DEF ReadBuf
  <2> QED BY <1>11, <2>1
<1>12. CASE Pack
  <2>1. \E a, b, c, d :
          call' = [op |-> "pack", n |-> a, e |-> b, bytes |-> c, value |-> d]
    BY <1>12, Zenon DEF Pack
  <2> QED BY <1>12, <2>1
<1>13. CASE MakeZ
  BY <1>13 DEF MakeZ
<1>14. CASE MakeZOfString
  <2>1. \E a, b, c :
          call' = [op |-> "string", z |-> a, size |-> b, ret |-> c]
    BY <1>14, Zenon DEF MakeZOfString
  <2> QED BY <1>14, <2>1
<1>15. CASE CompareZs
  BY <1>15 DEF CompareZs
<1>16. CASE SuffixOf
  BY <1>16 DEF SuffixOf
<1>17. CASE Return
  BY <1>17 DEF Return, Idle
<1>18. CASE CrashInBuf
  BY <1>18 DEF CrashInBuf
<1> QED
  BY <1>1, <1>2, <1>3, <1>4, <1>5, <1>6, <1>7, <1>8, <1>9, <1>10, <1>11, <1>12,
     <1>13, <1>14, <1>15, <1>16, <1>17, <1>18 DEF Next

-----------------------------------------------------------------------------
(* Times *)

LEMMA Divided ==
    ASSUME NEW t \in Int, NEW n \in Nat \ {0}
    PROVE  t \div n \in Int /\ t % n \in 0 .. n - 1 /\ (t \div n) * n + (t % n) = t
OBVIOUS

LEMMA TimeConverted ==
    ASSUME NEW t \in Int, NEW n \in Nat \ {0}
    PROVE  LET ts == ChronoToKTS(t, n)
               whole == t >= 0 \/ t % n = 0
           IN /\ ts.sec * n + ts.nsec = t - (IF whole THEN 0 ELSE n)
              /\ whole => ts.nsec \in 0 .. n - 1
<1> DEFINE q == t \div n
           r == t % n
           q1 == (-t) \div n
           r1 == (-t) % n
<1>1. /\ q \in Int /\ r \in 0 .. n - 1 /\ q * n + r = t
      /\ q1 \in Int /\ r1 \in 0 .. n - 1 /\ q1 * n + r1 = -t
  BY Divided
<1>2. /\ ChronoToKTS(t, n).sec = q
      /\ ChronoToKTS(t, n).nsec = IF t >= 0 THEN r ELSE -r1
  BY DEF ChronoToKTS
<1> HIDE DEF q, r, q1, r1
<1>3. CASE t >= 0
  BY <1>1, <1>2, <1>3
<1>4. CASE t < 0
  <2>1. (q + q1) * n = -(r + r1)
    BY <1>1
  <2>2. PICK s \in Int : s = q + q1
    BY <1>1
  <2>3. s * n = -(r + r1) /\ r + r1 \in 0 .. 2 * n - 2
    BY <1>1, <2>1, <2>2
  <2>4. s \in {0, -1}
    <3>1. CASE s >= 1
      <4>1. s * n >= n
        BY <3>1
      <4> QED BY <2>3, <4>1
    <3>2. CASE s <= -2
      <4>1. s * n <= -2 * n
        BY <3>2
      <4> QED BY <2>3, <4>1
    <3> QED BY <3>1, <3>2
  <2>5. CASE r = 0
    <3>1. r1 = 0
      BY <1>1, <2>3, <2>4, <2>5
    <3> QED BY <1>1, <1>2, <1>4, <2>5, <3>1 DEF r
  <2>6. CASE r # 0
    <3>1. r + r1 = n
      BY <1>1, <2>3, <2>4, <2>6
    <3>2. q * n + (-r1) = t - n
      BY <1>1, <3>1
    <3> QED BY <1>1, <1>2, <1>4, <2>6, <3>2 DEF r
  <2> QED BY <2>5, <2>6
<1> QED BY <1>3, <1>4

\* The seconds and the nanoseconds that the kernel gets are those of the
\* duration, and of a negative one that is not whole they are a second too
\* early, whatever the duration and the number of nanoseconds in a second.
THEOREM TimesExact == Spec => []KernelTime
<1>1. Init => KernelTime
  BY DEF Init, KernelTime, Did, Idle
<1>2. KernelTime /\ [Next]_call => KernelTime'
  <2> SUFFICES ASSUME KernelTime, [Next]_call, Did("timespec")' PROVE KernelTime'
    BY DEF KernelTime
  <2>1. CASE UNCHANGED call
    BY <2>1 DEF KernelTime, Did
  <2>2. CASE ToTimespec
    <3>1. PICK t \in Durations :
            call' = [op |-> "timespec", t |-> t, ts |-> ChronoToKTS(t, Second)]
      BY <2>2 DEF ToTimespec, Does
    <3>2. t \in Int /\ Second \in Nat \ {0} /\ call'.t = t /\ call'.ts = ChronoToKTS(t, Second)
      BY <3>1, DurationsAssumption
    <3> QED BY <3>2, TimeConverted DEF KernelTime
  <2> QED BY <2>1, <2>2, CallOf DEF Did
<1> QED BY <1>1, <1>2, PTL DEF Spec

-----------------------------------------------------------------------------
(* Bytes in memory *)

LEMMA Reversed ==
    ASSUME NEW S, NEW n \in Seq(S)
    PROVE  /\ Reverse(n) \in Seq(S) /\ Len(Reverse(n)) = Len(n)
           /\ \A i \in 1 .. Len(n) : Reverse(n)[i] = n[Len(n) - i + 1]
           /\ Reverse(Reverse(n)) = n
<1>1. PICK m \in Nat : m = Len(n)
  BY LenProperties
<1>2. \A i \in 1 .. m : n[i] \in S
  BY <1>1, ElementOfSeq
<1>3. Reverse(n) = [i \in 1 .. m |-> n[m - i + 1]]
  BY <1>1 DEF Reverse
<1>4. \A i \in 1 .. m : m - i + 1 \in 1 .. m
  OBVIOUS
<1>5. [i \in 1 .. m |-> n[m - i + 1]] \in [1 .. m -> S]
  BY <1>2, <1>4
<1>6. Reverse(n) \in Seq(S) /\ Len(Reverse(n)) = m
  BY <1>3, <1>5
<1>7. Reverse(Reverse(n)) = [i \in 1 .. m |-> Reverse(n)[m - i + 1]]
  BY <1>6 DEF Reverse
<1>8. \A i \in 1 .. m : Reverse(n)[m - i + 1] = n[i]
  <2>1. \A i \in 1 .. m : m - i + 1 \in 1 .. m /\ m - (m - i + 1) + 1 = i
    OBVIOUS
  <2> QED BY <1>3, <2>1
<1>9. [i \in 1 .. m |-> Reverse(n)[m - i + 1]] = [i \in 1 .. m |-> n[i]]
  BY <1>8
<1>10. n = [i \in 1 .. m |-> n[i]]
  BY <1>1
<1> QED BY <1>1, <1>3, <1>6, <1>7, <1>9, <1>10

LEMMA StoredIs ==
    ASSUME NEW S, NEW n \in Seq(S), NEW e \in {"little", "big"}
    PROVE  /\ Htoe(Native, e, n) \in Seq(S) /\ Memory(Native, n) \in Seq(S)
           /\ Len(Htoe(Native, e, n)) = Len(n) /\ Len(Memory(Native, n)) = Len(n)
           /\ Htoe(Native, e, Htoe(Native, e, n)) = n
           /\ Memory(Native, Memory(Native, n)) = n
           /\ Memory(Native, Htoe(Native, e, n)) = IF e = "big" THEN n ELSE Reverse(n)
           /\ Htoe(Native, "big", Memory(Native, n)) = n
<1> DEFINE r == Reverse(n)
<1>1. r \in Seq(S) /\ Len(r) = Len(n) /\ Reverse(r) = n
  BY Reversed
<1>2. /\ Htoe(Native, e, n) = IF Native = e THEN n ELSE r
      /\ Memory(Native, n) = IF Native = "big" THEN n ELSE r
      /\ Htoe(Native, e, r) = IF Native = e THEN r ELSE n
      /\ Htoe(Native, "big", n) = IF Native = "big" THEN n ELSE r
      /\ Htoe(Native, "big", r) = IF Native = "big" THEN r ELSE n
      /\ Memory(Native, r) = IF Native = "big" THEN r ELSE n
  BY <1>1 DEF Htoe, Memory, Bswap
<1> HIDE DEF r
<1>3. /\ Htoe(Native, e, n) \in Seq(S) /\ Memory(Native, n) \in Seq(S)
      /\ Len(Htoe(Native, e, n)) = Len(n) /\ Len(Memory(Native, n)) = Len(n)
  BY <1>1, <1>2
<1>4. Htoe(Native, e, Htoe(Native, e, n)) = n
  BY <1>2
<1>5. Memory(Native, Memory(Native, n)) = n
  BY <1>2
<1>6. Memory(Native, Htoe(Native, e, n)) = IF e = "big" THEN n ELSE r
  BY <1>2, NativeAssumption
<1>7. Htoe(Native, "big", Memory(Native, n)) = n
  BY <1>2
<1> QED BY <1>3, <1>4, <1>5, <1>6, <1>7 DEF r

LEMMA StoredBig ==
    ASSUME NEW n \in Seq(Nat)
    PROVE  Stored(n) = n /\ Htoe(Native, "big", Memory(Native, n)) = n
<1>1. "big" \in {"little", "big"}
  OBVIOUS
<1> QED BY <1>1, StoredIs DEF Stored

LEMMA TwoBytes ==
    ASSUME NEW hi \in Nat, NEW lo \in Nat
    PROVE  /\ <<hi, lo>> \in Seq(Nat) /\ Len(<<hi, lo>>) = 2
           /\ <<hi, lo>>[1] = hi /\ <<hi, lo>>[2] = lo
  OBVIOUS

LEMMA PortStored ==
    ASSUME NEW port \in Nat
    PROVE  PortBytes(port) = <<port \div 256, port % 256>> /\ PortOf(PortBytes(port)) = port
<1>1. PICK hi \in Nat, lo \in Nat : hi = port \div 256 /\ lo = port % 256 /\ 256 * hi + lo = port
  <2>1. /\ port \div 256 \in Nat /\ port % 256 \in Nat
        /\ 256 * (port \div 256) + (port % 256) = port
    OBVIOUS
  <2> QED BY <2>1
<1>2. PICK n \in Seq(Nat) : n = <<hi, lo>> /\ n[1] = hi /\ n[2] = lo
  <2>1. hi \in Nat /\ lo \in Nat
    BY <1>1, Zenon
  <2>2. <<hi, lo>> \in Seq(Nat) /\ <<hi, lo>>[1] = hi /\ <<hi, lo>>[2] = lo
    BY <2>1, TwoBytes, Zenon
  <2> QED BY <2>2, Zenon
<1>3. PortBytes(port) = n
  <2>1. PortBytes(port) = Stored(n)
    BY <1>1, <1>2 DEF PortBytes
  <2> QED BY <2>1, StoredBig
<1>4. PortOf(n) = NumberOf(n)
  BY StoredBig DEF PortOf
<1>5. NumberOf(n) = 256 * hi + lo
  BY <1>2 DEF NumberOf
<1>6. PortBytes(port) = <<port \div 256, port % 256>>
  BY <1>1, <1>2, <1>3
<1>7. PortOf(PortBytes(port)) = port
  BY <1>1, <1>3, <1>4, <1>5
<1> QED BY <1>6, <1>7

-----------------------------------------------------------------------------
(* Socket addresses *)

\* What a path is in a SockUAddr.
NameFits(q) ==
    q # <<>> => q[1] # Nul /\ Len(q) < SunPath + (IF q[1] = At THEN 1 ELSE 0)

LEMMA FoundIs ==
    ASSUME NEW q \in Names, Find(q, Nul) > 0
    PROVE  \E k \in 1 .. Len(q) : q[k] = Nul
<1> DEFINE I == {k \in 1 .. Len(q) : q[k] = Nul}
<1>1. Find(q, Nul) = IF I # {} THEN Min(I) ELSE 0
  BY DEF Find, SelectInSeq
<1> QED BY <1>1

\* What the constructor makes of a path, and when it throws.
LEMMA NameMade ==
    ASSUME NEW q \in Names
    PROVE  \/ /\ SockUAddr(q) = Throws
              /\ Len(q) >= SunPath \/ \E k \in 2 .. Len(q) : q[k] = Nul
           \/ \E p \in Names : SockUAddr(q) = <<SockU(p)>> /\ NameFits(p) /\ Len(p) = Len(q)
<1>0. Len(q) \in Nat /\ SunPath \in Nat
  BY LenProperties, SunPathAssumption DEF Names
<1>1. CASE q = <<>>
  BY <1>1 DEF SockUAddr, NameFits
<1>2. CASE q # <<>>
  <2> DEFINE abstract == q[1] \in {At, Nul}
             p == [q EXCEPT ![1] = IF abstract THEN At ELSE @]
             room == SunPath + (IF abstract THEN 1 ELSE 0)
  <2>1. SockUAddr(q) = IF Len(q) >= room THEN Throws
                       ELSE IF ~abstract /\ Find(q, Nul) > 0 THEN Throws ELSE <<SockU(p)>>
    BY <1>2 DEF SockUAddr
  <2>2. Len(q) > 0
    BY <1>0, <1>2, EmptySeq DEF Names
  <2>3. CASE Len(q) >= room
    BY <1>0, <2>1, <2>3
  <2>4. CASE ~(Len(q) >= room) /\ ~abstract /\ Find(q, Nul) > 0
    <3>1. PICK k \in 1 .. Len(q) : q[k] = Nul
      BY <2>4, FoundIs
    <3>2. k # 1
      BY <2>4, <3>1
    <3>3. k \in 2 .. Len(q)
      BY <1>0, <3>1, <3>2
    <3> QED BY <2>1, <2>4, <3>1, <3>3
  <2>5. CASE ~(Len(q) >= room) /\ ~(~abstract /\ Find(q, Nul) > 0)
    <3>1. At \in Int \ {Unset} /\ At # Nul
      BY DEF At, Unset, Nul
    <3>2. p \in Names /\ Len(p) = Len(q)
      <4>1. \A v \in Int \ {Unset} :
                [q EXCEPT ![1] = v] \in Names /\ Len([q EXCEPT ![1] = v]) = Len(q)
        BY <2>2, ExceptSeq DEF Names
      <4>2. q[1] \in Int \ {Unset}
        BY <1>0, <2>2, ElementOfSeq DEF Names
      <4> QED BY <3>1, <4>1, <4>2
    <3>3. p[1] = IF abstract THEN At ELSE q[1]
      BY <1>0, <2>2 DEF Names
    <3>4. NameFits(p)
      BY <1>0, <2>5, <3>1, <3>2, <3>3 DEF NameFits
    <3> QED BY <2>1, <2>5, <3>2, <3>4
  <2> QED BY <2>3, <2>4, <2>5
<1> QED BY <1>1, <1>2

\* What the kernel is given for a name is read back as that name, is within
\* sun_path and, but for the terminator, is written.
LEMMA NameRead ==
    ASSUME NEW q \in Names, NameFits(q)
    PROVE  LET b == SockUBuf(SockU(q))
           IN /\ SockUFromBuf(b) = <<SockU(q)>> /\ b.fam = "unix" /\ b.len \in Nat
              /\ b.len - 2 <= SunPath
              /\ \A k \in 1 .. b.len - 2 : b.path[k] = Unset => k = b.len - 2 /\ q[1] # At
              /\ b.path[SunPath + 1] # Unset => q[1] = At /\ Len(q) = SunPath
<1> DEFINE n == Len(q)
           abstract == n > 0 /\ q[1] = At
           named == n > 0 /\ q[1] # At
           size == n + (IF named THEN 1 ELSE 0)
           b == SockUBuf(SockU(q))
           f == Fill(q)
           got == SubSeq(f, 1, size)
<1>0. /\ n \in Nat /\ SunPath \in Nat /\ SunPath > 0
      /\ At # Nul /\ At # Unset /\ Nul # Unset /\ At \in Int /\ Nul \in Int /\ Unset \in Int
  BY LenProperties, SunPathAssumption DEF Names, At, Nul, Unset
<1>1. b = [fam |-> "unix", len |-> 2 + n + (IF named THEN 1 ELSE 0), path |-> f]
  BY DEF SockUBuf, SockU
<1>2. b.fam = "unix" /\ b.len = 2 + size /\ b.path = f
  BY <1>0, <1>1
<1>b. b = SockUBuf(SockU(q))
  OBVIOUS
<1> HIDE DEF b
<1>3. size \in Nat /\ size <= SunPath /\ b.len \in Nat
  <2>1. CASE n = 0
    BY <1>0, <1>2, <2>1
  <2>2. CASE n > 0
    <3>1. q # <<>> /\ n < SunPath + (IF q[1] = At THEN 1 ELSE 0)
      BY <1>0, <2>2, EmptySeq DEF NameFits, Names
    <3> QED BY <1>0, <1>2, <2>2, <3>1
  <2> QED BY <1>0, <2>1, <2>2
<1>4. \A k \in 1 .. n : q[k] \in Int \ {Unset}
  BY ElementOfSeq DEF Names
<1>5. ASSUME n > 0 PROVE q[1] # Nul
  <2>1. q # <<>>
    BY <1>5, EmptySeq DEF Names
  <2> QED BY <2>1 DEF NameFits
<1>6. ASSUME NEW k \in 1 .. SunPath + 1
      PROVE  f[k] = IF k = 1 THEN IF abstract \/ n = 0 THEN Nul ELSE q[1]
                    ELSE IF k <= n THEN q[k]
                    ELSE IF abstract /\ k = n + 1 THEN Nul ELSE Unset
  BY <1>6 DEF Fill
<1>7. f \in Seq(Int) /\ Len(f) = SunPath + 1
  <2>1. f = [k \in 1 .. SunPath + 1 |-> f[k]]
    BY DEF Fill
  <2>2. \A k \in 1 .. SunPath + 1 : f[k] \in Int
    BY <1>0, <1>4, <1>6
  <2>3. f \in [1 .. SunPath + 1 -> Int]
    BY <2>1, <2>2
  <2> QED BY <1>0, <2>3
<1> HIDE DEF f
<1>8. /\ got \in Seq(Int) /\ Len(got) = size /\ \A i \in 1 .. size : got[i] = f[i]
  <2>1. \A i \in 1 .. size : f[i] \in Int
    BY <1>0, <1>3, <1>7, ElementOfSeq
  <2>2. 1 \in 1 .. Len(f) + 1 /\ size \in 0 .. Len(f)
    BY <1>0, <1>3, <1>7
  <2>3. /\ got \in Seq(Int) /\ Len(got) = (IF 1 <= size THEN size - 1 + 1 ELSE 0)
        /\ \A i \in 1 .. size - 1 + 1 : got[i] = f[1 + i - 1]
    BY <1>3, <2>1, SubSeqProperties
  <2>4. /\ (IF 1 <= size THEN size - 1 + 1 ELSE 0) = size /\ size - 1 + 1 = size
        /\ \A i \in 1 .. size : 1 + i - 1 = i
    BY <1>3
  <2> QED BY <2>3, <2>4
<1>9. SockUFromBuf(b) = <<SockUAddrUnsafe(got)>>
  <2>1. ~(b.len < 2) /\ b.len - 2 = size
    BY <1>2, <1>3
  <2> QED BY <1>2, <2>1 DEF SockUFromBuf
<1>10. SockUAddrUnsafe(got) = SockU(q)
  <2>1. CASE n = 0
    <3>1. size = 0 /\ q = <<>>
      BY <1>0, <2>1, EmptySeq DEF Names
    <3>2. got = <<>>
      BY <1>8, <3>1, EmptySeq
    <3> QED BY <3>1, <3>2 DEF SockUAddrUnsafe
  <2>2. CASE n > 0
    <3>1. got # <<>> /\ size >= 1 /\ got[1] = f[1] /\ 1 \in 1 .. SunPath
      <4>1. size >= 1
        BY <1>0, <2>2
      <4>2. got # <<>>
        <5>1. Len(got) # 0
          BY <1>8, <4>1
        <5>2. Len(<<>>) = 0
          OBVIOUS
        <5> QED BY <5>1, <5>2, Zenon
      <4>3. 1 \in 1 .. size /\ 1 \in 1 .. SunPath
        BY <1>0, <1>3, <4>1
      <4> QED BY <1>8, <4>1, <4>2, <4>3
    <3>2. f[1] = IF abstract THEN Nul ELSE q[1]
      <4>1. 1 \in 1 .. SunPath + 1
        BY <1>0
      <4> QED BY <1>6, <2>2, <4>1
    <3>3. (got[1] = Nul) <=> abstract
      BY <1>5, <2>2, <3>1, <3>2
    <3> DEFINE back == [got EXCEPT ![1] = IF abstract THEN At ELSE @]
               len == Len(got) - (IF abstract THEN 0 ELSE 1)
    <3>4. SockUAddrUnsafe(got) = SockU(SubSeq(back, 1, len))
      BY <3>1, <3>3 DEF SockUAddrUnsafe
    <3>5. len = n
      BY <1>0, <1>8, <2>2
    <3>6. back \in Seq(Int) /\ Len(back) = size /\ \A i \in 1 .. n : back[i] = q[i]
      <4> DEFINE v == IF abstract THEN At ELSE got[1]
      <4>1. v \in Int /\ 1 \in 1 .. Len(got)
        BY <1>0, <1>8, <3>1, ElementOfSeq
      <4>2. back = [got EXCEPT ![1] = v]
        OBVIOUS
      <4> HIDE DEF v, back
      <4>3. /\ back \in Seq(Int) /\ Len(back) = size
            /\ \A i \in 1 .. size : back[i] = IF i = 1 THEN v ELSE got[i]
        <5>1. got \in Seq(Int) /\ Len(got) = size /\ 1 \in 1 .. size
          BY <1>8, <4>1, Zenon
        <5>2. \A s \in Seq(Int) : 1 \in 1 .. Len(s) =>
                  LET t == [s EXCEPT ![1] = v]
                  IN /\ t \in Seq(Int) /\ Len(t) = Len(s)
                     /\ \A i \in 1 .. Len(s) : t[i] = IF i = 1 THEN v ELSE s[i]
          BY <4>1, ExceptSeq
        <5> QED BY <4>2, <5>1, <5>2, Zenon
      <4>4. v = q[1]
        BY <2>2, <3>1, <3>2 DEF v
      <4>5. \A i \in 2 .. n : got[i] = q[i]
        BY <1>0, <1>3, <1>6, <1>8
      <4> QED BY <1>0, <1>3, <4>3, <4>4, <4>5
    <3> HIDE DEF back, len
    <3>7. SubSeq(back, 1, n) = q
      <4>1. \A i \in 1 .. n : back[i] \in Int
        BY <1>4, <3>6
      <4>2. /\ SubSeq(back, 1, n) \in Seq(Int)
            /\ Len(SubSeq(back, 1, n)) = (IF 1 <= n THEN n - 1 + 1 ELSE 0)
            /\ \A i \in 1 .. n - 1 + 1 : SubSeq(back, 1, n)[i] = back[1 + i - 1]
        BY <1>0, <4>1, SubSeqProperties
      <4>3. /\ (IF 1 <= n THEN n - 1 + 1 ELSE 0) = n /\ n - 1 + 1 = n
            /\ \A i \in 1 .. n : 1 + i - 1 = i
        BY <1>0, <2>2
      <4>4. \A i \in 1 .. n : SubSeq(back, 1, n)[i] = q[i]
        BY <3>6, <4>2, <4>3
      <4>5. q \in Seq(Int) /\ Len(SubSeq(back, 1, n)) = Len(q)
        <5>1. q \in Seq(Int)
          BY <1>4, LenProperties DEF Names
        <5> QED BY <4>2, <4>3, <5>1
      <4> QED BY <4>2, <4>4, <4>5, SeqEqual
    <3> QED BY <3>4, <3>5, <3>7
  <2> QED BY <1>0, <2>1, <2>2
<1>11. ASSUME NEW k \in 1 .. b.len - 2, b.path[k] = Unset
       PROVE  k = b.len - 2 /\ q[1] # At
  <2>0. b.len - 2 = size
    BY <1>2, <1>3
  <2>a. k \in 1 .. size /\ f[k] = Unset
    BY <1>2, <1>11, <2>0, Zenon
  <2>b. k \in 1 .. SunPath
    <3> HIDE DEF size
    <3> QED BY <1>0, <1>3, <2>a
  <2>1. k \in 1 .. size /\ b.len - 2 = size /\ k \in 1 .. SunPath /\ f[k] = Unset
    BY <2>0, <2>a, <2>b
  <2>2. n > 0
    BY <1>0, <2>1
  <2>3. k # 1
    <3>1. 1 \in 1 .. n
      BY <1>0, <2>2
    <3> QED BY <1>0, <1>4, <1>6, <2>1, <2>2, <3>1
  <2>4. ~(k <= n)
    <3>1. CASE k <= n
      <4>1. k \in 1 .. n /\ f[k] = q[k]
        BY <1>0, <1>6, <2>1, <2>3, <3>1
      <4> QED BY <1>4, <2>1, <4>1
    <3> QED BY <3>1
  <2> QED BY <1>0, <2>1, <2>2, <2>4
<1>12. b.len - 2 <= SunPath
  BY <1>0, <1>2, <1>3
<1>13. ASSUME b.path[SunPath + 1] # Unset
       PROVE  q[1] = At /\ Len(q) = SunPath
  <2>1. SunPath + 1 \in 1 .. SunPath + 1 /\ SunPath + 1 # 1 /\ ~(SunPath + 1 <= n)
    BY <1>0, <1>3
  <2>2. f[SunPath + 1] = IF abstract /\ SunPath + 1 = n + 1 THEN Nul ELSE Unset
    BY <1>6, <2>1
  <2>3. abstract /\ SunPath + 1 = n + 1
    BY <1>2, <1>13, <2>2
  <2> QED BY <1>0, <2>3
<1> QED BY <1>b, <1>2, <1>3, <1>9, <1>10, <1>11, <1>12, <1>13

LEMMA PortsCounted == PortNumbers \subseteq Nat
BY DEF PortNumbers

\* What the kernel is given for an address, with its length off, and what
\* it is read back as.
ReadBack(a, off, fams, b) ==
    /\ FromBuf(fams, b) = IF a.fam \in fams /\ off = 0 THEN <<a>> ELSE Throws
    /\ a.fam # "unix" => b.port = <<a.port \div 256, a.port % 256>> /\ b.addr = a.addr
    /\ a.fam = "unix" =>
           /\ b.len - 2 <= SunPath
           /\ \A k \in 1 .. b.len - 2 : b.path[k] = Unset => k = b.len - 2 /\ a.path[1] # At
           /\ b.path[SunPath + 1] # Unset => a.path[1] = At /\ Len(a.path) = SunPath

LEMMA BufRead ==
    ASSUME NEW a, IsSockAddr(a), NEW off \in 0 .. 1, off > 0 => a.fam # "unix", NEW fams
    PROVE  ReadBack(a, off, fams, [Buf(a) EXCEPT !.len = @ - off])
<1> DEFINE b == [Buf(a) EXCEPT !.len = @ - off]
<1> SUFFICES ReadBack(a, off, fams, b)
  OBVIOUS
<1>1. CASE a \in Inets
  <2>1. a.fam = "inet" /\ a.port \in Nat /\ a = Sock4(a.addr, a.port)
    BY <1>1, PortsCounted DEF Inets, Sock4
  <2> DEFINE port == PortBytes(a.port)
  <2>2. b = [fam |-> "inet", len |-> 16 - off, port |-> port, addr |-> a.addr]
    BY <2>1 DEF Buf, Sock4Buf
  <2>3. port = <<a.port \div 256, a.port % 256>> /\ PortOf(port) = a.port
    BY <2>1, PortStored
  <2> HIDE DEF port
  <2>4. b.fam = "inet" /\ b.len = 16 - off /\ b.port = port /\ b.addr = a.addr
    BY <2>2
  <2> HIDE DEF b
  <2>5. FromBuf(fams, b) = IF "inet" \in fams THEN Sock4FromBuf(b) ELSE Throws
    BY <2>4 DEF FromBuf
  <2>6. Sock4FromBuf(b) = IF off = 0 THEN <<Sock4(a.addr, a.port)>> ELSE Throws
    <3>1. (b.len # 16) <=> (off # 0)
      BY <2>4
    <3> QED BY <2>3, <2>4, <3>1 DEF Sock4FromBuf
  <2>7. FromBuf(fams, b) = IF a.fam \in fams /\ off = 0 THEN <<a>> ELSE Throws
    BY <2>1, <2>5, <2>6, Zenon
  <2> QED BY <2>1, <2>3, <2>4, <2>7, Zenon DEF ReadBack
<1>2. CASE a \in Inet6s
  <2>1. a.fam = "inet6" /\ a.port \in Nat /\ a = Sock6(a.addr, a.port, a.scope)
    BY <1>2, PortsCounted DEF Inet6s, Sock6
  <2> DEFINE port == PortBytes(a.port)
  <2>2. b = [fam |-> "inet6", len |-> 28 - off, port |-> port, addr |-> a.addr,
             scope |-> a.scope]
    BY <2>1 DEF Buf, Sock6Buf
  <2>3. port = <<a.port \div 256, a.port % 256>> /\ PortOf(port) = a.port
    BY <2>1, PortStored
  <2> HIDE DEF port
  <2>4. /\ b.fam = "inet6" /\ b.len = 28 - off /\ b.port = port /\ b.addr = a.addr
        /\ b.scope = a.scope
    BY <2>2
  <2> HIDE DEF b
  <2>5. FromBuf(fams, b) = IF "inet6" \in fams THEN Sock6FromBuf(b) ELSE Throws
    BY <2>4 DEF FromBuf
  <2>6. Sock6FromBuf(b) = IF off = 0 THEN <<Sock6(a.addr, a.port, a.scope)>> ELSE Throws
    <3>1. (b.len # 28) <=> (off # 0)
      BY <2>4
    <3> QED BY <2>3, <2>4, <3>1 DEF Sock6FromBuf
  <2>7. FromBuf(fams, b) = IF a.fam \in fams /\ off = 0 THEN <<a>> ELSE Throws
    BY <2>1, <2>5, <2>6, Zenon
  <2> QED BY <2>1, <2>3, <2>4, <2>7, Zenon DEF ReadBack
<1>3. CASE a.path \in Names /\ SockUAddr(a.path) = <<a>>
  <2>1. PICK p \in Names : a = SockU(p) /\ NameFits(p)
    <3>1. PICK p \in Names : SockUAddr(a.path) = <<SockU(p)>> /\ NameFits(p)
      BY <1>3, NameMade DEF Throws
    <3>2. a = SockU(p)
      BY <1>3, <3>1
    <3> QED BY <3>1, <3>2
  <2>2. a.fam = "unix" /\ a.path = p /\ off = 0
    BY <2>1 DEF SockU
  <2> DEFINE u == SockUBuf(SockU(p))
  <2>3. /\ SockUFromBuf(u) = <<SockU(p)>> /\ u.fam = "unix" /\ u.len \in Nat
        /\ u.len - 2 <= SunPath
        /\ \A k \in 1 .. u.len - 2 : u.path[k] = Unset => k = u.len - 2 /\ p[1] # At
        /\ u.path[SunPath + 1] # Unset => p[1] = At /\ Len(p) = SunPath
    BY <2>1, NameRead
  <2>4. b = u
    <3>1. Buf(a) = u
      BY <2>1, <2>2 DEF Buf
    <3>2. u = [fam |-> u.fam, len |-> u.len, path |-> u.path]
      BY DEF SockUBuf
    <3>3. u.len - off = u.len
      BY <2>2, <2>3
    <3> HIDE DEF u
    <3>4. [u EXCEPT !.len = @ - off] = [u EXCEPT !.len = u.len]
      BY <3>3
    <3>5. [u EXCEPT !.len = u.len] = u
      BY <3>2
    <3> QED BY <3>1, <3>4, <3>5
  <2> HIDE DEF u, b
  <2>5. FromBuf(fams, b) = IF "unix" \in fams THEN SockUFromBuf(b) ELSE Throws
    BY <2>3, <2>4 DEF FromBuf
  <2>6. FromBuf(fams, b) = IF a.fam \in fams /\ off = 0 THEN <<a>> ELSE Throws
    BY <2>1, <2>2, <2>3, <2>4, <2>5
  <2> QED BY <2>2, <2>3, <2>4, <2>6, Zenon DEF ReadBack
<1> QED BY <1>1, <1>2, <1>3 DEF IsSockAddr

\* What the kernel is given for any address is read back as that address by
\* the types that hold its family and refused by the others, is in network
\* order, fits its structure but for the nul of an abstract name that fills
\* sun_path, and has no byte that was never written but the terminator of a
\* path; an empty path may crash first; what an EndianPacked keeps is in its byte order and
\* gives its value, on a processor of either order.
THEOREM SocketsKept == Spec => []SockBytes
<1>1. Init => SockBytes
  BY DEF Init, SockBytes, Did, Idle
<1>2. SockBytes /\ [Next]_call => SockBytes'
  <2> SUFFICES ASSUME SockBytes, [Next]_call PROVE SockBytes'
    OBVIOUS
  <2>1. CASE UNCHANGED call
    BY <2>1 DEF SockBytes, Did
  <2>2. CASE ReadBuf /\ call'.op = "buf"
    <3>1. PICK kind \in SockKinds, from \in SockKinds, off \in 0 .. 1 :
            \E a \in Values(kind) :
                LET buf == [Buf(a) EXCEPT !.len = @ - off]
                IN /\ off > 0 => a.fam # "unix"
                   /\ call' = [op |-> "buf", addr |-> a, off |-> off, from |-> from,
                               buf |-> buf, ret |-> FromBuf(Families(from), buf)]
      BY <2>2, Zenon DEF ReadBuf, Does
    <3>2. PICK a \in Values(kind) :
            /\ off > 0 => a.fam # "unix"
            /\ call' = [op |-> "buf", addr |-> a, off |-> off, from |-> from,
                        buf |-> [Buf(a) EXCEPT !.len = @ - off],
                        ret |-> FromBuf(Families(from), [Buf(a) EXCEPT !.len = @ - off])]
      BY <3>1, Zenon
    <3> DEFINE b == [Buf(a) EXCEPT !.len = @ - off]
    <3>3. IsSockAddr(a)
      BY <3>2, SocksAssumption
    <3>4. ReadBack(a, off, Families(from), b)
      BY <3>1, <3>2, <3>3, BufRead, Zenon
    <3> DEFINE ret == FromBuf(Families(from), b)
    <3>5. /\ call'.addr = a /\ call'.off = off /\ call'.from = from /\ call'.buf = b
          /\ call'.ret = ret
      <4>1. call' = [op |-> "buf", addr |-> a, off |-> off, from |-> from, buf |-> b, ret |-> ret]
        BY <3>2
      <4> HIDE DEF b, ret
      <4> QED BY <4>1
    <3>6. call'.ret = IF a.fam \in Families(from) /\ off = 0 THEN <<a>> ELSE Throws
      BY <3>4, <3>5 DEF ReadBack
    <3> HIDE DEF b, ret
    <3> QED BY <2>2, <3>4, <3>5, <3>6, Zenon DEF SockBytes, Did, ReadBack
  <2>3. CASE MakeSockU /\ call'.op = "path"
    <3>1. PICK q \in Paths : call' = [op |-> "path", path |-> q, ret |-> SockUAddr(q)]
      BY <2>3 DEF MakeSockU, Does
    <3>2. q \in Names /\ call'.path = q /\ call'.ret = SockUAddr(q)
      BY <3>1, SocksAssumption
    <3>3. CASE /\ SockUAddr(q) = Throws
               /\ Len(q) >= SunPath \/ \E k \in 2 .. Len(q) : q[k] = Nul
      BY <2>3, <3>2, <3>3 DEF SockBytes, Did
    <3>4. CASE \E p \in Names : SockUAddr(q) = <<SockU(p)>> /\ NameFits(p) /\ Len(p) = Len(q)
      <4>1. PICK p \in Names : SockUAddr(q) = <<SockU(p)>> /\ NameFits(p)
        BY <3>4
      <4> DEFINE u == SockUBuf(SockU(p))
      <4>2. SockUFromBuf(u) = <<SockU(p)>> /\ u.fam = "unix"
        BY <4>1, NameRead
      <4>3. Buf(SockU(p)) = u
        BY DEF Buf, SockU
      <4> HIDE DEF u
      <4>4. FromBuf({"unix"}, u) = <<SockU(p)>>
        BY <4>2 DEF FromBuf
      <4>5. call'.ret = <<SockU(p)>> /\ call'.ret[1] = SockU(p) /\ call'.ret # Throws
        BY <3>2, <4>1 DEF Throws
      <4> QED BY <2>3, <4>3, <4>4, <4>5 DEF SockBytes, Did
    <3> QED BY <3>2, <3>3, <3>4, NameMade
  <2>4. CASE Pack /\ call'.op = "pack"
    <3>1. PICK n \in Packed, e \in {"little", "big"} :
            call' = [op |-> "pack", n |-> n, e |-> e,
                     bytes |-> Memory(Native, Htoe(Native, e, n)),
                     value |-> Htoe(Native, e, Htoe(Native, e, n))]
      BY <2>4, Zenon DEF Pack, Does
    <3>2. n \in Seq(0 .. 255)
      BY <3>1, PackedAssumption
    <3>3. /\ Htoe(Native, e, Htoe(Native, e, n)) = n
          /\ Memory(Native, Htoe(Native, e, n)) = IF e = "big" THEN n ELSE Reverse(n)
      BY <3>2, StoredIs
    <3>4. call'.n = n /\ call'.e = e /\ call'.value = n
          /\ call'.bytes = IF e = "big" THEN n ELSE Reverse(n)
      BY <3>1, <3>3
    <3> QED BY <2>4, <3>4 DEF SockBytes, Did
  <2>5. CASE call'.op \notin {"buf", "path", "pack"}
    BY <2>5 DEF SockBytes, Did
  <2> QED BY <2>1, <2>2, <2>3, <2>4, <2>5, CallOf
<1> QED BY <1>1, <1>2, PTL DEF Spec

-----------------------------------------------------------------------------
(* Strings that end with a nul *)

LEMMA LeastNatural ==
    ASSUME NEW T \in SUBSET Nat, T # {}
    PROVE  \E x \in T : \A y \in T : x <= y
<1> DEFINE R == OpToRel(<, Nat)
<1>1. PICK x \in T : \A y \in T : ~(<<y, x>> \in R)
  <2>1. IsWellFoundedOn(R, Nat)
    BY NatLessThanWellFounded
  <2> HIDE DEF R
  <2> QED BY <2>1, WFMin
<1>2. \A y \in T : ~(y < x)
  BY <1>1 DEF OpToRel
<1> QED BY <1>2

\* What the search for a nul finds.
FirstNul(z) == SelectInSeq(z, LAMBDA c : c = 0)

LEMMA FirstNulIs ==
    ASSUME NEW z \in Seq(Nat)
    PROVE  /\ FirstNul(z) \in 0 .. Len(z)
           /\ \A k \in 1 .. Len(z) : z[k] = 0 => FirstNul(z) > 0 /\ FirstNul(z) <= k
           /\ FirstNul(z) > 0 => z[FirstNul(z)] = 0
<1> DEFINE I == {k \in 1 .. Len(z) : z[k] = 0}
<1>0. Len(z) \in Nat
  BY LenProperties
<1>1. FirstNul(z) = IF I # {} THEN Min(I) ELSE 0
  BY DEF FirstNul, SelectInSeq
<1>2. CASE I = {}
  BY <1>0, <1>1, <1>2
<1>3. CASE I # {}
  <2>1. \E x \in I : \A y \in I : x <= y
    <3>1. I \in SUBSET Nat
      BY <1>0
    <3> HIDE DEF I
    <3> QED BY <1>3, <3>1, LeastNatural
  <2>2. Min(I) \in I /\ \A y \in I : Min(I) <= y
    <3> HIDE DEF I
    <3> QED BY <2>1, Zenon DEF Min
  <2>3. FirstNul(z) \in I /\ \A y \in I : FirstNul(z) <= y
    BY <1>1, <1>3, <2>2
  <2> QED BY <1>0, <2>3
<1> QED BY <1>2, <1>3

LEMMA SubSeqIs ==
    ASSUME NEW z \in Seq(Nat), NEW m \in Nat, NEW n \in Nat, m + n <= Len(z)
    PROVE  /\ SubSeq(z, m + 1, m + n) \in Seq(Nat) /\ Len(SubSeq(z, m + 1, m + n)) = n
           /\ \A k \in 1 .. n : SubSeq(z, m + 1, m + n)[k] = z[m + k]
<1>0. Len(z) \in Nat
  BY LenProperties
<1>1. PICK a \in Int, b \in Int : a = m + 1 /\ b = m + n
  OBVIOUS
<1>2. \A i \in a .. b : i \in 1 .. Len(z)
  BY <1>0, <1>1
<1>3. \A i \in a .. b : z[i] \in Nat
  BY <1>2, ElementOfSeq
<1>4. /\ SubSeq(z, a, b) \in Seq(Nat)
      /\ Len(SubSeq(z, a, b)) = (IF a <= b THEN b - a + 1 ELSE 0)
      /\ \A k \in 1 .. b - a + 1 : SubSeq(z, a, b)[k] = z[a + k - 1]
  BY <1>3, SubSeqProperties
<1>5. /\ (IF a <= b THEN b - a + 1 ELSE 0) = n /\ b - a + 1 = n
      /\ \A k \in 1 .. n : a + k - 1 = m + k
  BY <1>1
<1>6. /\ SubSeq(z, a, b) \in Seq(Nat) /\ Len(SubSeq(z, a, b)) = n
      /\ \A k \in 1 .. n : SubSeq(z, a, b)[k] = z[m + k]
  BY <1>4, <1>5
<1> QED BY <1>1, <1>6

LEMMA FrontIs ==
    ASSUME NEW z \in Seq(Nat), NEW n \in 0 .. Len(z)
    PROVE  /\ SubSeq(z, 1, n) \in Seq(Nat) /\ Len(SubSeq(z, 1, n)) = n
           /\ \A k \in 1 .. n : SubSeq(z, 1, n)[k] = z[k]
<1>0. Len(z) \in Nat
  BY LenProperties
<1>1. 0 \in Nat /\ n \in Nat /\ 0 + n <= Len(z) /\ 0 + 1 = 1 /\ 0 + n = n
  BY <1>0
<1>2. \A k \in 1 .. n : 0 + k = k
  OBVIOUS
<1>3. /\ SubSeq(z, 0 + 1, 0 + n) \in Seq(Nat) /\ Len(SubSeq(z, 0 + 1, 0 + n)) = n
      /\ \A k \in 1 .. n : SubSeq(z, 0 + 1, 0 + n)[k] = z[0 + k]
  BY <1>1, SubSeqIs
<1> QED BY <1>1, <1>2, <1>3

\* What is said by a string whose first nul is known.
LEMMA SaidIs ==
    ASSUME NEW z \in Seq(Nat), NEW n \in Nat, n + 1 <= Len(z), z[n + 1] = 0,
           \A k \in 1 .. n : z[k] # 0
    PROVE  /\ Said(z) \in Seq(Nat) /\ Len(Said(z)) = n
           /\ \A k \in 1 .. n : Said(z)[k] = z[k]
<1>0. Len(z) \in Nat /\ n + 1 \in 1 .. Len(z)
  BY LenProperties
<1>1. FirstNul(z) = n + 1
  BY <1>0, FirstNulIs
<1>2. FindTerm(z, 0, Len(z)) = n
  <2>1. FindTerm(z, 0, Len(z)) =
            IF FirstNul(z) > 0 /\ FirstNul(z) <= Len(z) THEN FirstNul(z) - 1 ELSE -1
    BY DEF FindTerm, FirstNul
  <2> QED BY <1>0, <1>1, <2>1
<1>3. Said(z) = SubSeq(z, 1, n) /\ n \in 0 .. Len(z)
  BY <1>0, <1>2 DEF Said
<1> QED BY <1>3, FrontIs

\* The strings that FromArray takes have a nul.
LEMMA TakenIs ==
    ASSUME NEW z \in Seq(Nat), FromArray(z) # <<>>
    PROVE  \E n \in Nat : n + 1 <= Len(z) /\ z[n + 1] = 0 /\ \A k \in 1 .. n : z[k] # 0
<1>0. Len(z) \in Nat
  BY LenProperties
<1>1. FindTerm(z, 0, Len(z)) =
          IF FirstNul(z) > 0 /\ FirstNul(z) <= Len(z) THEN FirstNul(z) - 1 ELSE -1
  BY DEF FindTerm, FirstNul
<1>2. FirstNul(z) > 0 /\ FirstNul(z) \in 1 .. Len(z) /\ z[FirstNul(z)] = 0
  <2>1. ~(FindTerm(z, 0, Len(z)) < 0)
    BY DEF FromArray
  <2>2. FirstNul(z) \in 0 .. Len(z) /\ (FirstNul(z) > 0 => z[FirstNul(z)] = 0)
    BY FirstNulIs
  <2> QED BY <1>0, <1>1, <2>1, <2>2
<1>3. PICK n \in Nat : FirstNul(z) = n + 1
  <2>1. FirstNul(z) - 1 \in Nat /\ FirstNul(z) = (FirstNul(z) - 1) + 1
    BY <1>0, <1>2
  <2> QED BY <2>1
<1>4. \A k \in 1 .. n : k \in 1 .. Len(z) /\ ~(FirstNul(z) <= k)
  BY <1>0, <1>2, <1>3
<1>5. \A k \in 1 .. n : z[k] # 0
  BY <1>4, FirstNulIs
<1>6. n + 1 <= Len(z) /\ z[n + 1] = 0
  BY <1>0, <1>2, <1>3
<1> QED BY <1>5, <1>6

LEMMA FrontsEqual ==
    ASSUME NEW s \in Seq(Nat), NEW t \in Seq(Nat), NEW n \in Nat, n <= Len(s), n <= Len(t)
    PROVE  SubSeq(s, 1, n) = SubSeq(t, 1, n) <=> \A k \in 1 .. n : s[k] = t[k]
<1>0. Len(s) \in Nat /\ Len(t) \in Nat /\ n \in 0 .. Len(s) /\ n \in 0 .. Len(t)
  BY LenProperties
<1> DEFINE u == SubSeq(s, 1, n)
           v == SubSeq(t, 1, n)
<1>1. /\ u \in Seq(Nat) /\ Len(u) = n /\ \A k \in 1 .. n : u[k] = s[k]
      /\ v \in Seq(Nat) /\ Len(v) = n /\ \A k \in 1 .. n : v[k] = t[k]
  BY <1>0, FrontIs
<1> HIDE DEF u, v
<1>2. ASSUME \A k \in 1 .. n : s[k] = t[k] PROVE u = v
  BY <1>1, <1>2, SeqEqual
<1>3. ASSUME u = v PROVE \A k \in 1 .. n : s[k] = t[k]
  BY <1>1, <1>3
<1> QED BY <1>2, <1>3 DEF u, v

\* Two strings are in the order of the first place where they differ or one
\* of them ends.
LEMMA OrderAt ==
    ASSUME NEW s \in Seq(Nat), NEW t \in Seq(Nat), NEW i \in Nat \ {0},
           i <= Len(s) + 1, i <= Len(t) + 1, \A k \in 1 .. i - 1 : s[k] = t[k],
           i <= Len(s) /\ i <= Len(t) => s[i] # t[i]
    PROVE  Order(s, t) = IF i > Len(t) THEN IF i > Len(s) THEN 0 ELSE 1
                         ELSE IF i > Len(s) THEN -1
                         ELSE IF t[i] < s[i] THEN 1 ELSE -1
<1>0. Len(s) \in Nat /\ Len(t) \in Nat
  BY LenProperties
<1>1. IsPrefix(s, t) <=> Len(s) <= Len(t) /\ \A k \in 1 .. Len(s) : s[k] = t[k]
  <2>1. Len(s) <= Len(t) =>
            (SubSeq(s, 1, Len(s)) = SubSeq(t, 1, Len(s)) <=> \A k \in 1 .. Len(s) : s[k] = t[k])
    <3>1. SUFFICES ASSUME Len(s) <= Len(t)
                   PROVE  SubSeq(s, 1, Len(s)) = SubSeq(t, 1, Len(s))
                              <=> \A k \in 1 .. Len(s) : s[k] = t[k]
      OBVIOUS
    <3>2. Len(s) <= Len(s)
      BY <1>0
    <3> QED BY <1>0, <3>1, <3>2, FrontsEqual, Zenon
  <2> QED BY <2>1 DEF IsPrefix
<1>2. IsBelow(s, t) <=> \/ s # t /\ Len(s) <= Len(t) /\ \A k \in 1 .. Len(s) : s[k] = t[k]
                        \/ \E k \in 1 .. Len(s) :
                               /\ k <= Len(t) /\ s[k] < t[k]
                               /\ \A j \in 1 .. k - 1 : s[j] = t[j]
  <2>1. ASSUME NEW k \in 1 .. Len(s), k <= Len(t)
        PROVE  SubSeq(s, 1, k - 1) = SubSeq(t, 1, k - 1) <=> \A j \in 1 .. k - 1 : s[j] = t[j]
    <3>1. k - 1 \in Nat /\ k - 1 <= Len(s) /\ k - 1 <= Len(t)
      BY <1>0, <2>1
    <3> QED BY <3>1, FrontsEqual
  <2>2. \A k : k \in DOMAIN s \cap DOMAIN t <=> k \in 1 .. Len(s) /\ k <= Len(t)
    BY <1>0
  <2> QED BY <1>1, <2>1, <2>2 DEF IsBelow, IsStrictPrefix
<1>3. CASE i > Len(t) /\ i > Len(s)
  <2>1. Len(s) = Len(t) /\ i - 1 = Len(s)
    BY <1>0, <1>3
  <2>2. s = t
    BY <2>1, SeqEqual
  <2> QED BY <1>3, <2>2 DEF Order
<1>4. CASE i > Len(t) /\ i <= Len(s)
  <2>1. ~(Len(s) <= Len(t)) /\ s # t
    BY <1>0, <1>4
  <2>2. \A k \in 1 .. Len(s) : k <= Len(t) => k \in 1 .. i - 1 /\ s[k] \in Nat
    BY <1>0, <1>4, ElementOfSeq
  <2>3. ~IsBelow(s, t)
    BY <1>2, <2>1, <2>2
  <2> QED BY <1>0, <1>4, <2>1, <2>3 DEF Order
<1>5. CASE i <= Len(t) /\ i > Len(s)
  <2>1. Len(s) <= Len(t) /\ s # t /\ Len(s) = i - 1
    BY <1>0, <1>5
  <2>2. IsBelow(s, t)
    BY <1>2, <2>1
  <2> QED BY <1>0, <1>5, <2>1, <2>2 DEF Order
<1>6. CASE i <= Len(t) /\ i <= Len(s)
  <2>1. s[i] # t[i] /\ s # t /\ i \in 1 .. Len(s) /\ s[i] \in Nat /\ t[i] \in Nat
    BY <1>0, <1>6, ElementOfSeq
  <2>2. CASE s[i] < t[i]
    <3>1. IsBelow(s, t)
      BY <1>2, <1>6, <2>1, <2>2
    <3> QED BY <1>0, <1>6, <2>1, <2>2, <3>1 DEF Order
  <2>3. CASE t[i] < s[i]
    <3>1. ASSUME NEW k \in 1 .. Len(s), k <= Len(t), s[k] < t[k],
                 \A j \in 1 .. k - 1 : s[j] = t[j]
          PROVE  FALSE
      <4>1. s[k] \in Nat /\ k \in Nat
        BY <1>0, ElementOfSeq
      <4>2. CASE k < i
        <5>1. k \in 1 .. i - 1
          BY <1>0, <4>1, <4>2
        <5> QED BY <3>1, <4>1, <5>1
      <4>3. CASE k = i
        BY <2>1, <2>3, <3>1, <4>3
      <4>4. CASE k > i
        <5>1. i \in 1 .. k - 1
          BY <1>0, <4>1, <4>4
        <5> QED BY <2>1, <3>1, <5>1
      <4> QED BY <4>1, <4>2, <4>3, <4>4
    <3>2. ~IsBelow(s, t)
      BY <1>2, <2>1, <3>1
    <3> QED BY <1>0, <1>6, <2>1, <2>3, <3>2 DEF Order
  <2> QED BY <2>1, <2>2, <2>3
<1> QED BY <1>0, <1>3, <1>4, <1>5, <1>6

\* Comparisons stop where OrderAt says.
LEMMA CompareIs ==
    ASSUME NEW z \in Seq(Nat), FromArray(z) # <<>>, NEW t \in Seq(Nat)
    PROVE  Compare(z, t) = Order(Said(z), t)
<1> DEFINE s == Said(z)
           m == Len(t)
           Stops(i) == z[i] = 0 \/ z[i] # t[i]
           T == {i \in 1 .. m + 1 : i <= m => Stops(i)}
           At1(i) == (i <= m => Stops(i)) /\ \A k \in 1 .. i - 1 : ~Stops(k)
           i0 == CHOOSE i \in 1 .. m + 1 : At1(i)
<1>0. Len(z) \in Nat /\ m \in Nat
  BY LenProperties
<1>1. PICK n \in Nat : n + 1 <= Len(z) /\ z[n + 1] = 0 /\ \A k \in 1 .. n : z[k] # 0
  BY TakenIs
<1>2. s \in Seq(Nat) /\ Len(s) = n /\ \A k \in 1 .. n : s[k] = z[k]
  BY <1>1, SaidIs
<1>3. \E i \in 1 .. m + 1 : At1(i)
  <2>1. T \in SUBSET Nat /\ m + 1 \in T
    BY <1>0
  <2>2. \E x \in T : \A y \in T : x <= y
    <3> HIDE DEF T
    <3> QED BY <2>1, LeastNatural
  <2>3. PICK x \in T : \A y \in T : x <= y
    BY <2>2
  <2>4. ASSUME NEW k \in 1 .. x - 1 PROVE ~Stops(k)
    <3>1. k \in 1 .. m + 1 /\ k <= m /\ ~(x <= k) /\ x \in Nat
      BY <1>0, <2>3
    <3>2. k \notin T
      BY <2>3, <3>1
    <3> QED BY <3>1, <3>2
  <2>5. x \in 1 .. m + 1 /\ (x <= m => Stops(x))
    BY <2>3
  <2> QED BY <2>4, <2>5
<1>4. i0 \in 1 .. m + 1 /\ At1(i0)
  <2> HIDE DEF At1
  <2> QED BY <1>3, Zenon
<1>5. PICK i \in Nat \ {0} : i = i0 /\ i <= m + 1
  <2> HIDE DEF i0, At1, m
  <2> QED BY <1>0, <1>4
<1>6. Compare(z, t) = IF i > m THEN IF z[i] = 0 THEN 0 ELSE 1
                      ELSE IF z[i] = 0 THEN -1
                      ELSE IF t[i] < z[i] THEN 1 ELSE -1
  BY <1>5 DEF Compare
<1>7. (i <= m => Stops(i)) /\ \A k \in 1 .. i - 1 : ~Stops(k)
  BY <1>4, <1>5
<1> HIDE DEF i0, s, m
<1>8. i <= n + 1
  <2>1. ASSUME i > n + 1 PROVE FALSE
    <3>1. n + 1 \in 1 .. i - 1
      BY <2>1
    <3> QED BY <1>1, <1>7, <3>1
  <2> QED BY <2>1
<1>9. \A k \in 1 .. i - 1 : s[k] = t[k]
  <2>1. \A k \in 1 .. i - 1 : k \in 1 .. n
    BY <1>8
  <2> QED BY <1>2, <1>7, <2>1
<1>10. z[i] = 0 <=> i > n
  BY <1>1, <1>8
<1>11. i <= n => s[i] = z[i]
  BY <1>2
<1>12. i <= n /\ i <= m => s[i] # t[i]
  BY <1>7, <1>10, <1>11
<1>13. Order(s, t) = IF i > m THEN IF i > n THEN 0 ELSE 1
                     ELSE IF i > n THEN -1
                     ELSE IF t[i] < s[i] THEN 1 ELSE -1
  <2>1. i <= Len(s) + 1 /\ i <= Len(t) + 1 /\ (i <= Len(s) /\ i <= Len(t) => s[i] # t[i])
    BY <1>2, <1>5, <1>8, <1>12 DEF m
  <2>2. Order(s, t) = IF i > Len(t) THEN IF i > Len(s) THEN 0 ELSE 1
                     ELSE IF i > Len(s) THEN -1
                     ELSE IF t[i] < s[i] THEN 1 ELSE -1
    BY <1>2, <1>9, <2>1, OrderAt
  <2> QED BY <1>2, <2>2 DEF m
<1>14. Compare(z, t) = Order(s, t)
  BY <1>6, <1>8, <1>10, <1>11, <1>13
<1> QED BY <1>14 DEF s

LEMMA CompareZIs ==
    ASSUME NEW z \in Seq(Nat), FromArray(z) # <<>>, NEW w \in Seq(Nat), FromArray(w) # <<>>
    PROVE  CompareZ(z, w) = Order(Said(z), Said(w))
<1> DEFINE s == Said(z)
           t == Said(w)
           Stops(i) == z[i] = 0 \/ w[i] = 0 \/ z[i] # w[i]
           T == {i \in 1 .. Len(z) : Stops(i)}
           At1(i) == Stops(i) /\ \A k \in 1 .. i - 1 : z[k] # 0 /\ w[k] # 0 /\ z[k] = w[k]
           i0 == CHOOSE i \in DOMAIN z : At1(i)
<1>0. Len(z) \in Nat /\ Len(w) \in Nat /\ DOMAIN z = 1 .. Len(z)
  BY LenProperties
<1>1. PICK n \in Nat : n + 1 <= Len(z) /\ z[n + 1] = 0 /\ \A k \in 1 .. n : z[k] # 0
  BY TakenIs
<1>2. PICK m \in Nat : m + 1 <= Len(w) /\ w[m + 1] = 0 /\ \A k \in 1 .. m : w[k] # 0
  BY TakenIs
<1>3. /\ s \in Seq(Nat) /\ Len(s) = n /\ \A k \in 1 .. n : s[k] = z[k]
      /\ t \in Seq(Nat) /\ Len(t) = m /\ \A k \in 1 .. m : t[k] = w[k]
  BY <1>1, <1>2, SaidIs
<1>4. \E i \in DOMAIN z : At1(i)
  <2>1. T \in SUBSET Nat /\ n + 1 \in T
    BY <1>0, <1>1
  <2>2. \E x \in T : \A y \in T : x <= y
    <3> HIDE DEF T
    <3> QED BY <2>1, LeastNatural
  <2>3. PICK x \in T : \A y \in T : x <= y
    BY <2>2
  <2>4. ASSUME NEW k \in 1 .. x - 1 PROVE z[k] # 0 /\ w[k] # 0 /\ z[k] = w[k]
    <3>1. k \in 1 .. Len(z) /\ ~(x <= k)
      BY <1>0, <2>3
    <3>2. k \notin T
      BY <2>3, <3>1
    <3> QED BY <3>1, <3>2
  <2>5. x \in DOMAIN z /\ Stops(x)
    BY <1>0, <2>3
  <2> QED BY <2>4, <2>5
<1>5. i0 \in DOMAIN z /\ At1(i0)
  <2> HIDE DEF At1
  <2> QED BY <1>4, Zenon
<1>6. PICK i \in Nat \ {0} : i = i0
  <2> HIDE DEF i0, At1
  <2> QED BY <1>0, <1>5
<1>7. CompareZ(z, w) = IF z[i] = 0 THEN IF w[i] = 0 THEN 0 ELSE -1
                       ELSE IF w[i] = 0 THEN 1
                       ELSE IF w[i] < z[i] THEN 1 ELSE -1
  BY <1>6 DEF CompareZ
<1>8. Stops(i) /\ \A k \in 1 .. i - 1 : z[k] # 0 /\ w[k] # 0 /\ z[k] = w[k]
  BY <1>5, <1>6
<1> HIDE DEF i0, s, t
<1>9. i <= n + 1 /\ i <= m + 1
  <2>1. ASSUME i > n + 1 PROVE FALSE
    <3>1. n + 1 \in 1 .. i - 1
      BY <2>1
    <3> QED BY <1>1, <1>8, <3>1
  <2>2. ASSUME i > m + 1 PROVE FALSE
    <3>1. m + 1 \in 1 .. i - 1
      BY <2>2
    <3> QED BY <1>2, <1>8, <3>1
  <2> QED BY <2>1, <2>2
<1>10. \A k \in 1 .. i - 1 : s[k] = t[k]
  <2>1. \A k \in 1 .. i - 1 : k \in 1 .. n /\ k \in 1 .. m
    BY <1>9
  <2> QED BY <1>3, <1>8, <2>1
<1>11. (z[i] = 0 <=> i > n) /\ (w[i] = 0 <=> i > m)
  BY <1>1, <1>2, <1>9
<1>12. (i <= n => s[i] = z[i]) /\ (i <= m => t[i] = w[i])
  BY <1>3
<1>13. i <= n /\ i <= m => s[i] # t[i]
  BY <1>8, <1>11, <1>12
<1>14. Order(s, t) = IF i > m THEN IF i > n THEN 0 ELSE 1
                     ELSE IF i > n THEN -1
                     ELSE IF t[i] < s[i] THEN 1 ELSE -1
  <2>1. i <= Len(s) + 1 /\ i <= Len(t) + 1 /\ (i <= Len(s) /\ i <= Len(t) => s[i] # t[i])
    BY <1>3, <1>9, <1>13
  <2>2. Order(s, t) = IF i > Len(t) THEN IF i > Len(s) THEN 0 ELSE 1
                     ELSE IF i > Len(s) THEN -1
                     ELSE IF t[i] < s[i] THEN 1 ELSE -1
    BY <1>3, <1>10, <2>1, OrderAt
  <2> QED BY <1>3, <2>2
<1>15. CompareZ(z, w) = Order(s, t)
  BY <1>7, <1>11, <1>12, <1>14
<1> QED BY <1>15 DEF s, t

\* What FromArray takes, and what FromString takes of a size.
LEMMA ArrayIs ==
    ASSUME NEW z \in Seq(Nat)
    PROVE  FromArray(z) # <<>> <=> \E k \in 1 .. Len(z) : z[k] = 0
<1>0. Len(z) \in Nat
  BY LenProperties
<1>1. FindTerm(z, 0, Len(z)) =
          IF FirstNul(z) > 0 /\ FirstNul(z) <= Len(z) THEN FirstNul(z) - 1 ELSE -1
  BY DEF FindTerm, FirstNul
<1>2. FromArray(z) # <<>> <=> ~(FindTerm(z, 0, Len(z)) < 0)
  BY DEF FromArray
<1>3. FromArray(z) # <<>> <=> FirstNul(z) > 0
  <2>1. FirstNul(z) \in 0 .. Len(z)
    BY FirstNulIs
  <2> QED BY <1>0, <1>1, <1>2, <2>1
<1> QED BY <1>0, <1>3, FirstNulIs

LEMMA StringIs ==
    ASSUME NEW z \in Seq(Nat), NEW size \in 0 .. Len(z) - 1, z[size + 1] = 0
    PROVE  FromString(z, size) # <<>> <=> \A k \in 1 .. Len(z) : z[k] = 0 => k > size
<1>0. Len(z) \in Nat /\ size \in Nat /\ size + 1 \in 1 .. Len(z)
  BY LenProperties
<1>1. FindTerm(z, size, size + 1) =
          IF FirstNul(z) > size /\ FirstNul(z) <= size + 1 THEN FirstNul(z) - 1 ELSE -1
  BY DEF FindTerm, FirstNul
<1>2. FromString(z, size) # <<>> <=> ~(FindTerm(z, size, size + 1) < 0)
  BY DEF FromString
<1>3. FirstNul(z) \in 1 .. Len(z) /\ FirstNul(z) <= size + 1 /\ z[FirstNul(z)] = 0
  BY <1>0, FirstNulIs
<1>4. FromString(z, size) # <<>> <=> FirstNul(z) > size
  BY <1>0, <1>1, <1>2, <1>3
<1>5. \A k \in 1 .. Len(z) : z[k] = 0 => FirstNul(z) <= k
  BY FirstNulIs
<1> QED BY <1>0, <1>3, <1>4, <1>5

\* What is said is what is before the suffix and what the suffix says.
LEMMA SuffixIs ==
    ASSUME NEW z \in Seq(Nat), FromArray(z) # <<>>, NEW pos \in Nat, pos <= Len(Said(z))
    PROVE  Said(z) = SubSeq(z, 1, pos) \o Said(SubSeq(z, pos + 1, Len(z)))
<1>0. Len(z) \in Nat
  BY LenProperties
<1>1. PICK n \in Nat : n + 1 <= Len(z) /\ z[n + 1] = 0 /\ \A k \in 1 .. n : z[k] # 0
  BY TakenIs
<1> DEFINE s == Said(z)
           u == SubSeq(z, 1, pos)
           w == SubSeq(z, pos + 1, Len(z))
           t == Said(w)
<1>2. s \in Seq(Nat) /\ Len(s) = n /\ \A k \in 1 .. n : s[k] = z[k]
  BY <1>1, SaidIs
<1>3. pos <= n
  BY <1>2
<1>4. u \in Seq(Nat) /\ Len(u) = pos /\ \A k \in 1 .. pos : u[k] = z[k]
  <2>1. pos \in 0 .. Len(z)
    BY <1>0, <1>1, <1>3
  <2> QED BY <2>1, FrontIs
<1>5. PICK m \in Nat : pos + m = Len(z)
  <2>1. Len(z) - pos \in Nat /\ pos + (Len(z) - pos) = Len(z)
    BY <1>0, <1>1, <1>3
  <2> QED BY <2>1
<1>6. w \in Seq(Nat) /\ Len(w) = m /\ \A k \in 1 .. m : w[k] = z[pos + k]
  <2>1. /\ SubSeq(z, pos + 1, pos + m) \in Seq(Nat) /\ Len(SubSeq(z, pos + 1, pos + m)) = m
        /\ \A k \in 1 .. m : SubSeq(z, pos + 1, pos + m)[k] = z[pos + k]
    BY <1>0, <1>5, SubSeqIs
  <2> QED BY <1>5, <2>1
<1> HIDE DEF w
<1>7. PICK r \in Nat : n = pos + r
  <2>1. n - pos \in Nat /\ n = pos + (n - pos)
    BY <1>3
  <2> QED BY <2>1
<1>8. r + 1 <= Len(w) /\ w[r + 1] = 0 /\ \A k \in 1 .. r : w[k] # 0
  <2>1. r + 1 \in 1 .. m /\ pos + (r + 1) = n + 1
    BY <1>1, <1>5, <1>7
  <2>2. \A k \in 1 .. r : k \in 1 .. m /\ pos + k \in 1 .. n
    BY <1>7, <2>1
  <2>3. w[r + 1] = 0
    BY <1>1, <1>6, <2>1
  <2>4. \A k \in 1 .. r : w[k] # 0
    BY <1>1, <1>6, <2>2
  <2> QED BY <1>6, <2>1, <2>3, <2>4
<1>9. t \in Seq(Nat) /\ Len(t) = r /\ \A k \in 1 .. r : t[k] = w[k]
  BY <1>6, <1>8, SaidIs
<1> HIDE DEF s, u, t
<1>10. /\ u \o t \in Seq(Nat) /\ Len(u \o t) = n
       /\ \A k \in 1 .. n : (u \o t)[k] = IF k <= pos THEN u[k] ELSE t[k - pos]
  <2>1. /\ u \o t \in Seq(Nat) /\ Len(u \o t) = Len(u) + Len(t)
        /\ \A k \in 1 .. Len(u) + Len(t) :
               (u \o t)[k] = IF k <= Len(u) THEN u[k] ELSE t[k - Len(u)]
    BY <1>4, <1>9, ConcatProperties
  <2>2. Len(u) = pos /\ Len(t) = r /\ pos + r = n
    BY <1>4, <1>7, <1>9, Zenon
  <2> QED BY <2>1, <2>2, Zenon
<1>11. ASSUME NEW k \in 1 .. n PROVE (u \o t)[k] = s[k]
  <2>1. CASE k <= pos
    <3>1. k \in 1 .. pos
      BY <2>1
    <3> QED BY <1>2, <1>4, <1>10, <2>1, <3>1
  <2>2. CASE ~(k <= pos)
    <3>1. k - pos \in 1 .. r /\ k - pos \in 1 .. m /\ pos + (k - pos) = k
      BY <1>1, <1>5, <1>7, <2>2
    <3>2. t[k - pos] = z[k]
      BY <1>6, <1>9, <3>1
    <3> QED BY <1>2, <1>10, <2>2, <3>2
  <2> QED BY <2>1, <2>2
<1>12. s = u \o t
  BY <1>2, <1>10, <1>11, SeqEqual
<1> QED BY <1>12 DEF s, u, t, w

\* Strings compare as what they say with any other strings, FromArray and
\* FromString throw when they should, and a suffix says the end of what its
\* string says, whatever the characters and the lengths.
THEOREM StringsOrdered == Spec => []ZOrder
<1>1. Init => ZOrder
  BY DEF Init, ZOrder, Did, Idle
<1>2. ZOrder /\ [Next]_call => ZOrder'
  <2> SUFFICES ASSUME ZOrder, [Next]_call PROVE ZOrder'
    OBVIOUS
  <2> DEFINE nuls == {k \in DOMAIN call'.z : call'.z[k] = 0}
  <2>1. CASE UNCHANGED call
    BY <2>1 DEF ZOrder, Did
  <2>2. CASE CompareZs /\ call'.op = "compare"
    <3>1. PICK z \in Strings, t \in Others :
            /\ FromArray(z) # <<>>
            /\ call' = [op |-> "compare", z |-> z, other |-> t, sized |-> Compare(z, t),
                        ended |-> CompareZ(z, Append(t, 0))]
      BY <2>2, Zenon DEF CompareZs, Does
    <3> DEFINE w == Append(t, 0)
    <3>2. z \in Seq(Nat) /\ t \in Seq(Nat)
      BY <3>1, StringsAssumption
    <3>3. w \in Seq(Nat) /\ FromArray(w) # <<>>
      <4>1. /\ w \in Seq(Nat) /\ Len(w) = Len(t) + 1 /\ w[Len(t) + 1] = 0
            /\ Len(t) + 1 \in 1 .. Len(w)
        BY <3>2, AppendProperties, LenProperties
      <4> HIDE DEF w
      <4> QED BY <4>1, ArrayIs
    <3>4. Compare(z, t) = Order(Said(z), t) /\ CompareZ(z, w) = Order(Said(z), Said(w))
      <4> HIDE DEF w
      <4> QED BY <3>1, <3>2, <3>3, CompareIs, CompareZIs
    <3>5. /\ call'.z = z /\ call'.other = t /\ call'.sized = Compare(z, t)
          /\ call'.ended = CompareZ(z, w)
      BY <3>1
    <3> QED BY <2>2, <3>4, <3>5, Zenon DEF ZOrder, Did
  <2>3. CASE MakeZ /\ call'.op = "array"
    <3>1. PICK z \in Strings : call' = [op |-> "array", z |-> z, ret |-> FromArray(z)]
      BY <2>3, Zenon DEF MakeZ, Does
    <3>2. z \in Seq(Nat) /\ call'.z = z /\ call'.ret = FromArray(z) /\ DOMAIN z = 1 .. Len(z)
      BY <3>1, StringsAssumption
    <3>3. call'.ret # <<>> <=> nuls # {}
      BY <3>2, ArrayIs
    <3> QED BY <2>3, <3>3 DEF ZOrder, Did
  <2>4. CASE MakeZOfString /\ call'.op = "string"
    <3>1. PICK z \in Strings :
            \E size \in 0 .. Len(z) - 1 :
                /\ z[size + 1] = 0
                /\ call' = [op |-> "string", z |-> z, size |-> size, ret |-> FromString(z, size)]
      BY <2>4, Zenon DEF MakeZOfString, Does
    <3>2. PICK size \in 0 .. Len(z) - 1 :
            /\ z[size + 1] = 0
            /\ call' = [op |-> "string", z |-> z, size |-> size, ret |-> FromString(z, size)]
      BY <3>1
    <3>3. /\ z \in Seq(Nat) /\ call'.z = z /\ call'.size = size
          /\ call'.ret = FromString(z, size) /\ DOMAIN z = 1 .. Len(z)
      BY <3>1, <3>2, StringsAssumption
    <3>4. FromString(z, size) # <<>> <=> \A k \in 1 .. Len(z) : z[k] = 0 => k > size
      BY <3>2, <3>3, StringIs
    <3>5. call'.ret # <<>> <=> \A k \in nuls : k > call'.size
      BY <3>3, <3>4
    <3> QED BY <2>4, <3>5 DEF ZOrder, Did
  <2>5. CASE SuffixOf /\ call'.op = "suffix"
    <3>1. PICK z \in Strings, pos \in 0 .. 3 :
            /\ FromArray(z) # <<>>
            /\ call' = [op |-> "suffix", z |-> z, pos |-> pos, ret |-> Suffix(z, pos)]
      BY <2>5, Zenon DEF SuffixOf, Does
    <3>2. /\ z \in Seq(Nat) /\ pos \in Nat /\ call'.z = z /\ call'.pos = pos
          /\ call'.ret = Suffix(z, pos)
      BY <3>1, StringsAssumption
    <3>3. Len(Said(z)) \in Nat
      <4>1. PICK n \in Nat : n + 1 <= Len(z) /\ z[n + 1] = 0 /\ \A k \in 1 .. n : z[k] # 0
        BY <3>1, <3>2, TakenIs
      <4> QED BY <3>2, <4>1, SaidIs
    <3>4. CASE pos <= Len(Said(z))
      <4>1. Said(z) = SubSeq(z, 1, pos) \o Said(SubSeq(z, pos + 1, Len(z)))
        BY <3>1, <3>2, <3>4, SuffixIs
      <4>2. Suffix(z, pos) = <<SubSeq(z, pos + 1, Len(z))>>
        BY <3>2, <3>3, <3>4 DEF Suffix
      <4>3. call'.ret[1] = SubSeq(z, pos + 1, Len(z))
        <5> DEFINE w == SubSeq(z, pos + 1, Len(z))
        <5>1. <<w>>[1] = w
          <6> HIDE DEF w
          <6> QED OBVIOUS
        <5> QED BY <3>2, <4>2, <5>1, Zenon
      <4> QED BY <2>5, <3>2, <3>4, <4>1, <4>3 DEF ZOrder, Did
    <3>5. CASE ~(pos <= Len(Said(z)))
      <4>1. Suffix(z, pos) = <<>>
        BY <3>2, <3>3, <3>5 DEF Suffix
      <4> QED BY <2>5, <3>2, <3>5, <4>1 DEF ZOrder, Did
    <3> QED BY <3>4, <3>5
  <2>6. CASE call'.op \notin {"compare", "array", "string", "suffix"}
    BY <2>6 DEF ZOrder, Did
  <2> QED BY <2>1, <2>2, <2>3, <2>4, <2>5, <2>6, CallOf
<1> QED BY <1>1, <1>2, PTL DEF Spec

-----------------------------------------------------------------------------
(* Bytes and bits *)

BitAt(v, q) == (v \div Weights[q]) % 2
Byte == 0 .. 255
Bit == {0, 1}

LEMMA WeightsAre ==
    /\ Weights[1] = 128 /\ Weights[2] = 64 /\ Weights[3] = 32 /\ Weights[4] = 16
    /\ Weights[5] = 8 /\ Weights[6] = 4 /\ Weights[7] = 2 /\ Weights[8] = 1
BY DEF Weights

LEMMA BitAtIs ==
    ASSUME NEW v \in Byte, NEW q \in 1 .. 8
    PROVE  BitAt(v, q) \in Bit
<1>1. PICK w \in Nat \ {0} : w = Weights[q]
  <2>1. q \in {1, 2, 3, 4, 5, 6, 7, 8}
    OBVIOUS
  <2>2. Weights[q] \in Nat \ {0}
    BY <2>1, WeightsAre
  <2> QED BY <2>2
<1>2. v \div w \in Nat /\ (v \div w) % 2 \in 0 .. 1
  BY DEF Byte
<1> QED BY <1>1, <1>2 DEF BitAt, Bit

\* The number of eight bits has those bits.
SumOf(x) ==
    128 * x[1] + 64 * x[2] + 32 * x[3] + 16 * x[4] + 8 * x[5] + 4 * x[6] + 2 * x[7] + 1 * x[8]

LEMMA BitsOfSum ==
    ASSUME NEW x \in [1 .. 8 -> Bit]
    PROVE  SumOf(x) \in Byte /\ \A q \in 1 .. 8 : BitAt(SumOf(x), q) = x[q]
<1>1. PICK x1 \in Bit, x2 \in Bit, x3 \in Bit, x4 \in Bit,
           x5 \in Bit, x6 \in Bit, x7 \in Bit, x8 \in Bit :
        /\ x1 = x[1] /\ x2 = x[2] /\ x3 = x[3] /\ x4 = x[4]
        /\ x5 = x[5] /\ x6 = x[6] /\ x7 = x[7] /\ x8 = x[8]
  <2>1. /\ x[1] \in Bit /\ x[2] \in Bit /\ x[3] \in Bit /\ x[4] \in Bit
        /\ x[5] \in Bit /\ x[6] \in Bit /\ x[7] \in Bit /\ x[8] \in Bit
    OBVIOUS
  <2> QED BY <2>1, Zenon
<1>2. PICK v \in Int :
        /\ v = SumOf(x)
        /\ v = 128 * x1 + 64 * x2 + 32 * x3 + 16 * x4 + 8 * x5 + 4 * x6 + 2 * x7 + 1 * x8
  <2>1. SumOf(x) =
            128 * x1 + 64 * x2 + 32 * x3 + 16 * x4 + 8 * x5 + 4 * x6 + 2 * x7 + 1 * x8
    BY <1>1 DEF SumOf
  <2>2. 128 * x1 + 64 * x2 + 32 * x3 + 16 * x4 + 8 * x5 + 4 * x6 + 2 * x7 + 1 * x8 \in Int
    BY DEF Bit
  <2> QED BY <2>1, <2>2
<1>3. v \in Byte
  BY <1>2 DEF Byte, Bit
<1>4. (v \div 128) % 2 = x1
  BY <1>2 DEF Bit
<1>5. (v \div 64) % 2 = x2
  BY <1>2 DEF Bit
<1>6. (v \div 32) % 2 = x3
  BY <1>2 DEF Bit
<1>7. (v \div 16) % 2 = x4
  BY <1>2 DEF Bit
<1>8. (v \div 8) % 2 = x5
  BY <1>2 DEF Bit
<1>9. (v \div 4) % 2 = x6
  BY <1>2 DEF Bit
<1>10. (v \div 2) % 2 = x7
  BY <1>2 DEF Bit
<1>11. (v \div 1) % 2 = x8
  BY <1>2 DEF Bit
<1>12. BitAt(v, 1) = x[1] /\ BitAt(v, 2) = x[2] /\ BitAt(v, 3) = x[3] /\ BitAt(v, 4) = x[4]
  BY <1>1, <1>4, <1>5, <1>6, <1>7, WeightsAre DEF BitAt
<1>13. BitAt(v, 5) = x[5] /\ BitAt(v, 6) = x[6] /\ BitAt(v, 7) = x[7] /\ BitAt(v, 8) = x[8]
  BY <1>1, <1>8, <1>9, <1>10, <1>11, WeightsAre DEF BitAt
<1>14. \A q \in 1 .. 8 : q \in {1, 2, 3, 4, 5, 6, 7, 8}
  OBVIOUS
<1>15. \A q \in 1 .. 8 : BitAt(v, q) = x[q]
  BY <1>12, <1>13, <1>14
<1> QED BY <1>2, <1>3, <1>15, Zenon

\* A byte is the number of its bits, so that bytes with the same are the same.
LEMMA SumOfBits ==
    ASSUME NEW v \in Byte
    PROVE  v = SumOf([q \in 1 .. 8 |-> BitAt(v, q)])
<1>1. PICK x1 \in Bit, r1 \in 0 .. 127 : v = 128 * x1 + r1
  <2>1. v \div 128 \in Bit /\ v % 128 \in 0 .. 127 /\ v = 128 * (v \div 128) + (v % 128)
    BY DEF Bit, Byte
  <2> QED BY <2>1
<1>2. PICK x2 \in Bit, r2 \in 0 .. 63 : r1 = 64 * x2 + r2
  <2>1. r1 \div 64 \in Bit /\ r1 % 64 \in 0 .. 63 /\ r1 = 64 * (r1 \div 64) + (r1 % 64)
    BY DEF Bit
  <2> QED BY <2>1
<1>3. PICK x3 \in Bit, r3 \in 0 .. 31 : r2 = 32 * x3 + r3
  <2>1. r2 \div 32 \in Bit /\ r2 % 32 \in 0 .. 31 /\ r2 = 32 * (r2 \div 32) + (r2 % 32)
    BY DEF Bit
  <2> QED BY <2>1
<1>4. PICK x4 \in Bit, r4 \in 0 .. 15 : r3 = 16 * x4 + r4
  <2>1. r3 \div 16 \in Bit /\ r3 % 16 \in 0 .. 15 /\ r3 = 16 * (r3 \div 16) + (r3 % 16)
    BY DEF Bit
  <2> QED BY <2>1
<1>5. PICK x5 \in Bit, r5 \in 0 .. 7 : r4 = 8 * x5 + r5
  <2>1. r4 \div 8 \in Bit /\ r4 % 8 \in 0 .. 7 /\ r4 = 8 * (r4 \div 8) + (r4 % 8)
    BY DEF Bit
  <2> QED BY <2>1
<1>6. PICK x6 \in Bit, r6 \in 0 .. 3 : r5 = 4 * x6 + r6
  <2>1. r5 \div 4 \in Bit /\ r5 % 4 \in 0 .. 3 /\ r5 = 4 * (r5 \div 4) + (r5 % 4)
    BY DEF Bit
  <2> QED BY <2>1
<1>7. PICK x7 \in Bit, x8 \in Bit : r6 = 2 * x7 + x8
  <2>1. r6 \div 2 \in Bit /\ r6 % 2 \in Bit /\ r6 = 2 * (r6 \div 2) + (r6 % 2)
    BY DEF Bit
  <2> QED BY <2>1
<1>8. v = 128 * x1 + 64 * x2 + 32 * x3 + 16 * x4 + 8 * x5 + 4 * x6 + 2 * x7 + 1 * x8
  BY <1>1, <1>2, <1>3, <1>4, <1>5, <1>6, <1>7 DEF Bit
<1> DEFINE x == <<x1, x2, x3, x4, x5, x6, x7, x8>>
<1>9. /\ x \in [1 .. 8 -> Bit]
      /\ x[1] = x1 /\ x[2] = x2 /\ x[3] = x3 /\ x[4] = x4
      /\ x[5] = x5 /\ x[6] = x6 /\ x[7] = x7 /\ x[8] = x8
  OBVIOUS
<1> HIDE DEF x
<1>10. v = SumOf(x)
  BY <1>8, <1>9 DEF SumOf
<1>11. \A q \in 1 .. 8 : BitAt(v, q) = x[q]
  BY <1>9, <1>10, BitsOfSum
<1>12. x = [q \in 1 .. 8 |-> BitAt(v, q)]
  BY <1>9, <1>11
<1> QED BY <1>10, <1>12

LEMMA BytesEqual ==
    ASSUME NEW v \in Byte, NEW w \in Byte, \A q \in 1 .. 8 : BitAt(v, q) = BitAt(w, q)
    PROVE  v = w
<1>1. [q \in 1 .. 8 |-> BitAt(v, q)] = [q \in 1 .. 8 |-> BitAt(w, q)]
  OBVIOUS
<1> QED BY <1>1, SumOfBits

LEMMA Places ==
    ASSUME NEW n \in Nat, NEW k \in 1 .. 8 * n
    PROVE  /\ ((k - 1) \div 8) + 1 \in 1 .. n /\ ((k - 1) % 8) + 1 \in 1 .. 8
           /\ k = 8 * (((k - 1) \div 8) + 1 - 1) + (((k - 1) % 8) + 1)
OBVIOUS

LEMMA PlaceExists ==
    ASSUME NEW n \in Nat, NEW k \in 1 .. 8 * n
    PROVE  \E j \in 1 .. n, q \in 1 .. 8 : k = 8 * (j - 1) + q
<1> WITNESS ((k - 1) \div 8) + 1 \in 1 .. n, ((k - 1) % 8) + 1 \in 1 .. 8
<1> QED BY Places

LEMMA PlaceOf ==
    ASSUME NEW n \in Nat, NEW j \in 1 .. n, NEW q \in 1 .. 8
    PROVE  LET k == 8 * (j - 1) + q
           IN k \in 1 .. 8 * n /\ ((k - 1) \div 8) + 1 = j /\ ((k - 1) % 8) + 1 = q
OBVIOUS

\* The bits of bytes are those of each byte, in order.
LEMMA BitsAre ==
    ASSUME NEW n \in Nat, NEW a \in [1 .. n -> Byte]
    PROVE  /\ Bits(a) \in [1 .. 8 * n -> Bit] /\ Len(Bits(a)) = 8 * n
           /\ \A j \in 1 .. n, q \in 1 .. 8 : Bits(a)[8 * (j - 1) + q] = BitAt(a[j], q)
<1>1. Len(a) = n
  OBVIOUS
<1>2. Bits(a) = [k \in 1 .. 8 * n |-> BitAt(a[((k - 1) \div 8) + 1], ((k - 1) % 8) + 1)]
  BY <1>1, Zenon DEF Bits, BitAt
<1>3. ASSUME NEW k \in 1 .. 8 * n
      PROVE  BitAt(a[((k - 1) \div 8) + 1], ((k - 1) % 8) + 1) \in Bit
  <2>1. ((k - 1) \div 8) + 1 \in 1 .. n /\ ((k - 1) % 8) + 1 \in 1 .. 8
    BY Places
  <2>2. a[((k - 1) \div 8) + 1] \in Byte
    BY <2>1
  <2> QED BY <2>1, <2>2, BitAtIs, Zenon
<1>4. Bits(a) \in [1 .. 8 * n -> Bit]
  BY <1>2, <1>3, Zenon
<1>5. 8 * n \in Nat
  OBVIOUS
<1>6. Len(Bits(a)) = 8 * n
  BY <1>4, <1>5
<1>7. ASSUME NEW j \in 1 .. n, NEW q \in 1 .. 8
      PROVE  Bits(a)[8 * (j - 1) + q] = BitAt(a[j], q)
  <2> DEFINE k == 8 * (j - 1) + q
  <2>1. k \in 1 .. 8 * n /\ ((k - 1) \div 8) + 1 = j /\ ((k - 1) % 8) + 1 = q
    BY PlaceOf
  <2> HIDE DEF k
  <2>2. Bits(a)[k] = BitAt(a[((k - 1) \div 8) + 1], ((k - 1) % 8) + 1)
    BY <1>2, <2>1, Zenon
  <2>3. Bits(a)[k] = BitAt(a[j], q)
    BY <2>1, <2>2, Zenon
  <2> QED BY <2>3 DEF k
<1> QED BY <1>4, <1>6, <1>7

\* Sequences of bytes with the same bits are the same.
LEMMA BitsEqual ==
    ASSUME NEW n \in Nat, NEW a \in [1 .. n -> Byte], NEW b \in [1 .. n -> Byte],
           \A k \in 1 .. 8 * n : Bits(a)[k] = Bits(b)[k]
    PROVE  a = b
<1>1. ASSUME NEW j \in 1 .. n PROVE a[j] = b[j]
  <2>1. ASSUME NEW q \in 1 .. 8 PROVE BitAt(a[j], q) = BitAt(b[j], q)
    <3>1. 8 * (j - 1) + q \in 1 .. 8 * n
      BY PlaceOf
    <3>2. /\ Bits(a)[8 * (j - 1) + q] = BitAt(a[j], q)
          /\ Bits(b)[8 * (j - 1) + q] = BitAt(b[j], q)
      BY BitsAre
    <3>3. Bits(a)[8 * (j - 1) + q] = Bits(b)[8 * (j - 1) + q]
      BY <3>1, Zenon
    <3> QED BY <3>2, <3>3, Zenon
  <2>2. a[j] \in Byte /\ b[j] \in Byte
    OBVIOUS
  <2> QED BY <2>1, <2>2, BytesEqual
<1> QED BY <1>1

\* The byte that is made of bits has them.
LEMMA ByteAtIs ==
    ASSUME NEW bits, NEW b \in Nat, \A q \in 1 .. 8 : bits[8 * (b - 1) + q] \in Bit
    PROVE  /\ ByteAt(bits, b) \in Byte
           /\ \A q \in 1 .. 8 : BitAt(ByteAt(bits, b), q) = bits[8 * (b - 1) + q]
<1> DEFINE x == [q \in 1 .. 8 |-> bits[8 * (b - 1) + q]]
<1>1. x \in [1 .. 8 -> Bit]
  OBVIOUS
<1>2. /\ x[1] = bits[8 * (b - 1) + 1] /\ x[2] = bits[8 * (b - 1) + 2]
      /\ x[3] = bits[8 * (b - 1) + 3] /\ x[4] = bits[8 * (b - 1) + 4]
      /\ x[5] = bits[8 * (b - 1) + 5] /\ x[6] = bits[8 * (b - 1) + 6]
      /\ x[7] = bits[8 * (b - 1) + 7] /\ x[8] = bits[8 * (b - 1) + 8]
  OBVIOUS
<1>3. \A q \in 1 .. 8 : x[q] = bits[8 * (b - 1) + q]
  OBVIOUS
<1> HIDE DEF x
<1>4. ByteAt(bits, b) =
          Weights[1] * x[1] + Weights[2] * x[2] + Weights[3] * x[3] + Weights[4] * x[4]
          + Weights[5] * x[5] + Weights[6] * x[6] + Weights[7] * x[7] + Weights[8] * x[8]
  BY <1>2, Zenon DEF ByteAt
<1>5. ByteAt(bits, b) = SumOf(x)
  BY <1>4, WeightsAre, Zenon DEF SumOf
<1> QED BY <1>1, <1>3, <1>5, BitsOfSum

LEMMA AndByteIs ==
    ASSUME NEW v \in Byte, NEW w \in Byte
    PROVE  /\ AndByte(v, w) \in Byte
           /\ \A q \in 1 .. 8 : BitAt(AndByte(v, w), q) = BitAt(v, q) * BitAt(w, q)
<1> DEFINE x == Bits(<<v>>)
           y == Bits(<<w>>)
           z == AndBits(x, y)
<1>1. /\ x \in [1 .. 8 -> Bit] /\ \A q \in 1 .. 8 : x[q] = BitAt(v, q)
      /\ y \in [1 .. 8 -> Bit] /\ \A q \in 1 .. 8 : y[q] = BitAt(w, q)
  <2>1. ASSUME NEW u \in Byte
        PROVE  Bits(<<u>>) \in [1 .. 8 -> Bit] /\ \A q \in 1 .. 8 : Bits(<<u>>)[q] = BitAt(u, q)
    <3> DEFINE a == <<u>>
    <3>1. a \in [1 .. 1 -> Byte] /\ a[1] = u
      OBVIOUS
    <3> HIDE DEF a
    <3>2. 1 \in Nat /\ 1 \in 1 .. 1 /\ 8 * 1 = 8
      OBVIOUS
    <3>3. /\ Bits(a) \in [1 .. 8 * 1 -> Bit]
          /\ \A j \in 1 .. 1, q \in 1 .. 8 : Bits(a)[8 * (j - 1) + q] = BitAt(a[j], q)
      BY <3>1, <3>2, BitsAre
    <3>4. \A q \in 1 .. 8 : 8 * (1 - 1) + q = q
      OBVIOUS
    <3>5. \A q \in 1 .. 8 : Bits(a)[q] = BitAt(u, q)
      BY <3>1, <3>2, <3>3, <3>4
    <3> QED BY <3>2, <3>3, <3>5 DEF a
  <2> QED BY <2>1
<1> HIDE DEF x, y
<1>2. \A q \in 1 .. 8 : z[q] = x[q] * y[q]
  BY <1>1 DEF AndBits
<1>3. \A q \in 1 .. 8 : z[q] \in Bit
  BY <1>1, <1>2 DEF Bit
<1>4. AndByte(v, w) = ByteAt(z, 1)
  BY DEF AndByte, x, y
<1> HIDE DEF z
<1>5. \A q \in 1 .. 8 : 8 * (1 - 1) + q = q
  OBVIOUS
<1>6. /\ ByteAt(z, 1) \in Byte
      /\ \A q \in 1 .. 8 : BitAt(ByteAt(z, 1), q) = z[8 * (1 - 1) + q]
  BY <1>3, <1>5, ByteAtIs
<1>7. \A q \in 1 .. 8 : BitAt(ByteAt(z, 1), q) = BitAt(v, q) * BitAt(w, q)
  BY <1>1, <1>2, <1>5, <1>6
<1> QED BY <1>4, <1>6, <1>7

\* The bytes that are made of the bits of a word have those bits.
LEMMA BytesAre ==
    ASSUME NEW x \in [1 .. 32 -> Bit]
    PROVE  /\ Bytes(x) \in [1 .. 4 -> Byte] /\ Bits(Bytes(x)) = x
           /\ \A b \in 1 .. 4, q \in 1 .. 8 : BitAt(Bytes(x)[b], q) = x[8 * (b - 1) + q]
<1>1. Bytes(x) = [b \in 1 .. 4 |-> ByteAt(x, b)]
  <2>1. Len(x) = 32 /\ 32 \div 8 = 4
    OBVIOUS
  <2> QED BY <2>1, Zenon DEF Bytes
<1>2. \A b \in 1 .. 4, q \in 1 .. 8 : 8 * (b - 1) + q \in 1 .. 32
  OBVIOUS
<1>3. ASSUME NEW b \in 1 .. 4
      PROVE  /\ ByteAt(x, b) \in Byte
             /\ \A q \in 1 .. 8 : BitAt(ByteAt(x, b), q) = x[8 * (b - 1) + q]
  <2>1. b \in Nat /\ \A q \in 1 .. 8 : x[8 * (b - 1) + q] \in Bit
    BY <1>2
  <2> QED BY <2>1, ByteAtIs
<1>4. /\ Bytes(x) \in [1 .. 4 -> Byte]
      /\ \A b \in 1 .. 4, q \in 1 .. 8 : BitAt(Bytes(x)[b], q) = x[8 * (b - 1) + q]
  BY <1>1, <1>3
<1> DEFINE a == Bytes(x)
           y == Bits(a)
<1>5. y \in [1 .. 32 -> Bit] /\ \A b \in 1 .. 4, q \in 1 .. 8 : y[8 * (b - 1) + q] = BitAt(a[b], q)
  <2>1. 4 \in Nat /\ 8 * 4 = 32
    OBVIOUS
  <2> HIDE DEF a
  <2>2. a \in [1 .. 4 -> Byte]
    BY <1>4 DEF a
  <2>3. /\ y \in [1 .. 8 * 4 -> Bit]
        /\ \A b \in 1 .. 4, q \in 1 .. 8 : y[8 * (b - 1) + q] = BitAt(a[b], q)
    BY <2>1, <2>2, BitsAre
  <2> QED BY <2>1, <2>3
<1> HIDE DEF y
<1>6. ASSUME NEW k \in 1 .. 32 PROVE y[k] = x[k]
  <2>1. k \in 1 .. 8 * 4 /\ 4 \in Nat
    OBVIOUS
  <2>2. PICK b \in 1 .. 4, q \in 1 .. 8 : k = 8 * (b - 1) + q
    BY <2>1, Places
  <2>3. y[8 * (b - 1) + q] = x[8 * (b - 1) + q]
    BY <1>4, <1>5
  <2> QED BY <2>2, <2>3
<1>7. y = x
  BY <1>5, <1>6
<1> QED BY <1>4, <1>7 DEF y

-----------------------------------------------------------------------------
(* Netmasks *)

Leading(n) == Ones(n) \o None(32 - n)
LastOf(x, v) == SelectLastInSeq(x, LAMBDA b : b = v)

LEMMA OnesNone ==
    ASSUME NEW n \in Nat, NEW m \in Nat
    PROVE  /\ Ones(n) \o None(m) \in [1 .. n + m -> Bit]
           /\ \A k \in 1 .. n + m : (Ones(n) \o None(m))[k] = IF k <= n THEN 1 ELSE 0
<1> DEFINE s == Ones(n)
           t == None(m)
<1>1. /\ s \in Seq(Bit) /\ Len(s) = n /\ \A k \in 1 .. n : s[k] = 1
      /\ t \in Seq(Bit) /\ Len(t) = m /\ \A k \in 1 .. m : t[k] = 0
  <2>1. s \in [1 .. n -> Bit] /\ \A k \in 1 .. n : s[k] = 1
    BY DEF Ones, Bit
  <2>2. t \in [1 .. m -> Bit] /\ \A k \in 1 .. m : t[k] = 0
    BY DEF None, Bit
  <2> HIDE DEF s, t
  <2> QED BY <2>1, <2>2
<1> HIDE DEF s, t
<1>2. /\ s \o t \in Seq(Bit) /\ Len(s \o t) = n + m
      /\ \A k \in 1 .. n + m : (s \o t)[k] = IF k <= n THEN s[k] ELSE t[k - n]
  <2>1. /\ s \o t \in Seq(Bit) /\ Len(s \o t) = Len(s) + Len(t)
        /\ \A k \in 1 .. Len(s) + Len(t) :
               (s \o t)[k] = IF k <= Len(s) THEN s[k] ELSE t[k - Len(s)]
    BY <1>1, ConcatProperties
  <2>2. Len(s) = n /\ Len(t) = m
    BY <1>1, Zenon
  <2> QED BY <2>1, <2>2, Zenon
<1> DEFINE u == s \o t
<1>3. u \in Seq(Bit) /\ Len(u) = n + m
  BY <1>2
<1>4. \A k \in 1 .. n + m : u[k] = IF k <= n THEN 1 ELSE 0
  <2>1. ASSUME NEW k \in 1 .. n + m PROVE u[k] = IF k <= n THEN 1 ELSE 0
    <3>1. CASE k <= n
      BY <1>1, <1>2, <3>1
    <3>2. CASE ~(k <= n)
      <4>1. k - n \in 1 .. m
        BY <3>2
      <4> QED BY <1>1, <1>2, <3>2, <4>1
    <3> QED BY <3>1, <3>2
  <2> QED BY <2>1
<1> HIDE DEF u
<1>5. u \in [1 .. n + m -> Bit]
  BY <1>3
<1> QED BY <1>4, <1>5 DEF u, s, t

LEMMA LeadingIsOnes ==
    ASSUME NEW n \in 0 .. 32
    PROVE  /\ Leading(n) \in [1 .. 32 -> Bit]
           /\ \A k \in 1 .. 32 : Leading(n)[k] = IF k <= n THEN 1 ELSE 0
<1>1. n \in Nat /\ 32 - n \in Nat /\ n + (32 - n) = 32
  OBVIOUS
<1>2. /\ Ones(n) \o None(32 - n) \in [1 .. n + (32 - n) -> Bit]
      /\ \A k \in 1 .. n + (32 - n) : (Ones(n) \o None(32 - n))[k] = IF k <= n THEN 1 ELSE 0
  BY <1>1, OnesNone
<1> QED BY <1>1, <1>2 DEF Leading

LEMMA GreatestOf ==
    ASSUME NEW n \in Nat, NEW T \in SUBSET (0 .. n), T # {}
    PROVE  \E x \in T : \A y \in T : x >= y
<1> DEFINE U == {n - y : y \in T}
<1>1. U \in SUBSET Nat /\ U # {}
  <2>1. \A y \in T : n - y \in Nat
    OBVIOUS
  <2>2. PICK y \in T : TRUE
    OBVIOUS
  <2>3. n - y \in U
    OBVIOUS
  <2> QED BY <2>1, <2>3
<1>2. PICK u \in U : \A v \in U : u <= v
  <2> HIDE DEF U
  <2> QED BY <1>1, LeastNatural
<1>3. PICK x \in T : u = n - x
  OBVIOUS
<1>4. ASSUME NEW y \in T PROVE x >= y
  <2>1. n - x <= n - y
    BY <1>2, <1>3
  <2> QED BY <2>1
<1> QED BY <1>4

LEMMA LastIs ==
    ASSUME NEW x \in [1 .. 32 -> Bit], NEW v
    PROVE  /\ LastOf(x, v) \in 0 .. 32
           /\ \A k \in 1 .. 32 : x[k] = v => LastOf(x, v) > 0 /\ k <= LastOf(x, v)
           /\ LastOf(x, v) > 0 => x[LastOf(x, v)] = v
<1> DEFINE I == {k \in 1 .. 32 : x[k] = v}
<1>1. LastOf(x, v) = IF I # {} THEN Max(I) ELSE 0
  <2>1. Len(x) = 32
    OBVIOUS
  <2> QED BY <2>1 DEF LastOf, SelectLastInSeq
<1>2. CASE I = {}
  BY <1>1, <1>2
<1>3. CASE I # {}
  <2>1. \E i \in I : \A y \in I : i >= y
    <3>1. I \in SUBSET (0 .. 32) /\ 32 \in Nat
      OBVIOUS
    <3> HIDE DEF I
    <3> QED BY <1>3, <3>1, GreatestOf
  <2>2. Max(I) \in I /\ \A y \in I : Max(I) >= y
    <3> HIDE DEF I
    <3> QED BY <2>1, Zenon DEF Max
  <2>3. LastOf(x, v) \in I /\ \A y \in I : LastOf(x, v) >= y
    BY <1>1, <1>3, <2>2
  <2> QED BY <2>3
<1> QED BY <1>2, <1>3

LEMMA MaskIs ==
    ASSUME NEW p \in 0 .. 32
    PROVE  Addr32Mask(p) = Htoe(Native, "big", Bytes(Leading(p)))
<1>1. CASE p = 0
  <2>1. Leading(0) = None(32)
    <3>1. 0 \in 0 .. 32
      OBVIOUS
    <3>2. /\ Leading(0) \in [1 .. 32 -> Bit]
          /\ \A k \in 1 .. 32 : Leading(0)[k] = IF k <= 0 THEN 1 ELSE 0
      BY <3>1, LeadingIsOnes
    <3> QED BY <3>2 DEF None
  <2> QED BY <1>1, <2>1 DEF Addr32Mask
<1>2. CASE p # 0
  BY <1>2 DEF Addr32Mask, Leading
<1> QED BY <1>1, <1>2

\* A function on an interval is a sequence.
LEMMA FunctionIsSeq ==
    ASSUME NEW S, NEW n \in Nat, NEW f \in [1 .. n -> S]
    PROVE  f \in Seq(S) /\ Len(f) = n
OBVIOUS

LEMMA WordIsSeq ==
    ASSUME NEW m \in [1 .. 4 -> Byte]
    PROVE  m \in Seq(Byte) /\ Len(m) = 4 /\ SubSeq(m, 1, 4) = m
<1>1. m \in Seq(Byte) /\ Len(m) = 4
  <2>1. 4 \in Nat
    OBVIOUS
  <2> QED BY <2>1, FunctionIsSeq
<1>2. \A i \in 1 .. 4 : m[i] \in Byte
  OBVIOUS
<1>3. /\ SubSeq(m, 1, 4) \in Seq(Byte)
      /\ Len(SubSeq(m, 1, 4)) = (IF 1 <= 4 THEN 4 - 1 + 1 ELSE 0)
      /\ \A i \in 1 .. 4 - 1 + 1 : SubSeq(m, 1, 4)[i] = m[1 + i - 1]
  BY <1>2, SubSeqProperties
<1>4. /\ (IF 1 <= 4 THEN 4 - 1 + 1 ELSE 0) = 4 /\ 4 - 1 + 1 = 4
      /\ \A i \in 1 .. 4 : 1 + i - 1 = i
  OBVIOUS
<1>5. SubSeq(m, 1, 4) = m
  BY <1>1, <1>3, <1>4, SeqEqual
<1> QED BY <1>1, <1>5

\* What maskToPfx makes of a mask.
LEMMA PfxIs ==
    ASSUME NEW m \in [1 .. 4 -> Byte]
    PROVE  LET last == LastOf(Bits(m), 1)
           IN /\ last \in 0 .. 32
              /\ MaskToPfx(m) = IF Bits(m) = Leading(last) THEN <<last>> ELSE Throws
<1> DEFINE x == Bits(m)
           y == NotBits(x)
           L == LastOf(x, 1)
           z == AndBits(y, Increment(y))
<1>1. Htoe(Native, "big", IntWord(m, 0)) = m
  <2>1. 4 * 0 + 1 = 1 /\ 4 * 0 + 4 = 4 /\ "big" \in {"little", "big"}
    OBVIOUS
  <2>2. MemWord(m, 0) = m
    BY <2>1, WordIsSeq DEF MemWord
  <2>3. Htoe(Native, "big", Memory(Native, m)) = m
    BY <2>1, WordIsSeq, StoredIs
  <2> QED BY <2>2, <2>3 DEF IntWord
<1>2. x \in [1 .. 32 -> Bit]
  <2>1. 4 \in Nat /\ 8 * 4 = 32
    OBVIOUS
  <2>2. x \in [1 .. 8 * 4 -> Bit]
    BY <2>1, BitsAre
  <2> QED BY <2>1, <2>2
<1>3. MaskToPfx(m) = IF z # None(32) THEN Throws ELSE <<32 - TrailingZeros(x)>>
  BY <1>1, Zenon DEF MaskToPfx
<1> HIDE DEF x
<1>4. y \in [1 .. 32 -> Bit] /\ \A k \in 1 .. 32 : y[k] = 1 - x[k]
  BY <1>2 DEF NotBits, Bit
<1>5. /\ L \in 0 .. 32 /\ \A k \in 1 .. 32 : x[k] = 1 => k <= L
      /\ L > 0 => x[L] = 1
  BY <1>2, LastIs
<1>6. TrailingZeros(x) = 32 - L
  <2>1. Len(x) = 32
    BY <1>2
  <2> QED BY <2>1 DEF TrailingZeros, LastOf
<1>7. LastOf(y, 0) = L
  <2> DEFINE M == LastOf(y, 0)
  <2>1. /\ M \in 0 .. 32 /\ \A k \in 1 .. 32 : y[k] = 0 => k <= M
        /\ M > 0 => y[M] = 0
    <3> HIDE DEF y
    <3> QED BY <1>4, LastIs
  <2> HIDE DEF M, L, y
  <2>2. \A k \in 1 .. 32 : y[k] = 0 <=> x[k] = 1
    BY <1>2, <1>4 DEF Bit
  <2>3. L <= M
    <3>1. CASE L > 0
      <4>1. L \in 1 .. 32 /\ y[L] = 0
        BY <1>5, <2>2, <3>1
      <4> QED BY <2>1, <4>1
    <3> QED BY <1>5, <2>1, <3>1
  <2>4. M <= L
    <3>1. CASE M > 0
      <4>1. M \in 1 .. 32 /\ x[M] = 1
        BY <2>1, <2>2, <3>1
      <4> QED BY <1>5, <4>1
    <3> QED BY <1>5, <2>1, <3>1
  <2>5. M = L
    BY <1>5, <2>1, <2>3, <2>4
  <2> QED BY <2>5 DEF M
<1> HIDE DEF L, y
<1>8. Increment(y) = [k \in 1 .. 32 |-> IF k < L THEN y[k] ELSE IF k = L THEN 1 ELSE 0]
  <2>1. DOMAIN y = 1 .. 32
    BY <1>4
  <2>2. Increment(y) =
            [k \in DOMAIN y |-> IF k < LastOf(y, 0) THEN y[k]
                                ELSE IF k = LastOf(y, 0) THEN 1 ELSE 0]
    BY DEF Increment, LastOf
  <2> QED BY <1>7, <2>1, <2>2
<1>9. \A k \in 1 .. 32 : z[k] = IF k < L THEN y[k] ELSE 0
  <2>1. \A k \in 1 .. 32 : z[k] = y[k] * Increment(y)[k]
    BY <1>4 DEF AndBits
  <2>2. ASSUME NEW k \in 1 .. 32 PROVE z[k] = IF k < L THEN y[k] ELSE 0
    <3>1. z[k] = y[k] * (IF k < L THEN y[k] ELSE IF k = L THEN 1 ELSE 0)
      BY <1>8, <2>1
    <3>2. y[k] \in {0, 1}
      BY <1>4 DEF Bit
    <3>3. CASE k < L
      BY <3>1, <3>2, <3>3
    <3>4. CASE k = L
      <4>1. x[k] = 1 /\ y[k] = 0
        BY <1>4, <1>5, <3>4
      <4> QED BY <1>5, <3>1, <3>4, <4>1
    <3>5. CASE ~(k < L) /\ k # L
      BY <3>1, <3>2, <3>5
    <3> QED BY <3>3, <3>4, <3>5
  <2> QED BY <2>2
<1>10. z = None(32) <=> \A k \in 1 .. 32 : z[k] = 0
  <2>1. z = [k \in 1 .. 32 |-> y[k] * Increment(y)[k]]
    BY <1>4 DEF AndBits
  <2> HIDE DEF z
  <2> QED BY <2>1 DEF None
<1>11. z = None(32) <=> x = Leading(L)
  <2>1. /\ Leading(L) \in [1 .. 32 -> Bit]
        /\ \A k \in 1 .. 32 : Leading(L)[k] = IF k <= L THEN 1 ELSE 0
    BY <1>5, LeadingIsOnes
  <2>2. ASSUME \A k \in 1 .. 32 : z[k] = 0 PROVE x = Leading(L)
    <3>1. ASSUME NEW k \in 1 .. 32 PROVE x[k] = IF k <= L THEN 1 ELSE 0
      <4>1. x[k] \in {0, 1} /\ y[k] = 1 - x[k]
        BY <1>2, <1>4 DEF Bit
      <4>2. CASE k < L
        <5>1. y[k] = 0
          BY <1>9, <2>2, <4>2
        <5> QED BY <1>5, <4>1, <4>2, <5>1
      <4>3. CASE k = L
        BY <1>5, <4>3
      <4>4. CASE k > L
        BY <1>5, <4>1, <4>4
      <4> QED BY <1>5, <4>2, <4>3, <4>4
    <3> QED BY <1>2, <2>1, <3>1
  <2>3. ASSUME x = Leading(L) PROVE \A k \in 1 .. 32 : z[k] = 0
    <3>1. ASSUME NEW k \in 1 .. 32, k < L PROVE y[k] = 0
      BY <1>4, <1>5, <2>1, <2>3, <3>1
    <3> QED BY <1>9, <3>1
  <2> QED BY <1>10, <2>2, <2>3
<1>12. 32 - (32 - L) = L
  BY <1>5
<1>13. MaskToPfx(m) = IF x = Leading(L) THEN <<L>> ELSE Throws
  BY <1>3, <1>6, <1>11, <1>12, Zenon
<1> QED BY <1>5, <1>13 DEF L, x

LEMMA LeadingLast ==
    ASSUME NEW n \in 0 .. 32
    PROVE  LastOf(Leading(n), 1) = n
<1> DEFINE x == Leading(n)
           L == LastOf(x, 1)
<1>1. x \in [1 .. 32 -> Bit] /\ \A k \in 1 .. 32 : x[k] = IF k <= n THEN 1 ELSE 0
  BY LeadingIsOnes
<1> HIDE DEF x
<1>2. /\ L \in 0 .. 32 /\ \A k \in 1 .. 32 : x[k] = 1 => k <= L
      /\ L > 0 => x[L] = 1
  BY <1>1, LastIs
<1> HIDE DEF L
<1>3. n > 0 => n <= L
  BY <1>1, <1>2
<1>4. L > 0 => L <= n
  BY <1>1, <1>2
<1>5. L = n
  BY <1>2, <1>3, <1>4
<1> QED BY <1>5 DEF L, x

\* A netmask is taken exactly when it is ones and then zeros, every prefix
\* comes back from its mask, and nothing depends on the byte order.
THEOREM MasksInverse == Spec => []MaskInverse
<1>1. Init => MaskInverse
  BY DEF Init, MaskInverse, Did, Idle
<1>2. MaskInverse /\ [Next]_call => MaskInverse'
  <2> SUFFICES ASSUME MaskInverse, [Next]_call PROVE MaskInverse'
    OBVIOUS
  <2>1. CASE UNCHANGED call
    BY <2>1 DEF MaskInverse, Did
  <2>2. CASE FromMask /\ call'.op = "pfx"
    <3>1. PICK m \in Masks : call' = [op |-> "pfx", mask |-> m, ret |-> MaskToPfx(m)]
      BY <2>2, Zenon DEF FromMask, Does
    <3>2. m \in [1 .. 4 -> Byte] /\ call'.mask = m /\ call'.ret = MaskToPfx(m)
      BY <3>1, MasksAssumption DEF Byte
    <3> DEFINE L == LastOf(Bits(m), 1)
               ones == {n \in 0 .. 32 : Bits(m) = Leading(n)}
    <3>3. L \in 0 .. 32 /\ MaskToPfx(m) = IF Bits(m) = Leading(L) THEN <<L>> ELSE Throws
      BY <3>2, PfxIs
    <3>4. ASSUME NEW n \in 0 .. 32, Bits(m) = Leading(n) PROVE n = L
      BY <3>4, LeadingLast
    <3> HIDE DEF L
    <3>5. CASE Bits(m) = Leading(L)
      <4>1. ones = {L}
        BY <3>3, <3>4, <3>5
      <4>2. MaskToPfx(m) = <<L>> /\ <<L>> # Throws /\ <<L>>[1] = L
        BY <3>3, <3>5 DEF Throws
      <4>3. ones = IF MaskToPfx(m) = Throws THEN {} ELSE {MaskToPfx(m)[1]}
        BY <4>1, <4>2
      <4> QED BY <2>2, <3>2, <4>3 DEF MaskInverse, Did, Leading
    <3>6. CASE Bits(m) # Leading(L)
      <4>1. ones = {}
        BY <3>4, <3>6
      <4>2. MaskToPfx(m) = Throws
        BY <3>3, <3>6
      <4>3. ones = IF MaskToPfx(m) = Throws THEN {} ELSE {MaskToPfx(m)[1]}
        BY <4>1, <4>2
      <4> QED BY <2>2, <3>2, <4>3 DEF MaskInverse, Did, Leading
    <3> QED BY <3>5, <3>6
  <2>3. CASE ToMask /\ call'.op = "mask"
    <3>1. PICK p \in 0 .. 32 : call' = [op |-> "mask", pfx |-> p, mask |-> PfxToMask(p)]
      BY <2>3, Zenon DEF ToMask, Does
    <3>2. call'.pfx = p /\ call'.mask = PfxToMask(p)
      BY <3>1
    <3> DEFINE B == Bytes(Leading(p))
    <3>3. B \in [1 .. 4 -> Byte] /\ Bits(B) = Leading(p)
      BY LeadingIsOnes, BytesAre
    <3>4. PfxToMask(p) = B
      <4>1. "big" \in {"little", "big"} /\ B \in Seq(Byte)
        <5> HIDE DEF B
        <5> QED BY <3>3, WordIsSeq
      <4>2. PfxToMask(p) = Memory(Native, Htoe(Native, "big", B))
        BY MaskIs DEF PfxToMask
      <4> HIDE DEF B
      <4> QED BY <4>1, <4>2, StoredIs
    <3> HIDE DEF B
    <3>5. MaskToPfx(B) = <<p>>
      <4>1. LastOf(Bits(B), 1) = p
        BY <3>3, LeadingLast
      <4> QED BY <3>3, <4>1, PfxIs
    <3> QED BY <2>3, <3>2, <3>3, <3>4, <3>5 DEF MaskInverse, Did, Leading
  <2>4. CASE call'.op \notin {"pfx", "mask"}
    BY <2>4 DEF MaskInverse, Did
  <2> QED BY <2>1, <2>2, <2>3, <2>4, CallOf
<1> QED BY <1>1, <1>2, PTL DEF Spec

-----------------------------------------------------------------------------
(* Subnets *)

\* Which word is the last that a prefix reaches.
LastWord(pfx) == IF pfx = 0 THEN 0 ELSE (pfx - 1) \div 32

LEMMA LastWordIs ==
    ASSUME NEW n \in Nat \ {0}, NEW pfx \in 0 .. 32 * n
    PROVE  /\ LastWord(pfx) \in 0 .. n - 1 /\ pfx - 32 * LastWord(pfx) \in 0 .. 32
           /\ LastWord(pfx) > 0 => pfx > 32 * LastWord(pfx)
<1>1. CASE pfx = 0
  BY <1>1 DEF LastWord
<1>2. CASE pfx # 0
  <2>1. PICK d \in Nat : d = (pfx - 1) \div 32 /\ 32 * d <= pfx - 1 /\ pfx - 1 < 32 * d + 32
    <3>1. /\ (pfx - 1) \div 32 \in Nat /\ 32 * ((pfx - 1) \div 32) <= pfx - 1
          /\ pfx - 1 < 32 * ((pfx - 1) \div 32) + 32
      BY <1>2
    <3> QED BY <3>1
  <2>2. LastWord(pfx) = d
    BY <1>2, <2>1 DEF LastWord
  <2> QED BY <1>2, <2>1, <2>2
<1> QED BY <1>1, <1>2

LEMMA ReversedWord ==
    ASSUME NEW w \in [1 .. 4 -> Byte]
    PROVE  \A b \in 1 .. 4 : Reverse(w)[b] = w[4 - b + 1]
<1>1. w \in Seq(Byte) /\ Len(w) = 4
  BY WordIsSeq
<1>2. \A i \in 1 .. Len(w) : Reverse(w)[i] = w[Len(w) - i + 1]
  BY <1>1, Reversed
<1> QED BY <1>1, <1>2

\* Masking the integer of a word masks its bytes, in either byte order.
LEMMA MaskedIs ==
    ASSUME NEW w \in [1 .. 4 -> Byte], NEW m \in [1 .. 4 -> Byte]
    PROVE  LET masked == [b \in 1 .. 4 |-> AndByte(Memory(Native, w)[b], Htoe(Native, "big", m)[b])]
           IN \A b \in 1 .. 4 : Memory(Native, masked)[b] = AndByte(w[b], m[b])
<1> DEFINE masked == [b \in 1 .. 4 |-> AndByte(Memory(Native, w)[b], Htoe(Native, "big", m)[b])]
<1>1. CASE Native = "big"
  <2>1. Memory(Native, w) = w /\ Htoe(Native, "big", m) = m /\ Memory(Native, masked) = masked
    BY <1>1 DEF Memory, Htoe
  <2> QED BY <2>1
<1>2. CASE Native = "little"
  <2>1. /\ Memory(Native, w) = Reverse(w) /\ Htoe(Native, "big", m) = Reverse(m)
        /\ Memory(Native, masked) = Reverse(masked)
    BY <1>2 DEF Memory, Htoe, Bswap
  <2>2. \A b \in 1 .. 4 : b \in 1 .. 4 /\ 4 - b + 1 \in 1 .. 4 /\ 4 - (4 - b + 1) + 1 = b
    OBVIOUS
  <2>3. \A b \in 1 .. 4 : Reverse(w)[b] = w[4 - b + 1] /\ Reverse(m)[b] = m[4 - b + 1]
    BY ReversedWord
  <2>4. \A b \in 1 .. 4 : masked[b] = AndByte(w[4 - b + 1], m[4 - b + 1])
    BY <2>1, <2>3
  <2>5. masked \in [1 .. 4 -> Byte]
    <3>1. \A b \in 1 .. 4 : masked[b] \in Byte
      <4>1. \A b \in 1 .. 4 : w[4 - b + 1] \in Byte /\ m[4 - b + 1] \in Byte
        BY <2>2
      <4> HIDE DEF masked
      <4> QED BY <2>4, <4>1, AndByteIs
    <3>2. masked = [b \in 1 .. 4 |-> masked[b]]
      OBVIOUS
    <3> HIDE DEF masked
    <3> QED BY <3>1, <3>2
  <2> HIDE DEF masked
  <2>6. \A b \in 1 .. 4 : Reverse(masked)[b] = masked[4 - b + 1]
    BY <2>5, ReversedWord
  <2>7. ASSUME NEW b \in 1 .. 4 PROVE Memory(Native, masked)[b] = AndByte(w[b], m[b])
    <3>1. PICK c \in 1 .. 4 : c = 4 - b + 1 /\ 4 - c + 1 = b
      BY <2>2
    <3>2. Memory(Native, masked)[b] = masked[c] /\ masked[c] = AndByte(w[4 - c + 1], m[4 - c + 1])
      BY <2>1, <2>4, <2>6, <3>1
    <3> QED BY <3>1, <3>2
  <2> QED BY <2>7 DEF masked
<1> QED BY <1>1, <1>2, NativeAssumption

\* The words of an address.
LEMMA MemWordIs ==
    ASSUME NEW n \in Nat, NEW a \in [1 .. 4 * n -> Byte], NEW i \in 0 .. n - 1
    PROVE  /\ MemWord(a, i) \in [1 .. 4 -> Byte]
           /\ \A b \in 1 .. 4 : MemWord(a, i)[b] = a[4 * i + b]
<1>1. PICK l \in Int, h \in Int : l = 4 * i + 1 /\ h = 4 * i + 4
  OBVIOUS
<1>2. \A k \in l .. h : a[k] \in Byte
  <2>1. \A k \in l .. h : k \in 1 .. 4 * n
    BY <1>1
  <2> QED BY <2>1
<1> DEFINE w == SubSeq(a, l, h)
<1>3. /\ w \in Seq(Byte) /\ Len(w) = (IF l <= h THEN h - l + 1 ELSE 0)
      /\ \A b \in 1 .. h - l + 1 : w[b] = a[l + b - 1]
  BY <1>2, SubSeqProperties
<1>4. MemWord(a, i) = w
  BY <1>1 DEF MemWord
<1> HIDE DEF w
<1>5. /\ (IF l <= h THEN h - l + 1 ELSE 0) = 4 /\ h - l + 1 = 4
      /\ \A b \in 1 .. 4 : l + b - 1 = 4 * i + b
  BY <1>1
<1>6. w \in Seq(Byte) /\ Len(w) = 4 /\ \A b \in 1 .. 4 : w[b] = a[4 * i + b]
  BY <1>3, <1>5
<1>7. w \in [1 .. 4 -> Byte]
  BY <1>6
<1> QED BY <1>4, <1>6, <1>7

\* The bytes of a network.
LEMMA NetBytes ==
    ASSUME NEW n \in Nat \ {0}, NEW a \in [1 .. 4 * n -> Byte], NEW pfx \in 0 .. 32 * n
    PROVE  LET last == LastWord(pfx)
               mask == Bytes(Leading(pfx - 32 * last))
               net == AddrToSubnet(a, pfx)
           IN /\ DOMAIN net = 1 .. 4 * n
              /\ \A i \in 0 .. n - 1, b \in 1 .. 4 :
                     net[4 * i + b] = IF i < last THEN a[4 * i + b]
                                      ELSE IF i = last THEN AndByte(a[4 * i + b], mask[b])
                                      ELSE 0
<1> DEFINE last == LastWord(pfx)
           mask == Bytes(Leading(pfx - 32 * last))
           word == IntWord(a, last)
           host == Addr32Mask(pfx - 32 * last)
           masked == [b \in 1 .. 4 |-> AndByte(word[b], host[b])]
           OutWord(i) == IF i < last THEN MemWord(a, i)
                         ELSE IF i = last THEN Memory(Native, masked) ELSE <<0, 0, 0, 0>>
           net == AddrToSubnet(a, pfx)
<1>1. net = [k \in DOMAIN a |-> OutWord((k - 1) \div 4)[((k - 1) % 4) + 1]]
  BY Zenon DEF AddrToSubnet, LastWord
<1>2. DOMAIN a = 1 .. 4 * n
  OBVIOUS
<1>3. last \in 0 .. n - 1 /\ pfx - 32 * last \in 0 .. 32
  BY LastWordIs
<1> HIDE DEF last
<1>4. mask \in [1 .. 4 -> Byte]
  BY <1>3, LeadingIsOnes, BytesAre
<1>5. host = Htoe(Native, "big", mask)
  BY <1>3, MaskIs
<1>6. /\ MemWord(a, last) \in [1 .. 4 -> Byte]
      /\ \A b \in 1 .. 4 : MemWord(a, last)[b] = a[4 * last + b]
  BY <1>3, MemWordIs
<1>7. masked = [b \in 1 .. 4 |-> AndByte(Memory(Native, MemWord(a, last))[b],
                                         Htoe(Native, "big", mask)[b])]
  BY <1>5, Zenon DEF IntWord
<1> HIDE DEF mask, masked, host
<1>8. \A b \in 1 .. 4 : Memory(Native, masked)[b] = AndByte(MemWord(a, last)[b], mask[b])
  BY <1>4, <1>6, <1>7, MaskedIs
<1>9. ASSUME NEW i \in 0 .. n - 1, NEW b \in 1 .. 4
      PROVE  OutWord(i)[b] = IF i < last THEN a[4 * i + b]
                             ELSE IF i = last THEN AndByte(a[4 * i + b], mask[b]) ELSE 0
  <2>1. CASE i < last
    <3>1. OutWord(i) = MemWord(a, i)
      BY <2>1
    <3> QED BY <2>1, <3>1, MemWordIs
  <2>2. CASE i = last
    <3>1. OutWord(i) = Memory(Native, masked)
      BY <1>3, <2>2
    <3> QED BY <1>3, <1>6, <1>8, <2>2, <3>1
  <2>3. CASE ~(i < last) /\ i # last
    <3>1. OutWord(i) = <<0, 0, 0, 0>>
      BY <2>3
    <3>2. <<0, 0, 0, 0>>[b] = 0
      OBVIOUS
    <3> QED BY <2>3, <3>1, <3>2
  <2> QED BY <2>1, <2>2, <2>3
<1> HIDE DEF OutWord, net
<1>10. ASSUME NEW i \in 0 .. n - 1, NEW b \in 1 .. 4 PROVE net[4 * i + b] = OutWord(i)[b]
  <2>1. PICK k \in 1 .. 4 * n : k = 4 * i + b /\ (k - 1) \div 4 = i /\ ((k - 1) % 4) + 1 = b
    <3>1. /\ 4 * i + b \in 1 .. 4 * n /\ (4 * i + b - 1) \div 4 = i
          /\ ((4 * i + b - 1) % 4) + 1 = b
      OBVIOUS
    <3> QED BY <3>1
  <2>2. net[k] = OutWord((k - 1) \div 4)[((k - 1) % 4) + 1]
    BY <1>1, <1>2, Zenon
  <2> QED BY <2>1, <2>2, Zenon
<1>11. DOMAIN net = 1 .. 4 * n
  BY <1>1, <1>2
<1>12. \A i \in 0 .. n - 1, b \in 1 .. 4 :
           net[4 * i + b] = IF i < last THEN a[4 * i + b]
                            ELSE IF i = last THEN AndByte(a[4 * i + b], mask[b]) ELSE 0
  BY <1>9, <1>10
<1> QED BY <1>11, <1>12 DEF net, last, mask

LEMMA ZeroBits ==
    ASSUME NEW q \in 1 .. 8
    PROVE  BitAt(0, q) = 0
<1>1. q \in {1, 2, 3, 4, 5, 6, 7, 8}
  OBVIOUS
<1>2. PICK w \in Nat \ {0} : w = Weights[q]
  <2>1. Weights[q] \in Nat \ {0}
    BY <1>1, WeightsAre
  <2> QED BY <2>1
<1>3. 0 \div w = 0
  OBVIOUS
<1> QED BY <1>2, <1>3 DEF BitAt

\* A network has the first bits of its address and then zeros.
LEMMA NetBits ==
    ASSUME NEW n \in Nat \ {0}, NEW a \in [1 .. 4 * n -> Byte], NEW pfx \in 0 .. 32 * n
    PROVE  /\ AddrToSubnet(a, pfx) \in [1 .. 4 * n -> Byte]
           /\ \A k \in 1 .. 32 * n :
                  Bits(AddrToSubnet(a, pfx))[k] = IF k <= pfx THEN Bits(a)[k] ELSE 0
<1> DEFINE last == LastWord(pfx)
           p == pfx - 32 * last
           mask == Bytes(Leading(p))
           net == AddrToSubnet(a, pfx)
<1>1. /\ DOMAIN net = 1 .. 4 * n
      /\ \A i \in 0 .. n - 1, b \in 1 .. 4 :
             net[4 * i + b] = IF i < last THEN a[4 * i + b]
                              ELSE IF i = last THEN AndByte(a[4 * i + b], mask[b]) ELSE 0
  BY NetBytes
<1>2. net = [j \in 1 .. 4 * n |-> net[j]]
  <2>1. net = [k \in DOMAIN net |-> net[k]]
    BY Zenon DEF AddrToSubnet
  <2> QED BY <1>1, <2>1, Zenon
<1>3. last \in 0 .. n - 1 /\ p \in 0 .. 32 /\ pfx = 32 * last + p /\ (last > 0 => p > 0)
  <2>1. last \in 0 .. n - 1 /\ p \in 0 .. 32 /\ (last > 0 => pfx > 32 * last)
    BY LastWordIs
  <2> HIDE DEF last
  <2> QED BY <2>1
<1> HIDE DEF last, p, net
<1>4. /\ mask \in [1 .. 4 -> Byte]
      /\ \A b \in 1 .. 4, q \in 1 .. 8 :
             BitAt(mask[b], q) = IF 8 * (b - 1) + q <= p THEN 1 ELSE 0
  <2>1. /\ Leading(p) \in [1 .. 32 -> Bit]
        /\ \A k \in 1 .. 32 : Leading(p)[k] = IF k <= p THEN 1 ELSE 0
    BY <1>3, LeadingIsOnes
  <2>2. /\ mask \in [1 .. 4 -> Byte]
        /\ \A b \in 1 .. 4, q \in 1 .. 8 : BitAt(mask[b], q) = Leading(p)[8 * (b - 1) + q]
    BY <2>1, BytesAre
  <2>3. \A b \in 1 .. 4, q \in 1 .. 8 : 8 * (b - 1) + q \in 1 .. 32
    OBVIOUS
  <2> HIDE DEF mask
  <2> QED BY <2>1, <2>2, <2>3
<1> HIDE DEF mask
<1>5. ASSUME NEW j \in 1 .. 4 * n
      PROVE  \E i \in 0 .. n - 1, b \in 1 .. 4 : j = 4 * i + b
  <2>1. /\ (j - 1) \div 4 \in 0 .. n - 1 /\ ((j - 1) % 4) + 1 \in 1 .. 4
        /\ j = 4 * ((j - 1) \div 4) + (((j - 1) % 4) + 1)
    OBVIOUS
  <2> QED BY <2>1
\* The bits of each byte
<1>6. ASSUME NEW i \in 0 .. n - 1, NEW b \in 1 .. 4
      PROVE  /\ 4 * i + b \in 1 .. 4 * n /\ net[4 * i + b] \in Byte
             /\ \A q \in 1 .. 8 :
                    BitAt(net[4 * i + b], q) =
                        IF 32 * i + 8 * (b - 1) + q <= pfx THEN BitAt(a[4 * i + b], q) ELSE 0
  <2>1. PICK j \in 1 .. 4 * n : j = 4 * i + b
    OBVIOUS
  <2>2. a[j] \in Byte /\ mask[b] \in Byte
    BY <1>4
  <2>3. \A q \in 1 .. 8 : BitAt(a[j], q) \in {0, 1}
    BY <2>2, BitAtIs DEF Bit
  <2>4. net[j] = IF i < last THEN a[j] ELSE IF i = last THEN AndByte(a[j], mask[b]) ELSE 0
    BY <1>1, <2>1
  <2>5. CASE i < last
    <3>1. net[j] = a[j]
      BY <2>4, <2>5
    <3>2. \A q \in 1 .. 8 : 32 * i + 8 * (b - 1) + q <= pfx
      BY <1>3, <2>5
    <3> QED BY <2>1, <2>2, <3>1, <3>2
  <2>6. CASE i = last
    <3>1. net[j] = AndByte(a[j], mask[b])
      BY <1>3, <2>4, <2>6
    <3>2. /\ net[j] \in Byte
          /\ \A q \in 1 .. 8 : BitAt(net[j], q) = BitAt(a[j], q) * BitAt(mask[b], q)
      BY <2>2, <3>1, AndByteIs
    <3>3. ASSUME NEW q \in 1 .. 8
          PROVE  BitAt(net[j], q) = IF 32 * i + 8 * (b - 1) + q <= pfx THEN BitAt(a[j], q) ELSE 0
      <4>1. 32 * i + 8 * (b - 1) + q <= pfx <=> 8 * (b - 1) + q <= p
        BY <1>3, <2>6
      <4>2. BitAt(net[j], q) = BitAt(a[j], q) * (IF 8 * (b - 1) + q <= p THEN 1 ELSE 0)
        BY <1>4, <3>2
      <4> QED BY <2>3, <4>1, <4>2
    <3> QED BY <2>1, <3>2, <3>3
  <2>7. CASE i > last
    <3>1. net[j] = 0
      BY <1>3, <2>4, <2>7
    <3>2. 0 \in Byte /\ \A q \in 1 .. 8 : BitAt(0, q) = 0
      BY ZeroBits DEF Byte
    <3>3. \A q \in 1 .. 8 : ~(32 * i + 8 * (b - 1) + q <= pfx)
      BY <1>3, <2>7
    <3> QED BY <2>1, <3>1, <3>2, <3>3
  <2> QED BY <1>3, <2>5, <2>6, <2>7
<1>7. net \in [1 .. 4 * n -> Byte]
  <2>1. \A j \in 1 .. 4 * n : net[j] \in Byte
    BY <1>5, <1>6
  <2> QED BY <1>2, <2>1
<1>8. ASSUME NEW k \in 1 .. 32 * n
      PROVE  Bits(net)[k] = IF k <= pfx THEN Bits(a)[k] ELSE 0
  <2>1. PICK m \in Nat : m = 4 * n /\ 8 * m = 32 * n
    OBVIOUS
  <2>2. PICK j \in 1 .. m, q \in 1 .. 8 : k = 8 * (j - 1) + q
    <3>1. k \in 1 .. 8 * m
      BY <2>1
    <3> QED BY <3>1, PlaceExists
  <2>3. Bits(net)[k] = BitAt(net[j], q) /\ Bits(a)[k] = BitAt(a[j], q)
    <3>1. net \in [1 .. m -> Byte] /\ a \in [1 .. m -> Byte]
      BY <1>7, <2>1
    <3> QED BY <2>2, <3>1, BitsAre
  <2>4. PICK i \in 0 .. n - 1, b \in 1 .. 4 : j = 4 * i + b
    BY <1>5, <2>1
  <2>5. 32 * i + 8 * (b - 1) + q = k
    BY <2>2, <2>4
  <2>6. BitAt(net[j], q) = IF 32 * i + 8 * (b - 1) + q <= pfx THEN BitAt(a[j], q) ELSE 0
    BY <1>6, <2>4
  <2> QED BY <2>3, <2>5, <2>6
<1> QED BY <1>7, <1>8 DEF net

\* The bits of an address as a sequence, its first ones, and those with
\* zeros behind them.
LEMMA FirstBits ==
    ASSUME NEW n \in Nat \ {0}, NEW a \in [1 .. 4 * n -> Byte], NEW pfx \in 0 .. 32 * n
    PROVE  /\ Len(a) = 4 * n /\ Bits(a) \in Seq(Nat) /\ Len(Bits(a)) = 32 * n
           /\ Bits(AddrToSubnet(a, pfx)) = SubSeq(Bits(a), 1, pfx) \o None(32 * n - pfx)
<1> DEFINE net == AddrToSubnet(a, pfx)
           x == Bits(a)
           y == Bits(net)
           s == SubSeq(x, 1, pfx)
           t == None(32 * n - pfx)
<1>1. PICK m \in Nat, w \in Nat, r \in Nat :
        m = 4 * n /\ w = 32 * n /\ 8 * m = w /\ r = w - pfx /\ pfx + r = w
  <2>1. /\ 4 * n \in Nat /\ 32 * n \in Nat /\ 32 * n - pfx \in Nat
        /\ 8 * (4 * n) = 32 * n /\ pfx + (32 * n - pfx) = 32 * n
    OBVIOUS
  <2> QED BY <2>1, Zenon
<1>2. net \in [1 .. m -> Byte] /\ \A k \in 1 .. w : y[k] = IF k <= pfx THEN x[k] ELSE 0
  BY <1>1, NetBits
<1> HIDE DEF net
<1>3. Len(a) = 4 * n
  <2>1. a \in [1 .. m -> Byte]
    BY <1>1
  <2> QED BY <1>1, <2>1, FunctionIsSeq
<1>4. /\ x \in [1 .. w -> Bit] /\ Len(x) = w
      /\ y \in [1 .. w -> Bit] /\ Len(y) = w
  <2>1. a \in [1 .. m -> Byte]
    BY <1>1
  <2>2. x \in [1 .. 8 * m -> Bit] /\ Len(x) = 8 * m
    BY <2>1, BitsAre
  <2>3. y \in [1 .. 8 * m -> Bit] /\ Len(y) = 8 * m
    BY <1>2, BitsAre
  <2> QED BY <1>1, <2>2, <2>3
<1> HIDE DEF x, y
<1>5. x \in Seq(Nat) /\ y \in Seq(Nat)
  <2>1. x \in [1 .. w -> Nat] /\ y \in [1 .. w -> Nat]
    BY <1>4 DEF Bit
  <2> QED BY <2>1, FunctionIsSeq
<1>6. s \in Seq(Nat) /\ Len(s) = pfx /\ \A k \in 1 .. pfx : s[k] = x[k]
  <2>1. pfx \in 0 .. Len(x)
    BY <1>1, <1>4
  <2> QED BY <1>5, <2>1, FrontIs
<1>7. t \in Seq(Nat) /\ Len(t) = r /\ \A k \in 1 .. r : t[k] = 0
  <2>1. t = [k \in 1 .. r |-> 0]
    BY <1>1 DEF None
  <2>2. t \in [1 .. r -> Nat]
    BY <2>1
  <2> QED BY <2>1, <2>2, FunctionIsSeq
<1> HIDE DEF s, t
<1>8. /\ s \o t \in Seq(Nat) /\ Len(s \o t) = pfx + r
      /\ \A k \in 1 .. pfx + r : (s \o t)[k] = IF k <= pfx THEN s[k] ELSE t[k - pfx]
  <2>1. /\ s \o t \in Seq(Nat) /\ Len(s \o t) = Len(s) + Len(t)
        /\ \A k \in 1 .. Len(s) + Len(t) :
               (s \o t)[k] = IF k <= Len(s) THEN s[k] ELSE t[k - Len(s)]
    BY <1>6, <1>7, ConcatProperties
  <2>2. Len(s) = pfx /\ Len(t) = r
    BY <1>6, <1>7, Zenon
  <2> QED BY <2>1, <2>2, Zenon
<1>9. ASSUME NEW k \in 1 .. w PROVE y[k] = (s \o t)[k]
  <2>1. CASE k <= pfx
    <3>1. k \in 1 .. pfx
      BY <2>1
    <3> QED BY <1>1, <1>2, <1>6, <1>8, <2>1, <3>1
  <2>2. CASE ~(k <= pfx)
    <3>1. k - pfx \in 1 .. r
      BY <1>1, <2>2
    <3> QED BY <1>1, <1>2, <1>7, <1>8, <2>2, <3>1
  <2> QED BY <2>1, <2>2
<1>10. y = s \o t
  BY <1>1, <1>4, <1>5, <1>8, <1>9, SeqEqual
<1>11. x \in Seq(Nat) /\ Len(x) = 32 * n
  BY <1>1, <1>4, <1>5
<1> QED BY <1>3, <1>10, <1>11 DEF x, y, s, t, net

\* Two networks are the same exactly when the first bits are.
LEMMA SameNet ==
    ASSUME NEW n \in Nat \ {0}, NEW a \in [1 .. 4 * n -> Byte], NEW c \in [1 .. 4 * n -> Byte],
           NEW pfx \in 0 .. 32 * n
    PROVE  AddrToSubnet(a, pfx) = AddrToSubnet(c, pfx)
               <=> SubSeq(Bits(a), 1, pfx) = SubSeq(Bits(c), 1, pfx)
<1> DEFINE l == AddrToSubnet(a, pfx)
           r == AddrToSubnet(c, pfx)
           x == Bits(a)
           y == Bits(c)
<1>1. /\ l \in [1 .. 4 * n -> Byte]
      /\ \A k \in 1 .. 32 * n : Bits(l)[k] = IF k <= pfx THEN x[k] ELSE 0
      /\ r \in [1 .. 4 * n -> Byte]
      /\ \A k \in 1 .. 32 * n : Bits(r)[k] = IF k <= pfx THEN y[k] ELSE 0
  BY NetBits
<1>2. x \in Seq(Nat) /\ Len(x) = 32 * n /\ y \in Seq(Nat) /\ Len(y) = 32 * n
  BY FirstBits
<1> HIDE DEF l, r, x, y
<1>3. SubSeq(x, 1, pfx) = SubSeq(y, 1, pfx) <=> \A k \in 1 .. pfx : x[k] = y[k]
  <2>1. pfx \in Nat /\ pfx <= Len(x) /\ pfx <= Len(y)
    BY <1>2
  <2> QED BY <1>2, <2>1, FrontsEqual
<1>4. \A k \in 1 .. pfx : k \in 1 .. 32 * n /\ k <= pfx
  OBVIOUS
<1>5. ASSUME l = r PROVE \A k \in 1 .. pfx : x[k] = y[k]
  BY <1>1, <1>4, <1>5
<1>6. ASSUME \A k \in 1 .. pfx : x[k] = y[k] PROVE l = r
  <2>1. PICK m \in Nat : m = 4 * n /\ 8 * m = 32 * n
    OBVIOUS
  <2>2. \A k \in 1 .. 32 * n : k <= pfx => k \in 1 .. pfx
    OBVIOUS
  <2>3. \A k \in 1 .. 32 * n : Bits(l)[k] = Bits(r)[k]
    BY <1>1, <1>6, <2>2
  <2>4. /\ l \in [1 .. m -> Byte] /\ r \in [1 .. m -> Byte]
        /\ \A k \in 1 .. 8 * m : Bits(l)[k] = Bits(r)[k]
    BY <1>1, <2>1, <2>3
  <2> QED BY <2>4, BitsEqual
<1>7. l = r <=> SubSeq(x, 1, pfx) = SubSeq(y, 1, pfx)
  BY <1>3, <1>5, <1>6
<1> QED BY <1>7 DEF l, r, x, y

LEMMA AddrWords ==
    ASSUME NEW a \in Addrs
    PROVE  \E n \in Nat \ {0} : a \in [1 .. 4 * n -> Byte] /\ Len(a) = 4 * n
<1>1. CASE a \in [1 .. 4 -> 0 .. 255]
  <2>1. 1 \in Nat \ {0} /\ 4 * 1 = 4 /\ 4 \in Nat
    OBVIOUS
  <2>2. a \in [1 .. 4 -> Byte] /\ Len(a) = 4
    BY <1>1, <2>1, FunctionIsSeq DEF Byte
  <2> QED BY <2>1, <2>2
<1>2. CASE a \in [1 .. 16 -> 0 .. 255]
  <2>1. 4 \in Nat \ {0} /\ 4 * 4 = 16 /\ 16 \in Nat
    OBVIOUS
  <2>2. a \in [1 .. 16 -> Byte] /\ Len(a) = 16
    BY <1>2, <2>1, FunctionIsSeq DEF Byte
  <2> QED BY <2>1, <2>2
<1> QED BY <1>1, <1>2 DEF Addrs

\* A subnet contains exactly the addresses of its family that agree with its
\* own in as many first bits as its prefix says, its network has those bits
\* and no others, and no subnet has more bits than its address.
THEOREM SubnetsExact == Spec => []SubnetBits
<1>1. Init => SubnetBits
  BY DEF Init, SubnetBits, Did, Idle
<1>2. SubnetBits /\ [Next]_call => SubnetBits'
  <2> SUFFICES ASSUME SubnetBits, [Next]_call PROVE SubnetBits'
    OBVIOUS
  <2>1. CASE UNCHANGED call
    BY <2>1 DEF SubnetBits, Did
  <2>2. CASE InSubnet /\ call'.op = "contains"
    <3>1. PICK a \in Values("inany"), pfx \in 0 .. 128 :
            \E other \in Nearby(a) \cup Values("inany") :
                /\ pfx <= 8 * Len(a)
                /\ call' = [op |-> "contains", addr |-> a, other |-> other, pfx |-> pfx,
                            ret |-> SubnetContains(a, other, pfx), net |-> AddrToSubnet(a, pfx)]
      BY <2>2, Zenon DEF InSubnet, Does
    <3>2. PICK other \in Nearby(a) \cup Values("inany") :
            /\ pfx <= 8 * Len(a)
            /\ call' = [op |-> "contains", addr |-> a, other |-> other, pfx |-> pfx,
                        ret |-> SubnetContains(a, other, pfx), net |-> AddrToSubnet(a, pfx)]
      BY <3>1, Zenon
    <3>3. a \in Addrs /\ other \in Addrs
      BY <3>1, <3>2, AddrsAssumption
    <3> DEFINE own == Bits(a)
               others == Bits(other)
               ret == SubnetContains(a, other, pfx)
               net == AddrToSubnet(a, pfx)
    <3>4. PICK n \in Nat \ {0} : a \in [1 .. 4 * n -> Byte] /\ Len(a) = 4 * n
      BY <3>3, AddrWords
    <3>5. pfx \in 0 .. 32 * n
      BY <3>1, <3>2, <3>4
    <3>6. /\ own \in Seq(Nat) /\ Len(own) = 32 * n
          /\ Bits(net) = SubSeq(own, 1, pfx) \o None(Len(own) - pfx)
      <4>1. /\ own \in Seq(Nat) /\ Len(own) = 32 * n
            /\ Bits(net) = SubSeq(own, 1, pfx) \o None(32 * n - pfx)
        BY <3>4, <3>5, FirstBits
      <4> HIDE DEF own, net
      <4> QED BY <4>1
    <3>7. ret <=> Len(own) = Len(others) /\ SubSeq(own, 1, pfx) = SubSeq(others, 1, pfx)
      <4>1. PICK m \in Nat \ {0} : other \in [1 .. 4 * m -> Byte] /\ Len(other) = 4 * m
        BY <3>3, AddrWords
      <4>2. Len(others) = 32 * m
        <5>1. 0 \in 0 .. 32 * m
          OBVIOUS
        <5> QED BY <4>1, <5>1, FirstBits
      <4>3. CASE n = m
        <5>1. AddrToSubnet(a, pfx) = AddrToSubnet(other, pfx)
                  <=> SubSeq(own, 1, pfx) = SubSeq(others, 1, pfx)
          BY <3>4, <3>5, <4>1, <4>3, SameNet
        <5> QED BY <3>4, <3>6, <4>1, <4>2, <4>3, <5>1 DEF SubnetContains
      <4>4. CASE n # m
        <5>1. Len(own) # Len(others) /\ Len(a) # Len(other)
          <6> HIDE DEF own, others
          <6> QED BY <3>4, <3>6, <4>1, <4>2, <4>4
        <5> QED BY <5>1 DEF SubnetContains
      <4> QED BY <4>3, <4>4
    <3>8. /\ call'.addr = a /\ call'.other = other /\ call'.pfx = pfx
          /\ call'.ret = ret /\ call'.net = net
      <4> HIDE DEF ret, net
      <4>1. call' = [op |-> "contains", addr |-> a, other |-> other, pfx |-> pfx,
                     ret |-> ret, net |-> net]
        BY <3>2 DEF ret, net
      <4> QED BY <4>1
    <3> HIDE DEF ret, net
    <3> QED BY <2>2, <3>6, <3>7, <3>8, Zenon DEF SubnetBits, Did
  <2>3. CASE MakeSubnet /\ call'.op = "subnet"
    <3>1. PICK a \in Values("inany"), pfx \in 0 .. 255 :
            call' = [op |-> "subnet", addr |-> a, pfx |-> pfx, ret |-> Subnet(a, pfx)]
      BY <2>3, Zenon DEF MakeSubnet, Does
    <3>2. call'.addr = a /\ call'.pfx = pfx /\ call'.ret = Subnet(a, pfx) /\ a \in Addrs
      BY <3>1, AddrsAssumption
    <3>3. PICK n \in Nat \ {0} : Len(a) = 4 * n
      BY <3>2, AddrWords
    <3>4. pfx \in 0 .. 8 * Len(a) <=> ~(8 * Len(a) < pfx)
      BY <3>1, <3>3
    <3>5. Subnet(a, pfx) = IF pfx \in 0 .. 8 * Len(a)
                           THEN <<[addr |-> a, pfx |-> pfx]>> ELSE Throws
      BY <3>4 DEF Subnet
    <3> QED BY <2>3, <3>2, <3>5 DEF SubnetBits, Did
  <2>4. CASE call'.op \notin {"contains", "subnet"}
    BY <2>4 DEF SubnetBits, Did
  <2> QED BY <2>1, <2>2, <2>3, <2>4, CallOf
<1> QED BY <1>1, <1>2, PTL DEF Spec

=================================================================================
