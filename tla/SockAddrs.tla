------------------------------- MODULE SockAddrs -------------------------------
(***************************************************************************)
(* Socket addresses of net/addr/sock.hpp, as values, as what the kernel is *)
(* given (SockAddrBuf) and as texts.  SockInAddr is a Sock4Addr or a       *)
(* Sock6Addr, SockAnyAddr may also be a SockUAddr; fam tells which.        *)
(*                                                                         *)
(* The characters of a path are tokens like those of a text; Nul is the    *)
(* character 0, and Unset a byte that was never written.                   *)
(***************************************************************************)
EXTENDS NetAddrs

CONSTANT SunPath \* the size of sun_path

ASSUME SunPathAssumption == SunPath \in Nat \ {0}

Nul == 0
At == -8
Unset == -9

Sock4(a, port) == [fam |-> "inet", addr |-> a, port |-> port]
Sock6(a, port, scope) == [fam |-> "inet6", addr |-> a, port |-> port, scope |-> scope]
SockU(path) == [fam |-> "unix", path |-> path]

PortBytes(port) == Stored(<<port \div 256, port % 256>>)
PortOf(b) == NumberOf(Htoe(Native, "big", Memory(Native, b)))

-----------------------------------------------------------------------------
\* Fault: the terminator of a path is not allowed for.
SockUAddrFull(path) ==
    IF path = <<>> THEN <<SockU(<<>>)>>
    ELSE LET abstract == path[1] \in {At, Nul}
         IN IF Len(path) > SunPath \/ (~abstract /\ Find(path, Nul) > 0) THEN Throws
            ELSE <<SockU([path EXCEPT ![1] = IF abstract THEN At ELSE @])>>

\* SockUAddr(path): abstract names have no terminator and begin with @.
SockUAddr(path) ==
    IF path = <<>> THEN <<SockU(<<>>)>>
    ELSE LET abstract == path[1] \in {At, Nul}
         IN IF Len(path) >= SunPath + (IF abstract THEN 1 ELSE 0) THEN Throws
            ELSE IF ~abstract /\ Find(path, Nul) > 0 THEN Throws
            ELSE <<SockU([path EXCEPT ![1] = IF abstract THEN At ELSE @])>>

\* SockUAddr(SockAddrUnsafe, path): what the kernel returned, where paths end
\* with a terminator.
SockUAddrUnsafe(path) ==
    IF path = <<>> THEN SockU(<<>>)
    ELSE LET abstract == path[1] = Nul
             len == Len(path) - (IF abstract THEN 0 ELSE 1)
         IN SockU(SubSeq([path EXCEPT ![1] = IF abstract THEN At ELSE @], 1, len))

\* SockUAddr::fill: sun_path and the byte behind it, which in a SockAddrBuf is
\* still the storage's.  It ends abstract names, one that fills sun_path with a
\* nul in that byte, and leaves the terminator of a path as it was.
Fill(path) ==
    LET len == Len(path)
        abstract == len > 0 /\ path[1] = At
    IN [k \in 1 .. SunPath + 1 |->
           IF k = 1 THEN IF abstract \/ len = 0 THEN Nul ELSE path[1]
           ELSE IF k <= len THEN path[k]
           ELSE IF abstract /\ k = len + 1 THEN Nul ELSE Unset]

\* For an empty path fill() copies a range that ends before it begins, which is
\* undefined: it copies nothing, as Fill does, or the program crashes.
CopiesBackwards(a) == a.fam = "unix" /\ Len(a.path) < 1

\* sockaddr() and buf() of each type, with sockaddrLen() in len
Sock4Buf(a) ==
    [fam |-> "inet", len |-> 16, port |-> PortBytes(a.port), addr |-> a.addr]

Sock6Buf(a) ==
    [fam |-> "inet6", len |-> 28, port |-> PortBytes(a.port), addr |-> a.addr,
     scope |-> a.scope]

SockUBuf(a) ==
    LET named == Len(a.path) > 0 /\ a.path[1] # At
    IN [fam |-> "unix", len |-> 2 + Len(a.path) + (IF named THEN 1 ELSE 0),
        path |-> Fill(a.path)]

\* SockAnyAddr::buf
Buf(a) ==
    CASE a.fam = "inet" -> Sock4Buf(a)
      [] a.fam = "inet6" -> Sock6Buf(a)
      [] a.fam = "unix" -> SockUBuf(a)

\* fromBuf of each type, of a buffer of its family
Sock4FromBuf(buf) ==
    IF buf.len # 16 THEN Throws ELSE <<Sock4(buf.addr, PortOf(buf.port))>>

Sock6FromBuf(buf) ==
    IF buf.len # 28 THEN Throws
    ELSE <<Sock6(buf.addr, PortOf(buf.port), buf.scope)>>

SockUFromBuf(buf) ==
    IF buf.len < 2 THEN Throws
    ELSE <<SockUAddrUnsafe(SubSeq(buf.path, 1, buf.len - 2))>>

\* Fault: the terminator is kept in the path.
FromBufWhole(fams, buf) ==
    IF buf.fam \in fams /\ buf.fam = "unix"
    THEN <<SockU(SubSeq(buf.path, 1, buf.len - 2))>> ELSE Throws

\* fromBuf of the type that holds the families fams.
FromBuf(fams, buf) ==
    IF buf.fam \notin fams THEN Throws
    ELSE CASE buf.fam = "inet" -> Sock4FromBuf(buf)
           [] buf.fam = "inet6" -> Sock6FromBuf(buf)
           [] buf.fam = "unix" -> SockUFromBuf(buf)

-----------------------------------------------------------------------------
\* FromStr<Sock4Addr>
Sock4Of(a, port) ==
    IF a = Throws \/ port = Throws THEN Throws ELSE <<Sock4(a[1], port[1])>>

Sock4FromStr(s) ==
    LET pos == RFind(s, Colon)
    IN IF pos = 0 THEN Throws
       ELSE Sock4Of(In4FromStr(Before(s, pos)), Word(After(s, pos), 65535))

\* FromStr<Sock6Addr>: the address is in brackets.
Sock6Of(a, port) ==
    IF a = Throws \/ port = Throws THEN Throws ELSE <<Sock6(a[1], port[1], 0)>>

Sock6FromStr(s) ==
    LET pos == RFind(s, Colon)
        bracketed == pos > 1 /\ s[1] = Open /\ s[pos - 1] = Close
    IN IF ~bracketed THEN Throws
       ELSE Sock6Of(In6FromStr(SubSeq(s, 2, pos - 2)), Word(After(s, pos), 65535))

\* FromStr<SockUAddr>; Unix is the prefix unix: of a text.
SockUFromStr(s) == SockUAddr(IF IsPrefix(<<Unix>>, s) THEN Tail(s) ELSE s)

\* FromStr<SockInAddr>, FromStr<SockAnyAddr>
SockInFromStr(s) == IF IsPrefix(<<Open>>, s) THEN Sock6FromStr(s) ELSE Sock4FromStr(s)
SockAnyFromStr(s) == IF IsPrefix(<<Unix>>, s) THEN SockUFromStr(s) ELSE SockInFromStr(s)

\* ToStr of each type; the scope of a Sock6Addr is left out.
Sock4ToStr(a) == In4ToStr(a.addr) \o <<Colon, a.port>>
Sock6ToStr(a) == <<Open>> \o In6ToStr(a.addr) \o <<Close, Colon, a.port>>
SockUToStr(a) == <<Unix>> \o a.path

\* ToStr<SockInAddr>, ToStr<SockAnyAddr>
SockToStr(a) ==
    CASE a.fam = "inet" -> Sock4ToStr(a)
      [] a.fam = "inet6" -> Sock6ToStr(a)
      [] a.fam = "unix" -> SockUToStr(a)

===============================================================================
