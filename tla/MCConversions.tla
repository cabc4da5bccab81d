----------------------------- MODULE MCConversions -----------------------------
\* Small instances of Conversions for TLC.  With PtrBits = 8, types of 4 and 6
\* bits have a wider carrier and one of 8 is its own.
EXTENDS Conversions

MCIntTypes == [bits : {4, 6, 8}, signed : BOOLEAN]

\* Texts of at most n of these characters
Upto(chars, n) == UNION {[1 .. k -> chars] : k \in 0 .. n}

\* Digits around what the types hold, with a sign, a prefix or a character
\* that is no digit
MCNumerals(base) ==
    LET plain == CASE base = 2 -> Upto({0, 1}, 9)
                   [] base = 3 -> Upto({0, 1, 2}, 6)
                   [] base = 36 -> Upto({0, 3, 4, 7, 8, 35}, 3)
                   [] base = 16 -> Upto({0, 1, 7, 8, 15}, 3)
                   [] base \in {0, 10} -> Upto({0, 1, 2, 3, 5, 6, 8}, 3) \cup Upto({0, 2, 5, 6}, 4)
        odd == Upto({0, 1, base, Minus, Other, 33}, 3)
        hex == {<<0, 33>> \o s : s \in Upto({0, 1, 7, 8, 15}, 3)}
        all == plain \cup odd \cup hex
    IN all \cup {<<Minus>> \o s : s \in all}

MCDurations == -25 .. 200

-----------------------------------------------------------------------------
In4s == {<<0, 0, 0, 0>>, <<192, 168, 1, 2>>, <<255, 255, 255, 255>>}
Ethers == {<<0, 1, 127, 128, 254, 255>>, <<0, 0, 0, 0, 0, 0>>}

\* Every way to have zeros, and addresses whose octets are all different
In6Of(h) == FlattenSeq([k \in 1 .. 8 |-> <<h[k] \div 256, h[k] % 256>>])
Sparse == {In6Of(h) : h \in [1 .. 8 -> {0, 65535}]}
In6s == {In6Of([k \in 1 .. 8 |-> 257 * k]), In6Of([k \in 1 .. 8 |-> IF k = 3 THEN 0 ELSE 300 * k]),
         In6Of(<<0, 0, 0, 0, 0, 65535, 49320, 258>>), Zeros}

Ports == {0, 258, 65535}
Sock4s == {Sock4(a, p) : a \in In4s, p \in Ports}
Sock6s == {Sock6(a, p, scope) : a \in In6s, p \in Ports, scope \in {0, 3}}

MCPaths == Upto({Nul, At, 1, Unix}, 4)
SockUs == {SockUAddr(p)[1] : p \in {p \in MCPaths : SockUAddr(p) # Throws}}

SubnetsOf(as) == {[addr |-> a, pfx |-> p] : a \in as, p \in {0, 9, 32}}

MCValues(kind) ==
    CASE kind = "in4" -> In4s
      [] kind = "in6" -> Sparse \cup In6s
      [] kind = "inany" -> In4s \cup {Zeros, CHOOSE a \in In6s : \A k \in 1 .. 15 : a[k + 1] # 0}
      [] kind = "ether" -> Ethers
      [] kind = "subnet4" -> SubnetsOf(In4s)
      [] kind = "subnet6" -> SubnetsOf(In6s)
      [] kind = "subnetany" -> SubnetsOf(In4s \cup In6s)
      [] kind = "sock4" -> Sock4s
      [] kind = "sock6" -> Sock6s
      [] kind = "socku" -> SockUs
      [] kind = "sockin" -> Sock4s \cup Sock6s
      [] kind = "sockany" -> Sock4s \cup Sock6s \cup SockUs

\* Up to ten fields, each empty or a number that tells its place, and then
\* nothing, four octets, or one field that is no number
Joined(fields) ==
    FlattenSeq([k \in DOMAIN fields |-> IF k > 1 THEN <<Colon>> \o fields[k] ELSE fields[k]])
Texts4 == {<<1, Dot, 2, Dot, 3, Dot, 4>>, <<255, Dot, 0, Dot, 255, Dot, 0>>}
Wrong4 == {<<256, Dot, 2, Dot, 3, Dot, 4>>, <<1, Dot, 2, Dot, 3>>, <<1, Dot, 2, Dot, 3, Dot>>, <<>>,
           <<1, Dot, Dot, 3, Dot, 4>>, <<Dot, 2, Dot, 3, Dot, 4>>, <<1, Dot, 2, Dot, 3, Dot, Junk>>,
           <<1, Dot, 2, Dot, 3, Dot, 4, Dot>>, <<1, Dot, 2, Dot, 3, Dot, 4, Dot, 5>>}
Filled(n) == {[k \in 1 .. n |-> IF full[k] THEN <<257 * k>> ELSE <<>>] : full \in [1 .. n -> BOOLEAN]}
Texts6 == UNION {{Joined(f), Joined(Append(f, <<1, Dot, 2, Dot, 3, Dot, 4>>))} :
                 f \in UNION {Filled(n) : n \in 1 .. 10}}
Wrong6 == UNION {{Joined([f EXCEPT ![k] = bad]) : k \in DOMAIN f,
                  bad \in {<<65536>>, <<Junk>>, <<1, Dot, 2, Dot, 3>>}} :
                 f \in UNION {Filled(n) : n \in {4, 8}}}
Few6 == UNION {{Joined(f) : f \in Filled(n)} : n \in {3, 8}}
TextsEther == {Joined([k \in 1 .. n |-> <<v[k]>>]) : n \in {5, 6, 7}, v \in [1 .. 7 -> {9, 255, 256}]}
              \cup {[k \in 1 .. n |-> v[k]] : n \in {5, 6, 7}, v \in [1 .. 7 -> {9, 255, 256}]}

MCInputs(kind) ==
    LET any4 == Texts4 \cup Wrong4
        brackets == {<<Open>> \o s \o <<Close>> : s \in Few6} \cup {<<Open>>, <<Close>>, <<Open, Close>>}
        ends(seps, ns) == {<<>>} \cup {<<sep>> : sep \in seps} \cup {<<sep, n>> : sep \in seps, n \in ns}
        Ended(ss, es) == {s \o e : s \in ss, e \in es}
        pfxs == ends({Slash, Dot}, {0, 32, 33, 128, 129, 256})
        ports == ends({Colon, Slash}, {0, 65535, 65536, Junk})
    IN CASE kind = "in4" -> any4
         [] kind = "in6" -> Texts6 \cup Wrong6
         [] kind = "inany" -> any4 \cup Few6
         [] kind = "ether" -> TextsEther
         [] kind = "subnet4" -> Ended(any4, pfxs)
         [] kind = "subnet6" -> Ended(Few6, pfxs)
         [] kind = "subnetany" -> Ended(any4 \cup Few6, pfxs)
         [] kind = "sock4" -> Ended(any4, ports)
         [] kind = "sock6" -> Ended(brackets \cup Few6, ports)
         [] kind = "sockin" -> Ended(any4 \cup brackets, ports)
         [] kind = "sockany" -> Ended(any4 \cup brackets, ports) \cup {<<Unix>> \o p : p \in MCPaths}
         [] kind = "socku" -> MCPaths

\* Addresses that differ in a bit next to the end of a word, or within one
MCNearby(a) ==
    {Bytes([Bits(a) EXCEPT ![k] = 1 - @]) : k \in {k \in 1 .. 8 * Len(a) : k % 32 \in {0, 1, 8}}}

\* Masks of at most three runs of equal bits
MCMasks ==
    {Bytes(SubSeq(x, 1, 32)) :
        x \in {IF one THEN Ones(i) \o None(j - i) \o Ones(32 - j) ELSE None(i) \o Ones(j - i) \o None(32 - j) :
                 <<i, j>> \in {ij \in (0 .. 32) \X (0 .. 32) : ij[1] <= ij[2]}, one \in BOOLEAN}}

MCPacked == {[k \in 1 .. n |-> k] : n \in {1, 2, 3, 4, 8}}

MCStrings == [1 .. 4 -> 0 .. 2]
MCOthers == Upto(0 .. 2, 3)
================================================================================
