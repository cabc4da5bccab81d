---------------------------- MODULE IoUring_proofs ----------------------------
(***************************************************************************)
(* Proofs about IoUring, for every number of requests and handlers and     *)
(* every size of the queue.                                                *)
(***************************************************************************)
EXTENDS IoUring, FiniteSetTheorems, SequenceTheorems, WellFoundedInduction, TLAPS

-----------------------------------------------------------------------------
(* Facts about the vector and the queues *)

\* Every set of naturals has a least element.
LEMMA LeastNatural ==
    ASSUME NEW T \in SUBSET Nat, T # {}
    PROVE  \E x \in T : \A y \in T : x <= y
<1> DEFINE R == OpToRel(<, Nat)
<1>1. PICK x \in T : \A y \in T : ~(<<y, x>> \in R)
  <2>1. IsWellFoundedOn(R, Nat)
    BY NatLessThanWellFounded
  <2> HIDE DEF R
  <2> QED BY <2>1, WFMin
<1>2. \A y \in T : ~(y < x)
  BY <1>1 DEF OpToRel
<1> QED BY <1>2

\* std::find returns the place of an element that is there.
LEMMA FindPlace ==
    ASSUME NEW s \in Seq(Handlers), NEW h \in ElemsOf(s)
    PROVE  Find(s, h) \in 1 .. Len(s) /\ s[Find(s, h)] = h
<1> DEFINE T == {i \in DOMAIN s : s[i] = h}
<1>1. T \in SUBSET Nat /\ T # {}
  BY DEF ElemsOf
<1>2. PICK x \in T : \A y \in T : x <= y
  BY <1>1, LeastNatural
<1>3. s[x] = h /\ x \in DOMAIN s /\ \A j \in 1 .. x - 1 : s[j] # h
  BY <1>2
<1> QED BY <1>3 DEF Find

\* What dropHandler does to the vector: it is one shorter, and its places are
\* the old ones with the last element at the place found.
LEMMA DropValue ==
    ASSUME NEW s \in Seq(Handlers), NEW h \in ElemsOf(s)
    PROVE  /\ DropFrom(s, h) \in Seq(Handlers)
           /\ Len(DropFrom(s, h)) = Len(s) - 1
           /\ \A i \in 1 .. Len(s) - 1 :
                 DropFrom(s, h)[i] = IF i = Find(s, h) THEN s[Len(s)] ELSE s[i]
<1> DEFINE k == Find(s, h)
           t == [s EXCEPT ![k] = s[Len(s)]]
<1>1. k \in 1 .. Len(s)
  BY FindPlace
<1> HIDE DEF k
<1>2. /\ t \in Seq(Handlers) /\ Len(t) = Len(s)
      /\ \A i \in 1 .. Len(s) : t[i] = IF i = k THEN s[Len(s)] ELSE s[i]
  BY <1>1, ExceptSeq
<1> HIDE DEF t
<1>3. \A i \in 1 .. Len(s) - 1 : t[i] \in Handlers
  BY <1>2
<1>4. /\ SubSeq(t, 1, Len(s) - 1) \in Seq(Handlers)
      /\ Len(SubSeq(t, 1, Len(s) - 1)) = Len(s) - 1
      /\ \A i \in 1 .. Len(s) - 1 : SubSeq(t, 1, Len(s) - 1)[i] = t[i]
  <2> DEFINE m == Len(s) - 1
  <2>1. m \in Nat /\ \A i \in 1 .. m : t[i] \in Handlers
    BY <1>1, <1>3
  <2> HIDE DEF m
  <2>2. /\ SubSeq(t, 1, m) \in Seq(Handlers)
        /\ Len(SubSeq(t, 1, m)) = IF 1 <= m THEN m - 1 + 1 ELSE 0
        /\ \A i \in 1 .. m - 1 + 1 : SubSeq(t, 1, m)[i] = t[1 + i - 1]
    BY <2>1, SubSeqProperties
  <2>3. /\ Len(SubSeq(t, 1, m)) = m
        /\ \A i \in 1 .. m : SubSeq(t, 1, m)[i] = t[i]
    BY <2>1, <2>2
  <2> QED BY <2>2, <2>3 DEF m
<1>5. DropFrom(s, h) = SubSeq(t, 1, Len(s) - 1)
  BY DEF DropFrom, t, k
<1> QED BY <1>2, <1>4, <1>5 DEF k

\* The places of g in a vector s.
PlacesIn(s, g) == {i \in DOMAIN s : s[i] = g}

LEMMA PlacesFinite ==
    ASSUME NEW s \in Seq(Handlers), NEW g
    PROVE  IsFiniteSet(PlacesIn(s, g)) /\ Cardinality(PlacesIn(s, g)) \in Nat
<1>1. IsFiniteSet(1 .. Len(s))
  BY FS_Interval
<1>2. PlacesIn(s, g) \in SUBSET (1 .. Len(s))
  BY DEF PlacesIn
<1> QED BY <1>1, <1>2, FS_Subset, FS_CardinalityType

\* dropHandler removes one place of the handler and none of any other.
LEMMA DropCount ==
    ASSUME NEW s \in Seq(Handlers), NEW h \in ElemsOf(s), NEW g
    PROVE  Cardinality(PlacesIn(DropFrom(s, h), g)) =
               IF g = h THEN Cardinality(PlacesIn(s, g)) - 1
                        ELSE Cardinality(PlacesIn(s, g))
<1> DEFINE k == Find(s, h)
           n == Len(s)
           P == PlacesIn(s, g)
           D == PlacesIn(DropFrom(s, h), g)
<1>1. k \in 1 .. n /\ s[k] = h /\ n \in Nat
  BY FindPlace
<1>2. D = {i \in 1 .. n - 1 : (IF i = k THEN s[n] ELSE s[i]) = g}
  BY <1>1, DropValue DEF PlacesIn
<1>3. P = {i \in 1 .. n : s[i] = g}
  BY DEF PlacesIn
<1>4. IsFiniteSet(P) /\ Cardinality(P) \in Nat
  BY PlacesFinite
<1> HIDE DEF k, n, P, D
<1>5. CASE g = h
  <2>1. CASE s[n] = h
    <3>1. D = P \ {n}
      BY <1>1, <1>2, <1>3, <1>5, <2>1
    <3>2. n \in P
      BY <1>1, <1>3, <1>5, <2>1
    <3> QED BY <3>1, <3>2, <1>4, <1>5, FS_RemoveElement DEF P, D
  <2>2. CASE s[n] # h
    <3>1. D = P \ {k}
      BY <1>1, <1>2, <1>3, <1>5, <2>2
    <3>2. k \in P
      BY <1>1, <1>3, <1>5
    <3> QED BY <3>1, <3>2, <1>4, <1>5, FS_RemoveElement DEF P, D
  <2> QED BY <2>1, <2>2
<1>6. CASE g # h
  <2>1. CASE s[n] = g
    <3>1. D = (P \ {n}) \cup {k}
      BY <1>1, <1>2, <1>3, <1>6, <2>1
    <3>2. n \in P /\ k \notin P \ {n}
      BY <1>1, <1>3, <1>6, <2>1
    <3>3. IsFiniteSet(P \ {n}) /\ Cardinality(P \ {n}) = Cardinality(P) - 1
      BY <3>2, <1>4, FS_RemoveElement
    <3>4. Cardinality((P \ {n}) \cup {k}) = Cardinality(P \ {n}) + 1
      BY <3>2, <3>3, FS_AddElement
    <3> QED BY <3>1, <3>3, <3>4, <1>4, <1>6 DEF P, D
  <2>2. CASE s[n] # g
    <3>1. D = P
      BY <1>1, <1>2, <1>3, <1>6, <2>2
    <3> QED BY <3>1, <1>6 DEF P, D
  <2> QED BY <2>1, <2>2
<1> QED BY <1>5, <1>6

\* push_back adds one place of its handler.
LEMMA PushCount ==
    ASSUME NEW s \in Seq(Handlers), NEW h \in Handlers, NEW g
    PROVE  /\ Append(s, h) \in Seq(Handlers)
           /\ Cardinality(PlacesIn(Append(s, h), g)) =
               IF g = h THEN Cardinality(PlacesIn(s, g)) + 1
                        ELSE Cardinality(PlacesIn(s, g))
<1> DEFINE n == Len(s) + 1
           P == PlacesIn(s, g)
           A == PlacesIn(Append(s, h), g)
<1>1. /\ Append(s, h) \in Seq(Handlers) /\ n \in Nat
      /\ Len(Append(s, h)) = n
      /\ \A i \in 1 .. Len(s) : Append(s, h)[i] = s[i]
      /\ Append(s, h)[n] = h
  BY AppendProperties
<1>2. IsFiniteSet(P) /\ Cardinality(P) \in Nat
  BY PlacesFinite
<1>5. n \notin P
  BY DEF PlacesIn
<1>3. CASE g = h
  <2>1. A = P \cup {n}
    BY <1>1, <1>3 DEF PlacesIn
  <2> HIDE DEF n, P, A
  <2> QED BY <1>1, <1>2, <1>3, <1>5, <2>1, FS_AddElement DEF P, A
<1>4. CASE g # h
  <2>1. A = P
    BY <1>1, <1>4 DEF PlacesIn
  <2> QED BY <1>1, <1>4, <2>1
<1> QED BY <1>3, <1>4

-----------------------------------------------------------------------------
(* Facts about the queues *)

LEMMA AppendElems ==
    ASSUME NEW S, NEW s \in Seq(S), NEW x \in S
    PROVE  /\ Append(s, x) \in Seq(S)
           /\ ElemsOf(Append(s, x)) = ElemsOf(s) \cup {x}
           /\ NoRepeat(s) /\ x \notin ElemsOf(s) => NoRepeat(Append(s, x))
           /\ Append(s, x) # <<>>
           /\ s # <<>> => Head(Append(s, x)) = Head(s)
<1>1. /\ Append(s, x) \in Seq(S) /\ Append(s, x) # <<>>
      /\ Len(Append(s, x)) = Len(s) + 1
      /\ \A i \in 1 .. Len(s) : Append(s, x)[i] = s[i]
      /\ Append(s, x)[Len(s) + 1] = x
  BY AppendProperties
<1>2. DOMAIN s = 1 .. Len(s) /\ DOMAIN Append(s, x) = 1 .. Len(s) + 1
      /\ Len(s) \in Nat
  BY <1>1
<1>3. ElemsOf(Append(s, x)) = ElemsOf(s) \cup {x}
  BY <1>1, <1>2 DEF ElemsOf
<1>4. NoRepeat(s) /\ x \notin ElemsOf(s) => NoRepeat(Append(s, x))
  BY <1>1, <1>2 DEF ElemsOf, NoRepeat
<1>5. s # <<>> => Head(Append(s, x)) = Head(s)
  BY HeadTailAppend
<1> QED BY <1>1, <1>3, <1>4, <1>5

LEMMA TailElems ==
    ASSUME NEW S, NEW s \in Seq(S), s # <<>>, NoRepeat(s)
    PROVE  /\ Tail(s) \in Seq(S)
           /\ Head(s) \in ElemsOf(s)
           /\ ElemsOf(Tail(s)) = ElemsOf(s) \ {Head(s)}
           /\ NoRepeat(Tail(s))
<1>1. /\ Tail(s) \in Seq(S) /\ Len(Tail(s)) = Len(s) - 1
      /\ \A i \in 1 .. Len(Tail(s)) : Tail(s)[i] = s[i + 1]
      /\ Len(s) \in Nat \ {0} /\ Head(s) = s[1]
  BY HeadTailProperties
<1>2. DOMAIN s = 1 .. Len(s) /\ DOMAIN Tail(s) = 1 .. Len(s) - 1
  BY <1>1
<1>3. ElemsOf(Tail(s)) \subseteq ElemsOf(s) \ {Head(s)}
  BY <1>1, <1>2 DEF ElemsOf, NoRepeat
<1>4. ASSUME NEW i \in DOMAIN s, i # 1 PROVE s[i] \in ElemsOf(Tail(s))
  <2>1. i - 1 \in DOMAIN Tail(s) /\ Tail(s)[i - 1] = s[i]
    BY <1>1, <1>2, <1>4
  <2> QED BY <2>1 DEF ElemsOf
<1>5. NoRepeat(Tail(s))
  BY <1>1, <1>2 DEF NoRepeat
<1>6. Head(s) \in ElemsOf(s)
  BY <1>1, <1>2 DEF ElemsOf
<1>7. ElemsOf(s) \ {Head(s)} \subseteq ElemsOf(Tail(s))
  <2>1. ASSUME NEW x \in ElemsOf(s), x # Head(s) PROVE x \in ElemsOf(Tail(s))
    <3>1. PICK i \in DOMAIN s : s[i] = x
      BY DEF ElemsOf
    <3> QED BY <3>1, <2>1, <1>1, <1>4
  <2> QED BY <2>1
<1> QED BY <1>1, <1>3, <1>5, <1>6, <1>7

\* What submit leaves queued is what it did not send.
LEMMA SuffixElems ==
    ASSUME NEW S, NEW q \in Seq(S), NEW n \in 0 .. Len(q), NoRepeat(q)
    PROVE  LET sent == {q[i] : i \in 1 .. n}
               rest == SubSeq(q, n + 1, Len(q))
           IN  /\ rest \in Seq(S) /\ NoRepeat(rest)
               /\ sent \subseteq ElemsOf(q)
               /\ ElemsOf(rest) = ElemsOf(q) \ sent
<1> DEFINE sent == {q[i] : i \in 1 .. n}
           m == n + 1
           l == Len(q)
           rest == SubSeq(q, m, l)
<1>1. m \in Nat /\ l \in Nat /\ m <= l + 1 /\ \A i \in m .. l : q[i] \in S
  OBVIOUS
<1>2. DOMAIN q = 1 .. l
  OBVIOUS
<1>3. m = n + 1 /\ n \in 0 .. l
  OBVIOUS
<1> HIDE DEF m, l
<1>4. /\ rest \in Seq(S)
      /\ Len(rest) = IF m <= l THEN l - m + 1 ELSE 0
      /\ \A i \in 1 .. l - m + 1 : rest[i] = q[m + i - 1]
  BY <1>1, SubSeqProperties
<1> HIDE DEF rest
<1>5. DOMAIN rest = 1 .. l - n /\ \A i \in 1 .. l - n : rest[i] = q[n + i]
  BY <1>1, <1>3, <1>4
<1>6. NoRepeat(rest)
  BY <1>1, <1>2, <1>3, <1>5 DEF NoRepeat
<1>7. sent \subseteq ElemsOf(q)
  <2>1. \A i \in 1 .. n : i \in DOMAIN q
    BY <1>1, <1>2, <1>3
  <2> QED BY <2>1 DEF ElemsOf
<1>8. ElemsOf(rest) \subseteq ElemsOf(q) \ sent
  <2>1. ASSUME NEW j \in DOMAIN rest PROVE rest[j] \in ElemsOf(q) \ sent
    <3>1. n + j \in DOMAIN q /\ rest[j] = q[n + j]
      BY <1>1, <1>2, <1>3, <1>5
    <3>2. \A i \in 1 .. n : i \in DOMAIN q /\ i # n + j
      BY <1>1, <1>2, <1>3, <1>5
    <3> QED BY <3>1, <3>2 DEF ElemsOf, NoRepeat
  <2> QED BY <2>1 DEF ElemsOf
<1>9. ASSUME NEW i \in DOMAIN q, q[i] \notin sent PROVE q[i] \in ElemsOf(rest)
  <2>1. i \in n + 1 .. l
    BY <1>1, <1>2, <1>3, <1>9
  <2>2. i - n \in DOMAIN rest /\ rest[i - n] = q[n + (i - n)] /\ n + (i - n) = i
    BY <2>1, <1>1, <1>3, <1>5
  <2> QED BY <2>2 DEF ElemsOf
<1>10. ElemsOf(q) \ sent \subseteq ElemsOf(rest)
  BY <1>9 DEF ElemsOf
<1> QED BY <1>4, <1>6, <1>7, <1>8, <1>10 DEF rest, m, l

-----------------------------------------------------------------------------
(* The invariant *)

LEMMA PlacesAre ==
    ASSUME NEW h
    PROVE  /\ Places(h) = PlacesIn(handlers, h)
           /\ Places(h)' = PlacesIn(handlers', h)
BY DEF Places, PlacesIn

LEMMA OweType ==
    ASSUME NEW o \in [Handlers -> Int], NEW h \in MaybeHandler
    PROVE  Owe(o, h) \in [Handlers -> Int] /\ Called(o, h) \in [Handlers -> Int]
<1>1. CASE h = NoHandler
  BY <1>1 DEF Owe, Called
<1>2. CASE h \in Handlers
  BY <1>2 DEF Owe, Called
<1> QED BY <1>1, <1>2 DEF MaybeHandler

LEMMA ElemsType ==
    ASSUME TypeOK
    PROVE  ElemsOf(sq) \subseteq Reqs /\ ElemsOf(cq) \subseteq Reqs
BY DEF TypeOK, ElemsOf

LEMMA ClaimsFinite ==
    ASSUME TypeOK, NEW h
    PROVE  /\ Claims(h) \subseteq Reqs /\ IsFiniteSet(Claims(h))
           /\ Cardinality(Claims(h)) \in Nat
<1>1. Claims(h) \in SUBSET Reqs
  BY ElemsType DEF Claims, TypeOK
<1> QED BY <1>1, ReqsAssumption, FS_Subset, FS_CardinalityType

\* A handler with a registration is in the vector.
LEMMA DropFinds ==
    ASSUME IInv, exitAt = 0, NEW h \in Handlers, Claims(h) # {}
    PROVE  h \in ElemsOf(handlers)
<1>1. IsFiniteSet(Claims(h)) /\ Cardinality(Claims(h)) # 0
  BY ClaimsFinite, FS_EmptySet DEF IInv
<1>2. Cardinality(Places(h)) # 0
  BY <1>1 DEF IInv, HandlersMatch
<1>3. Places(h) # {}
  BY <1>2, FS_EmptySet
<1> QED BY <1>3 DEF Places, ElemsOf

LEMMA InitHolds == Init => IInv
<1> SUFFICES ASSUME Init PROVE IInv
  OBVIOUS
<1>1. ElemsOf(<<>>) = {} /\ DOMAIN <<>> = {}
  BY DEF ElemsOf
<1>2. TypeOK
  <2>1. <<>> \in Seq(Handlers) /\ <<>> \in Seq(Reqs) /\ <<>> \in Seq(Frame)
    BY EmptySeq
  <2>2. owed \in [Handlers -> Int] /\ exitAt \in Nat
    BY DEF Init
  <2>5. processing \in BOOLEAN
    BY DEF Init
  <2>3. inflight \subseteq Reqs /\ canceled \subseteq Reqs
    BY DEF Init
  <2>4. ud \in [Reqs -> MaybeHandler] /\ tgt \in [Reqs -> MaybeHandler]
        /\ data \in [Reqs -> MaybeHandler] /\ want \in [Reqs -> MaybeHandler]
    BY DEF Init, MaybeHandler
  <2> QED BY <2>1, <2>2, <2>3, <2>4, <2>5 DEF Init, TypeOK
<1>3. QueuesApart
  BY <1>1 DEF Init, QueuesApart, NoRepeat
<1>4. FramesMatch
  BY <1>1 DEF Init, FramesMatch, Replacing, Delivering
<1>5. HandlersMatch
  <2>1. ASSUME NEW h \in Handlers PROVE Places(h) = {} /\ Claims(h) = {}
    BY <1>1 DEF Init, Places, Claims
  <2> QED BY <2>1 DEF HandlersMatch
<1>6. HandlerKept /\ RunsHandlerSet
  BY <1>1 DEF Init, HandlerKept, RunsHandlerSet
<1> QED BY <1>2, <1>3, <1>4, <1>5, <1>6 DEF IInv

LEMMA GetSQEStep ==
    ASSUME IInv, NEW r \in Reqs, GetSQE(r)
    PROVE  IInv'
<1> USE DEF GetSQE, TakeEntry, kernelVars
<1>1. /\ sq' \in Seq(Reqs) /\ ElemsOf(sq') = ElemsOf(sq) \cup {r} /\ NoRepeat(sq')
      /\ r \notin ElemsOf(sq) \cup inflight \cup ElemsOf(cq)
  BY AppendElems DEF IInv, TypeOK, QueuesApart, Outstanding
<1>2. Replacing' = Replacing /\ (Delivering <=> Delivering')
  BY DEF Replacing, Delivering
<1>3. TypeOK'
  BY <1>1 DEF IInv, TypeOK, MaybeHandler
<1>4. QueuesApart'
  BY <1>1 DEF IInv, QueuesApart
<1>5. FramesMatch'
  BY <1>1, <1>2 DEF IInv, FramesMatch
<1>6. r \notin Replacing
  BY <1>1 DEF IInv, FramesMatch
<1>7. HandlersMatch'
  <2>1. ASSUME NEW h \in Handlers PROVE Claims(h)' = Claims(h)
    BY <1>1, <1>2, <1>6, HandlersAssumption, ElemsType DEF IInv, TypeOK, Claims
  <2>2. ASSUME NEW h PROVE Places(h)' = Places(h)
    BY DEF Places
  <2> QED BY <2>1, <2>2 DEF IInv, HandlersMatch
<1>8. HandlerKept'
  <2>1. \A q \in ElemsOf(sq) \ Replacing : ud'[q] = want'[q]
    BY <1>1, ElemsType DEF IInv, HandlerKept, TypeOK
  <2>2. ud'[r] = want'[r]
    BY DEF IInv, TypeOK
  <2>3. ASSUME NEW i \in DOMAIN stack, stack[i].sqe # NoReq
        PROVE  want'[stack[i].sqe] = stack[i].new
    <3>1. stack[i].sqe \in Replacing
      BY <2>3 DEF Replacing
    <3>2. stack[i].sqe \in Reqs /\ stack[i].sqe # r
      BY <3>1, <1>6, ElemsType DEF IInv, FramesMatch
    <3> QED BY <2>3, <3>2 DEF IInv, HandlerKept, TypeOK
  <2> QED BY <1>1, <1>2, <2>1, <2>2, <2>3 DEF HandlerKept
<1>9. RunsHandlerSet'
  BY <1>1, ElemsType DEF IInv, RunsHandlerSet, TypeOK
<1> QED BY <1>3, <1>4, <1>5, <1>7, <1>8, <1>9 DEF IInv

LEMMA SetFirstHandlerStep ==
    ASSUME IInv, QuietReplacement, NEW r \in Reqs, NEW h \in MaybeHandler,
           SetFirstHandler(r, h)
    PROVE  IInv'
<1> USE DEF SetFirstHandler, kernelVars
<1>1. h \in Handlers /\ r \in ElemsOf(sq) \ Replacing
  BY DEF MaybeHandler
<1>2. Replacing' = Replacing /\ (Delivering <=> Delivering')
  BY DEF Replacing, Delivering
<1>3. handlers' = Append(handlers, h) /\ handlers' \in Seq(Handlers)
  BY <1>1, PushCount, HandlersAssumption DEF Pushed, IInv, TypeOK
<1>4. TypeOK'
  <2>1. ud' \in [Reqs -> MaybeHandler] /\ want' \in [Reqs -> MaybeHandler]
    BY DEF IInv, TypeOK
  <2>2. owed' \in [Handlers -> Int]
    BY <1>1 DEF IInv, TypeOK, Owe
  <2> QED BY <1>3, <2>1, <2>2 DEF IInv, TypeOK
<1>5. QueuesApart'
  BY DEF IInv, QueuesApart
<1>6. FramesMatch'
  BY <1>2 DEF IInv, FramesMatch
<1>7. HandlersMatch'
  <2>1. r \notin Claims(h)
    BY <1>1, HandlersAssumption DEF Claims, IInv, QueuesApart
  <2>2. ASSUME NEW g \in Handlers, g # h PROVE Claims(g)' = Claims(g)
    BY <1>1, <1>2, <2>2, HandlersAssumption, ElemsType DEF Claims, IInv, TypeOK
  <2>3. Claims(h)' = Claims(h) \cup {r}
    BY <1>1, <1>2, HandlersAssumption, ElemsType DEF Claims, IInv, TypeOK
  <2>4. Cardinality(Claims(h)') = Cardinality(Claims(h)) + 1
    BY <2>1, <2>3, ClaimsFinite, FS_AddElement DEF IInv
  <2>5. ASSUME NEW g \in Handlers
        PROVE  Cardinality(Places(g)') = IF g = h THEN Cardinality(Places(g)) + 1
                                                  ELSE Cardinality(Places(g))
    BY <1>1, <1>3, PushCount, PlacesAre DEF IInv, TypeOK
  <2> QED BY <2>2, <2>4, <2>5 DEF IInv, HandlersMatch
<1>8. HandlerKept'
  <2>1. \A q \in ElemsOf(sq) \ Replacing : ud'[q] = want'[q]
    BY ElemsType DEF IInv, HandlerKept, TypeOK
  <2>2. ASSUME NEW i \in DOMAIN stack, stack[i].sqe # NoReq
        PROVE  want'[stack[i].sqe] = stack[i].new
    <3>1. stack[i].sqe \in Replacing
      BY <2>2 DEF Replacing
    <3>2. stack[i].sqe \in Reqs /\ stack[i].sqe # r
      BY <3>1, <1>1, ElemsType DEF IInv, FramesMatch
    <3> QED BY <2>2, <3>2 DEF IInv, HandlerKept, TypeOK
  <2> QED BY <1>2, <2>1, <2>2 DEF HandlerKept
<1>9. RunsHandlerSet'
  BY <1>1, ElemsType DEF IInv, RunsHandlerSet, TypeOK, QueuesApart
<1> QED BY <1>4, <1>5, <1>6, <1>7, <1>8, <1>9 DEF IInv

\* Pushing a frame, and popping the last.
LEMMA PushFrame ==
    ASSUME TypeOK, NEW f \in Frame, stack' = Append(stack, f)
    PROVE  /\ stack' \in Seq(Frame) /\ stack' # <<>>
           /\ DOMAIN stack' = DOMAIN stack \cup {Len(stack) + 1}
           /\ DOMAIN stack = 1 .. Len(stack)
           /\ \A i \in DOMAIN stack : stack'[i] = stack[i]
           /\ stack'[Len(stack) + 1] = f
<1>1. stack \in Seq(Frame)
  BY DEF TypeOK
<1>2. /\ Append(stack, f) \in Seq(Frame) /\ Append(stack, f) # <<>>
      /\ Len(Append(stack, f)) = Len(stack) + 1
      /\ \A i \in 1 .. Len(stack) : Append(stack, f)[i] = stack[i]
      /\ Append(stack, f)[Len(stack) + 1] = f
  BY <1>1, AppendProperties
<1> QED BY <1>1, <1>2

LEMMA PopFrame ==
    ASSUME TypeOK, stack # <<>>, stack' = Popped
    PROVE  /\ stack' \in Seq(Frame)
           /\ Len(stack) \in Nat \ {0}
           /\ DOMAIN stack = 1 .. Len(stack)
           /\ DOMAIN stack' = 1 .. Len(stack) - 1
           /\ \A i \in DOMAIN stack' : stack'[i] = stack[i]
           /\ Top \in Frame /\ Top = stack[Len(stack)]
<1> DEFINE m == Len(stack) - 1
<1>1. /\ stack \in Seq(Frame) /\ m \in Nat /\ Len(stack) \in Nat \ {0}
      /\ \A i \in 1 .. m : stack[i] \in Frame
  BY DEF TypeOK
<1>2. stack' = SubSeq(stack, 1, m)
  BY DEF Popped
<1>3. Len(stack) = m + 1
  BY <1>1
<1> HIDE DEF m
<1>4. /\ SubSeq(stack, 1, m) \in Seq(Frame)
      /\ Len(SubSeq(stack, 1, m)) = IF 1 <= m THEN m - 1 + 1 ELSE 0
      /\ \A i \in 1 .. m - 1 + 1 : SubSeq(stack, 1, m)[i] = stack[1 + i - 1]
  BY <1>1, SubSeqProperties
<1> QED BY <1>1, <1>2, <1>3, <1>4 DEF Top

LEMMA ReplaceHandlerStep ==
    ASSUME IInv, QuietReplacement, NEW r \in Reqs, NEW h \in MaybeHandler,
           ReplaceHandler(r, h)
    PROVE  IInv'
<1> USE DEF ReplaceHandler, kernelVars
<1> DEFINE old == ud[r]
           f == [run |-> old, sqe |-> r, new |-> h]
<1>1. old \in Handlers /\ r \in ElemsOf(sq) \ Replacing /\ exitAt = 0
  BY DEF IInv, TypeOK, MaybeHandler, UserTurn
<1>2. f \in Frame /\ stack' = Append(stack, f)
  BY <1>1 DEF Frame
<1>3. /\ stack' \in Seq(Frame) /\ stack' # <<>>
      /\ DOMAIN stack' = DOMAIN stack \cup {Len(stack) + 1}
      /\ DOMAIN stack = 1 .. Len(stack)
      /\ \A i \in DOMAIN stack : stack'[i] = stack[i]
      /\ stack'[Len(stack) + 1] = f
      /\ Len(stack) \in Nat
  BY <1>2, PushFrame DEF IInv, TypeOK
<1>4. r # NoReq
  BY ReqsAssumption
<1>5. Replacing' = Replacing \cup {r}
  BY <1>3, <1>4 DEF Replacing
<1>6. Delivering <=> Delivering'
  BY <1>3 DEF Delivering, UserTurn
<1>7. r \in Claims(old)
  BY <1>1 DEF Claims
<1>8. old \in ElemsOf(handlers)
  BY <1>1, <1>7, DropFinds
<1>9. handlers' = DropFrom(handlers, old) /\ handlers' \in Seq(Handlers)
  BY <1>8, DropValue DEF IInv, TypeOK
<1>10. TypeOK'
  <2>1. want' \in [Reqs -> MaybeHandler]
    BY DEF IInv, TypeOK
  <2>2. owed' \in [Handlers -> Int]
    <3>1. Called(owed, old) \in [Handlers -> Int]
      BY <1>1, OweType DEF IInv, TypeOK, MaybeHandler
    <3> QED BY <3>1, OweType
  <2> QED BY <1>3, <1>9, <2>1, <2>2 DEF IInv, TypeOK
<1>11. QueuesApart'
  BY DEF IInv, QueuesApart
<1>12. FramesMatch'
  <2>1. \A i \in DOMAIN stack' : stack'[i].sqe = NoReq <=> (i = 1 /\ processing')
    <3>1. Len(stack) + 1 = 1 => ~processing
      BY <1>3 DEF UserTurn
    <3> QED BY <1>3, <1>4, <3>1 DEF IInv, FramesMatch
  <2>2. \A i \in DOMAIN stack : stack[i].sqe # r
    BY <1>1, <1>4 DEF Replacing
  <2>3. \A i, j \in DOMAIN stack' : stack'[i].sqe = stack'[j].sqe => i = j
    BY <1>3, <2>2 DEF IInv, FramesMatch
  <2> QED BY <1>1, <1>5, <1>6, <2>1, <2>3 DEF IInv, FramesMatch
<1>13. HandlersMatch'
  <2>1. ASSUME NEW g \in Handlers, g # old PROVE Claims(g)' = Claims(g)
    BY <1>1, <1>5, <1>6, <2>1 DEF Claims
  <2>2. Claims(old)' = Claims(old) \ {r}
    BY <1>1, <1>5, <1>6 DEF Claims, IInv, QueuesApart
  <2>3. Cardinality(Claims(old)') = Cardinality(Claims(old)) - 1
    BY <1>7, <2>2, ClaimsFinite, FS_RemoveElement DEF IInv
  <2>4. ASSUME NEW g \in Handlers
        PROVE  Cardinality(Places(g)') = IF g = old THEN Cardinality(Places(g)) - 1
                                                    ELSE Cardinality(Places(g))
    BY <1>8, <1>9, DropCount, PlacesAre DEF IInv, TypeOK
  <2> QED BY <1>1, <2>1, <2>3, <2>4 DEF IInv, HandlersMatch
<1>14. HandlerKept'
  <2>1. \A q \in ElemsOf(sq) \ Replacing' : ud[q] = want'[q]
    BY <1>5, ElemsType DEF IInv, HandlerKept, TypeOK
  <2>2. ASSUME NEW i \in DOMAIN stack, stack[i].sqe # NoReq
        PROVE  want'[stack[i].sqe] = stack[i].new
    <3>1. stack[i].sqe \in Replacing
      BY <2>2 DEF Replacing
    <3>2. stack[i].sqe \in Reqs /\ stack[i].sqe # r
      BY <3>1, <1>1, ElemsType DEF IInv, FramesMatch
    <3> QED BY <2>2, <3>2 DEF IInv, HandlerKept, TypeOK
  <2>3. want'[r] = h
    BY DEF IInv, TypeOK
  <2> QED BY <1>3, <2>1, <2>2, <2>3 DEF HandlerKept
<1>15. RunsHandlerSet'
  BY <1>1, ElemsType DEF IInv, RunsHandlerSet, TypeOK, QueuesApart
<1> QED BY <1>10, <1>11, <1>12, <1>13, <1>14, <1>15 DEF IInv

\* io_uring_submit moves entries with their handlers; `X' are entries that
\* were queued in the same call, without a handler.
LEMMA ConsumeStep ==
    ASSUME IInv, Replacing = {},
           NEW X \in SUBSET Reqs, X \cap Outstanding = {},
           NEW q \in Seq(Reqs), NoRepeat(q), ElemsOf(q) = ElemsOf(sq) \cup X,
           NEW n \in 0 .. Len(q), Consume(q, n),
           ud' \in [Reqs -> MaybeHandler], want' \in [Reqs -> MaybeHandler],
           tgt' \in [Reqs -> MaybeHandler],
           \A r \in Reqs \ X : ud'[r] = ud[r] /\ want'[r] = want[r],
           \A r \in X : ud'[r] = NoHandler /\ want'[r] = NoHandler,
           UNCHANGED <<handlers, canceled, cq, processing, stack, exitAt, owed>>
    PROVE  IInv'
<1> DEFINE sent == {q[i] : i \in 1 .. n}
<1>1. /\ sq' \in Seq(Reqs) /\ NoRepeat(sq') /\ sent \subseteq ElemsOf(q)
      /\ ElemsOf(sq') = ElemsOf(q) \ sent
      /\ inflight' = inflight \cup sent
      /\ data' = [r \in Reqs |-> IF r \in sent THEN ud'[r] ELSE data[r]]
  BY SuffixElems DEF Consume
<1> HIDE DEF sent
<1>2. Replacing' = {} /\ (Delivering <=> Delivering')
  BY DEF Replacing, Delivering
<1>3. ElemsOf(q) \subseteq Reqs
  BY DEF ElemsOf
<1>4. TypeOK'
  BY <1>1, <1>3 DEF IInv, TypeOK
<1>5. QueuesApart'
  BY <1>1 DEF IInv, QueuesApart, Outstanding
<1>6. FramesMatch'
  BY <1>2 DEF IInv, FramesMatch
<1>7. HandlersMatch'
  <2>1. ASSUME NEW h \in Handlers PROVE Claims(h)' = Claims(h)
    <3> DEFINE posted == ElemsOf(cq) \ (IF Delivering THEN {Head(cq)} ELSE {})
    <3>1. posted' = posted /\ posted \subseteq ElemsOf(cq)
      BY <1>2
    <3>2. Claims(h) = {r \in ElemsOf(sq) : ud[r] = h}
                      \cup {r \in inflight \cup posted : data[r] = h}
      BY DEF Claims
    <3>3. Claims(h)' = {r \in ElemsOf(sq') : ud'[r] = h}
                      \cup {r \in inflight' \cup posted' : data'[r] = h}
      BY <1>2 DEF Claims
    <3> HIDE DEF posted
    <3>4. \A r \in inflight \cup posted : r \in Reqs /\ data'[r] = data[r]
      BY <1>1, <3>1, ElemsType DEF IInv, TypeOK, QueuesApart, Outstanding
    <3>5. \A r \in sent : data'[r] = ud'[r]
      BY <1>1, <1>3
    <3>6. \A r \in X : ud'[r] # h /\ r \in ElemsOf(q)
      BY HandlersAssumption
    <3>7. \A r \in ElemsOf(q) \ X : r \in ElemsOf(sq) /\ ud'[r] = ud[r]
      BY <1>3
    <3>8. \A r \in ElemsOf(sq) : r \in ElemsOf(q) \ X
      BY DEF Outstanding
    <3>9. ASSUME NEW r \in Claims(h)' PROVE r \in Claims(h)
      <4>1. CASE r \in ElemsOf(sq') /\ ud'[r] = h
        BY <4>1, <1>1, <3>2, <3>6, <3>7
      <4>2. CASE r \in inflight \cup posted /\ data'[r] = h
        BY <4>2, <3>2, <3>4
      <4>3. CASE r \in sent /\ data'[r] = h
        BY <4>3, <1>1, <3>2, <3>5, <3>6, <3>7
      <4> QED BY <4>1, <4>2, <4>3, <3>1, <3>3, <1>1
    <3>10. ASSUME NEW r \in Claims(h) PROVE r \in Claims(h)'
      <4>1. CASE r \in ElemsOf(sq) /\ ud[r] = h
        BY <4>1, <1>1, <3>3, <3>5, <3>7, <3>8
      <4>2. CASE r \in inflight \cup posted /\ data[r] = h
        BY <4>2, <1>1, <3>1, <3>3, <3>4
      <4> QED BY <4>1, <4>2, <3>2
    <3> QED BY <3>9, <3>10
  <2>2. ASSUME NEW h PROVE Places(h)' = Places(h)
    BY DEF Places
  <2> QED BY <2>1, <2>2 DEF IInv, HandlersMatch
<1>8. \A r \in ElemsOf(q) : ud'[r] = want'[r]
  BY <1>3 DEF IInv, HandlerKept
<1>9. HandlerKept'
  <2>1. \A i \in DOMAIN stack : stack[i].sqe = NoReq
    BY DEF Replacing
  <2> QED BY <1>1, <1>8, <2>1 DEF HandlerKept
<1>10. RunsHandlerSet'
  <2>1. ASSUME NEW r \in inflight \cup ElemsOf(cq) PROVE data'[r] = want'[r]
    BY <1>1, <1>3, <2>1, ElemsType
       DEF IInv, RunsHandlerSet, TypeOK, QueuesApart, Outstanding
  <2>2. ASSUME NEW r \in sent PROVE data'[r] = want'[r]
    BY <1>1, <1>3, <1>8
  <2> QED BY <1>1, <2>1, <2>2 DEF RunsHandlerSet
<1> QED BY <1>4, <1>5, <1>6, <1>7, <1>9, <1>10 DEF IInv

LEMMA SubmitStep ==
    ASSUME IInv, QuietReplacement, NEW n \in 1 .. Entries, Submit(n)
    PROVE  IInv'
<1>1. sq \in Seq(Reqs) /\ n \in 0 .. Len(sq) /\ NoRepeat(sq)
  BY DEF Submit, IInv, TypeOK, QueuesApart
<1>2. {} \in SUBSET Reqs /\ {} \cap Outstanding = {} /\ ElemsOf(sq) = ElemsOf(sq) \cup {}
  OBVIOUS
<1>3. Replacing = {} /\ Consume(sq, n)
  BY DEF Submit
<1>4. UNCHANGED <<ud, want, tgt, handlers, canceled, cq, processing, stack, exitAt, owed>>
  BY DEF Submit
<1>5. /\ ud' \in [Reqs -> MaybeHandler] /\ want' \in [Reqs -> MaybeHandler]
      /\ tgt' \in [Reqs -> MaybeHandler]
  BY <1>4 DEF IInv, TypeOK
<1> QED BY <1>1, <1>2, <1>3, <1>4, <1>5, ConsumeStep

LEMMA CancelHandlerStep ==
    ASSUME IInv, QuietReplacement, NEW h \in Handlers, NEW r \in Reqs,
           NEW n \in 0 .. Entries, CancelHandler(h, r, n)
    PROVE  IInv'
<1> DEFINE q == Append(sq, r)
<1>1. /\ q \in Seq(Reqs) /\ NoRepeat(q) /\ ElemsOf(q) = ElemsOf(sq) \cup {r}
      /\ {r} \cap Outstanding = {}
  BY AppendElems
     DEF CancelHandler, TakeEntry, IInv, TypeOK, QueuesApart, Outstanding
<1>2. Replacing = {} /\ Consume(q, n)
  BY DEF CancelHandler
<1>3. n \in 0 .. Len(q)
  BY AppendProperties DEF CancelHandler, IInv, TypeOK
<1>4. UNCHANGED <<handlers, canceled, cq, processing, stack, exitAt, owed>>
  BY DEF CancelHandler
<1>5. /\ ud' \in [Reqs -> MaybeHandler] /\ want' \in [Reqs -> MaybeHandler]
      /\ tgt' \in [Reqs -> MaybeHandler]
  BY DEF CancelHandler, TakeEntry, IInv, TypeOK, MaybeHandler
<1>6. /\ \A x \in Reqs \ {r} : ud'[x] = ud[x] /\ want'[x] = want[x]
      /\ \A x \in {r} : ud'[x] = NoHandler /\ want'[x] = NoHandler
  BY DEF CancelHandler, TakeEntry, IInv, TypeOK
<1> HIDE DEF q
<1> QED BY <1>1, <1>2, <1>3, <1>4, <1>5, <1>6, ConsumeStep

\* A completion: the request moves, with its handler, from the kernel to the
\* completion queue, and never to its head while that is being delivered.
LEMMA PostStep ==
    ASSUME IInv, NEW r \in inflight, Post(r), canceled' \subseteq Reqs,
           UNCHANGED <<userVars, data, processing, stack, exitAt, owed>>
    PROVE  IInv'
<1> USE DEF userVars
<1>1. /\ cq' \in Seq(Reqs) /\ ElemsOf(cq') = ElemsOf(cq) \cup {r} /\ NoRepeat(cq')
      /\ cq' # <<>> /\ (cq # <<>> => Head(cq') = Head(cq))
      /\ inflight' = inflight \ {r} /\ r \notin ElemsOf(cq)
  BY AppendElems DEF Post, IInv, TypeOK, QueuesApart
<1>2. Replacing' = Replacing /\ (Delivering <=> Delivering')
  BY DEF Replacing, Delivering
<1>3. TypeOK'
  BY <1>1 DEF IInv, TypeOK
<1>4. QueuesApart'
  BY <1>1 DEF IInv, QueuesApart
<1>5. FramesMatch'
  BY <1>1, <1>2 DEF IInv, FramesMatch
<1>6. HandlersMatch'
  <2>1. ASSUME NEW h \in Handlers PROVE Claims(h)' = Claims(h)
    <3>1. CASE Delivering
      <4>1. cq # <<>>
        BY <3>1 DEF IInv, FramesMatch
      <4>2. Head(cq) \in ElemsOf(cq)
        BY <4>1, TailElems DEF IInv, TypeOK, QueuesApart
      <4> QED BY <1>1, <1>2, <3>1, <4>1, <4>2 DEF Claims
    <3>2. CASE ~Delivering
      BY <1>1, <1>2, <3>2 DEF Claims
    <3> QED BY <3>1, <3>2
  <2>2. ASSUME NEW h PROVE Places(h)' = Places(h)
    BY DEF Places
  <2> QED BY <2>1, <2>2 DEF IInv, HandlersMatch
<1>7. HandlerKept'
  BY <1>2 DEF IInv, HandlerKept
<1>8. RunsHandlerSet'
  BY <1>1 DEF IInv, RunsHandlerSet
<1> QED BY <1>3, <1>4, <1>5, <1>6, <1>7, <1>8 DEF IInv

LEMMA KernelStep ==
    ASSUME IInv, NEW r \in Reqs, Complete(r) \/ ExecCancel(r)
    PROVE  IInv'
<1>1. CASE Complete(r)
  BY <1>1, PostStep DEF Complete, IInv, TypeOK
<1>2. CASE ExecCancel(r)
  <2>1. canceled' \subseteq Reqs
    BY <1>2 DEF ExecCancel, IInv, TypeOK
  <2> QED BY <1>2, <2>1, PostStep DEF ExecCancel
<1> QED BY <1>1, <1>2

LEMMA ProcessNextStep ==
    ASSUME IInv, ProcessNext
    PROVE  IInv'
<1> USE DEF ProcessNext, kernelVars
<1> DEFINE r == Head(cq)
           h == data[r]
           f == [run |-> h, sqe |-> NoReq, new |-> NoHandler]
<1>1. /\ Tail(cq) \in Seq(Reqs) /\ r \in ElemsOf(cq) /\ NoRepeat(Tail(cq))
      /\ ElemsOf(Tail(cq)) = ElemsOf(cq) \ {r}
  BY TailElems DEF IInv, TypeOK, QueuesApart
<1>2. r \in Reqs /\ h \in MaybeHandler /\ exitAt = 0 /\ ~Delivering
  BY <1>1, ElemsType DEF IInv, TypeOK, Delivering
<1>3. Replacing = {} /\ DOMAIN stack = {}
  BY DEF Replacing
<1>4. CASE h = NoHandler
  <2>1. cq' = Tail(cq) /\ UNCHANGED <<handlers, stack, owed>> /\ processing' = TRUE
    BY <1>4
  <2>2. Replacing' = {} /\ ~Delivering'
    BY <2>1 DEF Replacing, Delivering
  <2>3. TypeOK'
    BY <1>1, <2>1 DEF IInv, TypeOK
  <2>4. QueuesApart'
    BY <1>1, <2>1 DEF IInv, QueuesApart
  <2>5. FramesMatch'
    BY <1>2, <1>3, <2>1, <2>2 DEF FramesMatch
  <2>6. HandlersMatch'
    <3>1. ASSUME NEW g \in Handlers PROVE Claims(g)' = Claims(g)
      BY <1>1, <1>2, <1>3, <1>4, <2>1, <2>2, HandlersAssumption DEF Claims
    <3>2. ASSUME NEW g PROVE Places(g)' = Places(g)
      BY <2>1 DEF Places
    <3> QED BY <3>1, <3>2 DEF IInv, HandlersMatch
  <2>7. HandlerKept' /\ RunsHandlerSet'
    BY <1>1, <1>3, <2>1, <2>2 DEF IInv, HandlerKept, RunsHandlerSet
  <2> QED BY <2>3, <2>4, <2>5, <2>6, <2>7 DEF IInv
<1>5. CASE h # NoHandler
  <2>1. h \in Handlers /\ handlers' = DropFrom(handlers, h) /\ stack' = <<f>>
        /\ cq' = cq /\ processing' = TRUE /\ owed' = Called(owed, h)
    BY <1>2, <1>5 DEF MaybeHandler
  <2>2. f \in Frame
    BY <2>1 DEF Frame, MaybeHandler
  <2>3. stack' \in Seq(Frame) /\ DOMAIN stack' = {1} /\ stack'[1] = f /\ stack' # <<>>
    <3> HIDE DEF f
    <3> QED BY <2>1, <2>2
  <2>4. Replacing' = {} /\ Delivering'
    BY <2>1, <2>3 DEF Replacing, Delivering
  <2>5. r \in Claims(h)
    BY <1>1, <1>2, <2>1 DEF Claims
  <2>6. h \in ElemsOf(handlers)
    BY <1>2, <2>1, <2>5, DropFinds
  <2>7. TypeOK'
    <3>1. handlers' \in Seq(Handlers)
      BY <2>1, <2>6, DropValue DEF IInv, TypeOK
    <3>2. owed' \in [Handlers -> Int]
      BY <1>2, <2>1, OweType DEF IInv, TypeOK
    <3> QED BY <2>1, <2>3, <3>1, <3>2 DEF IInv, TypeOK
  <2>8. QueuesApart'
    BY <2>1 DEF IInv, QueuesApart
  <2>9. FramesMatch'
    BY <1>2, <2>1, <2>3, <2>4 DEF FramesMatch
  <2>10. HandlersMatch'
    <3>1. ASSUME NEW g \in Handlers, g # h PROVE Claims(g)' = Claims(g)
      BY <1>2, <1>3, <2>1, <2>4, <3>1 DEF Claims
    <3>2. Claims(h)' = Claims(h) \ {r}
      BY <1>1, <1>2, <1>3, <2>1, <2>4 DEF Claims, IInv, QueuesApart
    <3>3. Cardinality(Claims(h)') = Cardinality(Claims(h)) - 1
      BY <2>5, <3>2, ClaimsFinite, FS_RemoveElement DEF IInv
    <3>4. ASSUME NEW g \in Handlers
          PROVE  Cardinality(Places(g)') = IF g = h THEN Cardinality(Places(g)) - 1
                                                    ELSE Cardinality(Places(g))
      BY <2>1, <2>6, DropCount, PlacesAre DEF IInv, TypeOK
    <3> QED BY <2>1, <3>1, <3>3, <3>4 DEF IInv, HandlersMatch
  <2>11. HandlerKept' /\ RunsHandlerSet'
    BY <1>3, <2>1, <2>3, <2>4 DEF IInv, HandlerKept, RunsHandlerSet
  <2> QED BY <2>7, <2>8, <2>9, <2>10, <2>11 DEF IInv
<1> QED BY <1>4, <1>5

LEMMA ProcessReturnStep ==
    ASSUME IInv, ProcessReturn
    PROVE  IInv'
<1> USE DEF ProcessReturn, userVars, kernelVars
<1>1. Replacing' = Replacing /\ ~Delivering /\ ~Delivering'
  BY DEF Replacing, Delivering
<1>2. TypeOK' /\ QueuesApart'
  BY DEF IInv, TypeOK, QueuesApart
<1>3. FramesMatch'
  BY <1>1 DEF IInv, FramesMatch
<1>4. HandlersMatch'
  <2>1. ASSUME NEW h PROVE Claims(h)' = Claims(h) /\ Places(h)' = Places(h)
    BY <1>1 DEF Claims, Places
  <2> QED BY <2>1 DEF IInv, HandlersMatch
<1>5. HandlerKept' /\ RunsHandlerSet'
  BY <1>1 DEF IInv, HandlerKept, RunsHandlerSet
<1> QED BY <1>2, <1>3, <1>4, <1>5 DEF IInv

LEMMA CompletionReturnStep ==
    ASSUME IInv, CompletionReturn
    PROVE  IInv'
<1> USE DEF CompletionReturn, userVars, kernelVars
<1>1. /\ Len(stack) \in Nat \ {0} /\ DOMAIN stack = 1 .. Len(stack)
      /\ DOMAIN stack' = 1 .. Len(stack) - 1 /\ stack' \in Seq(Frame)
      /\ Top = stack[Len(stack)]
  BY PopFrame DEF IInv
<1>2. Len(stack) = 1 /\ processing
  BY <1>1 DEF IInv, FramesMatch
<1>3. stack' = <<>> /\ DOMAIN stack' = {} /\ Delivering /\ ~Delivering' /\ cq # <<>>
  BY <1>1, <1>2 DEF Delivering, IInv, FramesMatch
<1>4. Replacing = {} /\ Replacing' = {}
  BY <1>1, <1>2, <1>3 DEF Replacing
<1>5. /\ cq' \in Seq(Reqs) /\ Head(cq) \in ElemsOf(cq) /\ NoRepeat(cq')
      /\ ElemsOf(cq') = ElemsOf(cq) \ {Head(cq)}
  BY <1>3, TailElems DEF IInv, TypeOK, QueuesApart
<1>6. TypeOK'
  BY <1>1, <1>5 DEF IInv, TypeOK
<1>7. QueuesApart'
  BY <1>5 DEF IInv, QueuesApart
<1>8. FramesMatch'
  BY <1>3, <1>4 DEF IInv, FramesMatch
<1>9. HandlersMatch'
  <2>1. ASSUME NEW h PROVE Claims(h)' = Claims(h) /\ Places(h)' = Places(h)
    BY <1>3, <1>4, <1>5 DEF Claims, Places
  <2> QED BY <2>1 DEF IInv, HandlersMatch
<1>10. HandlerKept' /\ RunsHandlerSet'
  BY <1>3, <1>4, <1>5 DEF IInv, HandlerKept, RunsHandlerSet
<1> QED BY <1>6, <1>7, <1>8, <1>9, <1>10 DEF IInv

LEMMA ReplacementReturnStep ==
    ASSUME IInv, ReplacementReturn
    PROVE  IInv'
<1> USE DEF ReplacementReturn, kernelVars
<1> SUFFICES ASSUME NEW r, NEW h, r = Top.sqe, h = Top.new
             PROVE  IInv'
  OBVIOUS
<1> DEFINE d == Len(stack)
<1>1. /\ d \in Nat \ {0} /\ DOMAIN stack = 1 .. d
      /\ DOMAIN stack' = 1 .. d - 1 /\ stack' \in Seq(Frame)
      /\ \A i \in 1 .. d - 1 : stack'[i] = stack[i]
      /\ Top \in Frame /\ Top = stack[d]
  BY PopFrame DEF IInv
<1>2. r \in Replacing /\ r \in ElemsOf(sq) /\ r \in Reqs /\ h \in MaybeHandler
  <2>1. r \in Replacing
    BY <1>1 DEF Replacing
  <2> QED BY <1>1, <2>1, ElemsType DEF IInv, FramesMatch, Frame
<1>3. \A i \in 1 .. d - 1 : stack[i].sqe # r
  BY <1>1 DEF IInv, FramesMatch
<1>4. Replacing' = Replacing \ {r}
  <2>1. Replacing = {stack[i].sqe : i \in 1 .. d} \ {NoReq}
    BY <1>1 DEF Replacing
  <2>2. Replacing' = {stack[i].sqe : i \in 1 .. d - 1} \ {NoReq}
    BY <1>1 DEF Replacing
  <2>3. {stack[i].sqe : i \in 1 .. d} = {stack[i].sqe : i \in 1 .. d - 1} \cup {r}
    BY <1>1
  <2> QED BY <2>1, <2>2, <2>3, <1>3
<1>5. Delivering <=> Delivering'
  <2>1. processing => d # 1
    BY <1>1 DEF IInv, FramesMatch
  <2>2. stack' # <<>> <=> d # 1
    BY <1>1
  <2> QED BY <2>1, <2>2 DEF Delivering
<1>6. h # NoHandler => handlers' = Append(handlers, h) /\ h \in Handlers
  BY <1>2 DEF Pushed, MaybeHandler
<1>7. h = NoHandler => handlers' = handlers
  BY DEF Pushed
<1>8. TypeOK'
  <2>1. handlers' \in Seq(Handlers)
    BY <1>6, <1>7, PushCount DEF IInv, TypeOK
  <2>2. ud' \in [Reqs -> MaybeHandler]
    BY <1>2 DEF IInv, TypeOK
  <2> QED BY <1>1, <2>1, <2>2 DEF IInv, TypeOK
<1>9. QueuesApart'
  BY DEF IInv, QueuesApart
<1>10. FramesMatch'
  <2>1. \A i \in DOMAIN stack' : stack'[i].sqe = NoReq <=> (i = 1 /\ processing')
    BY <1>1 DEF IInv, FramesMatch
  <2>2. \A i, j \in DOMAIN stack' : stack'[i].sqe = stack'[j].sqe => i = j
    BY <1>1 DEF IInv, FramesMatch
  <2> QED BY <1>4, <1>5, <2>1, <2>2 DEF IInv, FramesMatch
<1>11. HandlersMatch'
  <2>1. \A g \in Handlers : r \notin Claims(g)
    BY <1>2 DEF Claims, IInv, QueuesApart
  <2>2. \A q \in Reqs \ {r} : ud'[q] = ud[q]
    BY DEF IInv, TypeOK
  <2>3. ud'[r] = h
    BY <1>2 DEF IInv, TypeOK
  <2>4. ASSUME NEW g \in Handlers, g # h PROVE Claims(g)' = Claims(g)
    BY <1>2, <1>4, <1>5, <2>2, <2>3, <2>4, ElemsType DEF Claims, IInv
  <2>5. Claims(h)' = Claims(h) \cup {r}
    BY <1>2, <1>4, <1>5, <2>2, <2>3, ElemsType DEF Claims, IInv
  <2>6. CASE h = NoHandler
    <3>1. \A g \in Handlers : g # h
      BY <2>6, HandlersAssumption
    <3>2. ASSUME NEW g PROVE Places(g)' = Places(g)
      BY <1>7, <2>6 DEF Places
    <3> QED BY <2>4, <3>1, <3>2 DEF IInv, HandlersMatch
  <2>7. CASE h # NoHandler
    <3>1. Cardinality(Claims(h)') = Cardinality(Claims(h)) + 1
      BY <1>6, <2>1, <2>5, <2>7, ClaimsFinite, FS_AddElement DEF IInv
    <3>2. ASSUME NEW g \in Handlers
          PROVE  Cardinality(Places(g)') = IF g = h THEN Cardinality(Places(g)) + 1
                                                    ELSE Cardinality(Places(g))
      <4>1. handlers \in Seq(Handlers) /\ h \in Handlers
            /\ handlers' = Append(handlers, h)
        BY <1>6, <2>7 DEF IInv, TypeOK
      <4>2. Cardinality(PlacesIn(Append(handlers, h), g)) =
               IF g = h THEN Cardinality(PlacesIn(handlers, g)) + 1
                        ELSE Cardinality(PlacesIn(handlers, g))
        BY <4>1, PushCount
      <4> QED BY <4>1, <4>2, PlacesAre
    <3> QED BY <2>4, <3>1, <3>2 DEF IInv, HandlersMatch
  <2> QED BY <2>6, <2>7
<1>12. HandlerKept'
  <2>1. want[r] = h
    BY <1>1 DEF IInv, HandlerKept
  <2>2. \A q \in ElemsOf(sq) \ Replacing' : ud'[q] = want[q]
    BY <1>2, <1>4, <2>1, ElemsType DEF IInv, HandlerKept, TypeOK
  <2> QED BY <1>1, <2>2 DEF IInv, HandlerKept
<1>13. RunsHandlerSet'
  BY DEF IInv, RunsHandlerSet
<1> QED BY <1>8, <1>9, <1>10, <1>11, <1>12, <1>13 DEF IInv

LEMMA DestroyStep ==
    ASSUME IInv, Destroy \/ DestroyCall
    PROVE  IInv'
<1>1. CASE Destroy
  <2> USE <1>1 DEF Destroy
  <2>1. ElemsOf(<<>>) = {} /\ DOMAIN <<>> = {} /\ <<>> \in Seq(Reqs)
    BY DEF ElemsOf
  <2>2. Replacing' = {} /\ DOMAIN stack' = {} /\ ~Delivering'
    BY <2>1 DEF Replacing, Delivering
  <2>3. TypeOK'
    BY <2>1 DEF IInv, TypeOK
  <2>4. QueuesApart'
    BY <2>1 DEF QueuesApart, NoRepeat
  <2>5. FramesMatch'
    BY <2>2 DEF FramesMatch
  <2>6. HandlersMatch' /\ HandlerKept' /\ RunsHandlerSet'
    BY <2>1, <2>2 DEF HandlersMatch, HandlerKept, RunsHandlerSet
  <2> QED BY <2>3, <2>4, <2>5, <2>6 DEF IInv
<1>2. CASE DestroyCall
  <2> USE <1>2 DEF DestroyCall, userVars, kernelVars
  <2>1. exitAt \in Nat \ {0} /\ exitAt' # 0 /\ handlers[exitAt] \in Handlers
    BY DEF IInv, TypeOK
  <2>2. Replacing' = Replacing /\ (Delivering <=> Delivering')
    BY DEF Replacing, Delivering
  <2>3. TypeOK'
    <3>1. owed' \in [Handlers -> Int]
      BY <2>1, OweType DEF IInv, TypeOK, MaybeHandler
    <3>2. exitAt' \in Nat
      BY <2>1
    <3> QED BY <3>1, <3>2 DEF IInv, TypeOK
  <2>4. QueuesApart'
    BY DEF IInv, QueuesApart
  <2>5. FramesMatch'
    BY <2>1, <2>2 DEF IInv, FramesMatch
  <2>6. HandlersMatch' /\ HandlerKept' /\ RunsHandlerSet'
    BY <2>1, <2>2 DEF IInv, HandlersMatch, HandlerKept, RunsHandlerSet
  <2> QED BY <2>3, <2>4, <2>5, <2>6 DEF IInv
<1> QED BY <1>1, <1>2

LEMMA StutterStep ==
    ASSUME IInv, UNCHANGED vars
    PROVE  IInv'
<1> USE DEF vars
<1>1. Replacing' = Replacing /\ (Delivering <=> Delivering')
  BY DEF Replacing, Delivering
<1>2. TypeOK' /\ QueuesApart'
  BY DEF IInv, TypeOK, QueuesApart
<1>3. FramesMatch'
  BY <1>1 DEF IInv, FramesMatch
<1>4. HandlersMatch'
  <2>1. ASSUME NEW h PROVE Claims(h)' = Claims(h) /\ Places(h)' = Places(h)
    BY <1>1 DEF Claims, Places
  <2> QED BY <2>1 DEF IInv, HandlersMatch
<1>5. HandlerKept' /\ RunsHandlerSet'
  BY <1>1 DEF IInv, HandlerKept, RunsHandlerSet
<1> QED BY <1>2, <1>3, <1>4, <1>5 DEF IInv

LEMMA NextStep ==
    ASSUME IInv, QuietReplacement, [Next]_vars
    PROVE  IInv'
<1>1. CASE KernelNext
  BY <1>1, KernelStep DEF KernelNext
<1>2. CASE UserNext
  BY <1>2, GetSQEStep, SetFirstHandlerStep, ReplaceHandlerStep, SubmitStep,
     CancelHandlerStep, DestroyStep DEF UserNext
<1>3. CASE RingNext
  BY <1>3, ProcessNextStep, ProcessReturnStep, CompletionReturnStep,
     ReplacementReturnStep, DestroyStep, StutterStep DEF RingNext, Destroyed
<1>4. CASE UNCHANGED vars
  BY <1>4, StutterStep
<1> QED BY <1>1, <1>2, <1>3, <1>4 DEF Next

-----------------------------------------------------------------------------
(* What the ring owes *)

\* The places the destructor has not passed, and the setHandler calls that will
\* add a place.
Left(h) == {i \in Places(h) : i >= exitAt}
Adding(h) == {i \in DOMAIN stack : stack[i].new = h}

LEMMA OwedIs ==
    EachCalledOnce <=>
        /\ \A h \in Handlers : owed[h] = Cardinality(Left(h)) + Cardinality(Adding(h))
        /\ \A i \in DOMAIN stack : stack[i].sqe = NoReq => stack[i].new = NoHandler
BY DEF EachCalledOnce, Left, Adding

LEMMA OwedNext ==
    (/\ \A h \in Handlers :
           owed'[h] = Cardinality(Left(h)') + Cardinality(Adding(h)')
     /\ \A i \in DOMAIN stack' : stack'[i].sqe = NoReq => stack'[i].new = NoHandler)
    => EachCalledOnce'
BY DEF EachCalledOnce, Left, Adding

LEMMA CountsFinite ==
    ASSUME TypeOK, NEW h
    PROVE  /\ IsFiniteSet(Left(h)) /\ Cardinality(Left(h)) \in Nat
           /\ IsFiniteSet(Adding(h)) /\ Cardinality(Adding(h)) \in Nat
           /\ IsFiniteSet(Places(h)) /\ Cardinality(Places(h)) \in Nat
<1>1. handlers \in Seq(Handlers) /\ stack \in Seq(Frame)
  BY DEF TypeOK
<1>2. IsFiniteSet(Places(h)) /\ Cardinality(Places(h)) \in Nat
  BY <1>1, PlacesFinite, PlacesAre
<1>3. IsFiniteSet(1 .. Len(stack)) /\ Adding(h) \in SUBSET (1 .. Len(stack))
  BY <1>1, FS_Interval DEF Adding
<1>4. Left(h) \in SUBSET Places(h)
  BY DEF Left
<1> QED BY <1>2, <1>3, <1>4, FS_Subset, FS_CardinalityType

\* While the ring lives the destructor has passed no place.
LEMMA LeftIs ==
    ASSUME NEW h, handlers \in Seq(Handlers), exitAt = 0
    PROVE  Left(h) = Places(h)
BY DEF Left, Places

LEMMA LeftIsNext ==
    ASSUME NEW h, handlers' \in Seq(Handlers), exitAt' = 0
    PROVE  Left(h)' = Places(h)'
BY DEF Left, Places

\* A step that is about neither registrations nor calls.
LEMMA OwedUnchanged ==
    ASSUME EachCalledOnce, UNCHANGED <<handlers, stack, exitAt, owed>>
    PROVE  EachCalledOnce'
BY DEF EachCalledOnce, Places

\* setHandler puts its frame on the stack, and takes it off.
LEMMA PushAdding ==
    ASSUME TypeOK, NEW f \in Frame, stack' = Append(stack, f), NEW g
    PROVE  Cardinality(Adding(g)') =
               IF f.new = g THEN Cardinality(Adding(g)) + 1
                            ELSE Cardinality(Adding(g))
<1> DEFINE n == Len(stack) + 1
<1>1. /\ DOMAIN stack' = DOMAIN stack \cup {n} /\ n \notin DOMAIN stack
      /\ \A i \in DOMAIN stack : stack'[i] = stack[i]
      /\ stack'[n] = f
  BY PushFrame DEF TypeOK
<1> HIDE DEF n
<1>2. IsFiniteSet(Adding(g)) /\ n \notin Adding(g)
  BY <1>1, CountsFinite DEF Adding
<1>3. CASE f.new = g
  <2>1. Adding(g)' = Adding(g) \cup {n}
    BY <1>1, <1>3 DEF Adding
  <2> QED BY <1>2, <1>3, <2>1, FS_AddElement
<1>4. CASE f.new # g
  <2>1. Adding(g)' = Adding(g)
    BY <1>1, <1>4 DEF Adding
  <2> QED BY <1>4, <2>1
<1> QED BY <1>3, <1>4

LEMMA PopAdding ==
    ASSUME TypeOK, stack # <<>>, stack' = Popped, NEW g
    PROVE  Cardinality(Adding(g)') =
               IF Top.new = g THEN Cardinality(Adding(g)) - 1
                              ELSE Cardinality(Adding(g))
<1> DEFINE n == Len(stack)
<1>1. /\ n \in DOMAIN stack /\ DOMAIN stack' = DOMAIN stack \ {n}
      /\ \A i \in DOMAIN stack' : stack'[i] = stack[i]
      /\ Top = stack[n]
  BY PopFrame
<1> HIDE DEF n
<1>2. IsFiniteSet(Adding(g))
  BY CountsFinite
<1>3. Adding(g)' = Adding(g) \ {n}
  BY <1>1 DEF Adding
<1>4. CASE Top.new = g
  <2>1. n \in Adding(g)
    BY <1>1, <1>4 DEF Adding
  <2> QED BY <1>2, <1>3, <1>4, <2>1, FS_RemoveElement
<1>5. CASE Top.new # g
  <2>1. Adding(g)' = Adding(g)
    BY <1>1, <1>3, <1>5 DEF Adding
  <2> QED BY <1>5, <2>1
<1> QED BY <1>4, <1>5

\* What the history of calls records.
LEMMA OweValue ==
    ASSUME NEW o \in [Handlers -> Int], NEW h \in MaybeHandler, NEW g \in Handlers
    PROVE  /\ Owe(o, h)[g] = IF g = h THEN o[g] + 1 ELSE o[g]
           /\ Called(o, h)[g] = IF g = h THEN o[g] - 1 ELSE o[g]
<1>1. CASE h = NoHandler
  BY <1>1, HandlersAssumption DEF Owe, Called
<1>2. CASE h # NoHandler
  BY <1>2 DEF Owe, Called, MaybeHandler
<1> QED BY <1>1, <1>2

LEMMA OwedInit == Init => EachCalledOnce
<1> SUFFICES ASSUME Init PROVE EachCalledOnce
  OBVIOUS
<1>1. ASSUME NEW h \in Handlers PROVE Left(h) = {} /\ Adding(h) = {} /\ owed[h] = 0
  BY DEF Init, Left, Places, Adding
<1>2. DOMAIN stack = {}
  BY DEF Init
<1>3. Cardinality({}) = 0
  BY FS_EmptySet
<1>4. ASSUME NEW h \in Handlers
      PROVE  owed[h] = Cardinality(Left(h)) + Cardinality(Adding(h))
  <2>1. Cardinality(Left(h)) = 0 /\ Cardinality(Adding(h)) = 0
    BY <1>1, <1>3
  <2> QED BY <1>1, <2>1
<1> QED BY <1>2, <1>4, OwedIs

LEMMA OwedSetFirst ==
    ASSUME IInv, IInv', EachCalledOnce, NEW r \in Reqs, NEW h \in MaybeHandler,
           SetFirstHandler(r, h)
    PROVE  EachCalledOnce'
<1>1. /\ h \in Handlers /\ handlers' = Append(handlers, h) /\ stack' = stack
      /\ exitAt = 0 /\ exitAt' = 0 /\ owed' = Owe(owed, h)
  BY DEF SetFirstHandler, MaybeHandler, UserTurn, Pushed
<1>2. TypeOK /\ TypeOK'
  BY DEF IInv
<1>3. ASSUME NEW g \in Handlers
      PROVE  owed'[g] = Cardinality(Left(g)') + Cardinality(Adding(g)')
  <2>1. Left(g) = Places(g) /\ Left(g)' = Places(g)'
    BY <1>1, <1>2, LeftIs, LeftIsNext DEF TypeOK
  <2>2. Cardinality(Places(g)') = IF g = h THEN Cardinality(Places(g)) + 1
                                           ELSE Cardinality(Places(g))
    BY <1>1, <1>2, PushCount, PlacesAre DEF TypeOK
  <2>3. Adding(g)' = Adding(g)
    BY <1>1 DEF Adding
  <2>4. owed'[g] = IF g = h THEN owed[g] + 1 ELSE owed[g]
    BY <1>1, <1>2, OweValue DEF TypeOK
  <2>5. owed[g] = Cardinality(Left(g)) + Cardinality(Adding(g))
    BY OwedIs
  <2>6. Cardinality(Places(g)) \in Nat /\ Cardinality(Adding(g)) \in Nat
    BY <1>2, CountsFinite
  <2> QED BY <2>1, <2>2, <2>3, <2>4, <2>5, <2>6
<1> QED BY <1>1, <1>3, OwedIs, OwedNext

LEMMA OwedReplace ==
    ASSUME IInv, IInv', EachCalledOnce, NEW r \in Reqs, NEW h \in MaybeHandler,
           QuietReplacement, ReplaceHandler(r, h)
    PROVE  EachCalledOnce'
<1> DEFINE old == ud[r]
           f == [run |-> old, sqe |-> r, new |-> h]
<1>1. /\ old \in Handlers /\ r \in ElemsOf(sq) \ Replacing /\ exitAt = 0 /\ exitAt' = 0
      /\ handlers' = DropFrom(handlers, old) /\ stack' = Append(stack, f)
      /\ owed' = Owe(Called(owed, old), h)
  BY DEF ReplaceHandler, IInv, TypeOK, MaybeHandler, UserTurn
<1>2. TypeOK /\ TypeOK' /\ f \in Frame /\ f.new = h /\ f.sqe = r /\ r # NoReq
  BY <1>1, ReqsAssumption DEF IInv, Frame
<1>3. old \in ElemsOf(handlers)
  <2>1. r \in Claims(old)
    BY <1>1 DEF Claims
  <2> QED BY <1>1, <2>1, DropFinds
<1> HIDE DEF old, f
<1>4. ASSUME NEW g \in Handlers
      PROVE  owed'[g] = Cardinality(Left(g)') + Cardinality(Adding(g)')
  <2>1. Left(g) = Places(g) /\ Left(g)' = Places(g)'
    BY <1>1, <1>2, LeftIs, LeftIsNext DEF TypeOK
  <2>2. Cardinality(Places(g)') = IF g = old THEN Cardinality(Places(g)) - 1
                                             ELSE Cardinality(Places(g))
    BY <1>1, <1>2, <1>3, DropCount, PlacesAre DEF TypeOK
  <2>3. Cardinality(Adding(g)') = IF h = g THEN Cardinality(Adding(g)) + 1
                                           ELSE Cardinality(Adding(g))
    BY <1>1, <1>2, PushAdding
  <2>4. Called(owed, old) \in [Handlers -> Int]
        /\ Called(owed, old)[g] = IF g = old THEN owed[g] - 1 ELSE owed[g]
    BY <1>1, <1>2, OweValue, OweType DEF TypeOK, MaybeHandler
  <2>5. owed'[g] = IF g = h THEN Called(owed, old)[g] + 1 ELSE Called(owed, old)[g]
    BY <1>1, <2>4, OweValue
  <2>6. owed[g] = Cardinality(Left(g)) + Cardinality(Adding(g))
    BY OwedIs
  <2>7. Cardinality(Places(g)) \in Nat /\ Cardinality(Adding(g)) \in Nat
    BY <1>2, CountsFinite
  <2> QED BY <2>1, <2>2, <2>3, <2>4, <2>5, <2>6, <2>7
<1>5. \A i \in DOMAIN stack' : stack'[i].sqe = NoReq => stack'[i].new = NoHandler
  BY <1>1, <1>2, PushFrame, OwedIs
<1> QED BY <1>4, <1>5, OwedNext

LEMMA OwedProcess ==
    ASSUME IInv, IInv', EachCalledOnce, ProcessNext
    PROVE  EachCalledOnce'
<1> DEFINE r == Head(cq)
           h == data[r]
           f == [run |-> h, sqe |-> NoReq, new |-> NoHandler]
<1>1. exitAt = 0 /\ exitAt' = exitAt /\ stack = <<>> /\ cq # <<>>
  BY DEF ProcessNext
<1>2. TypeOK /\ TypeOK'
  BY DEF IInv
<1>3. CASE h = NoHandler
  <2>1. UNCHANGED <<handlers, stack, exitAt, owed>>
    BY <1>3 DEF ProcessNext
  <2> QED BY <2>1, OwedUnchanged
<1>4. CASE h # NoHandler
  <2>1. handlers' = DropFrom(handlers, h) /\ stack' = <<f>> /\ owed' = Called(owed, h)
    BY <1>4 DEF ProcessNext
  <2>2. r \in ElemsOf(cq) /\ r \in Reqs
    BY <1>1, TailElems, ElemsType DEF IInv, TypeOK, QueuesApart
  <2>3. h \in Handlers
    BY <1>2, <1>4, <2>2 DEF TypeOK, MaybeHandler
  <2>4. h \in ElemsOf(handlers)
    <3>1. r \in Claims(h)
      BY <1>1, <2>2 DEF Claims, Delivering
    <3> QED BY <1>1, <2>3, <3>1, DropFinds
  <2>5. DOMAIN stack' = {1} /\ stack'[1] = f /\ f.new = NoHandler
    <3>1. f.new = NoHandler
      OBVIOUS
    <3> HIDE DEF f
    <3> QED BY <2>1, <3>1
  <2> HIDE DEF f, h
  <2>6. ASSUME NEW g \in Handlers
        PROVE  owed'[g] = Cardinality(Left(g)') + Cardinality(Adding(g)')
    <3>1. Left(g) = Places(g) /\ Left(g)' = Places(g)'
      BY <1>1, <1>2, LeftIs, LeftIsNext DEF TypeOK
    <3>2. Cardinality(Places(g)') = IF g = h THEN Cardinality(Places(g)) - 1
                                             ELSE Cardinality(Places(g))
      BY <1>2, <2>1, <2>4, DropCount, PlacesAre DEF TypeOK
    <3>3. Adding(g) = {} /\ Adding(g)' = {}
      BY <1>1, <2>5, HandlersAssumption DEF Adding
    <3>4. owed'[g] = IF g = h THEN owed[g] - 1 ELSE owed[g]
      BY <1>2, <2>1, <2>3, OweValue DEF TypeOK, MaybeHandler
    <3>5. owed[g] = Cardinality(Left(g)) + Cardinality(Adding(g))
      BY OwedIs
    <3>6. Cardinality(Places(g)) \in Nat /\ Cardinality({}) = 0
      BY <1>2, CountsFinite, FS_EmptySet
    <3> QED BY <3>1, <3>2, <3>3, <3>4, <3>5, <3>6
  <2> QED BY <2>5, <2>6, OwedNext
<1> QED BY <1>3, <1>4

LEMMA OwedCompletionReturn ==
    ASSUME IInv, EachCalledOnce, CompletionReturn
    PROVE  EachCalledOnce'
<1>1. /\ exitAt' = exitAt /\ handlers' = handlers /\ owed' = owed
      /\ stack # <<>> /\ stack' = Popped /\ Top.sqe = NoReq
  BY DEF CompletionReturn, userVars
<1>2. TypeOK
  BY DEF IInv
<1>3. /\ Len(stack) \in Nat \ {0} /\ DOMAIN stack = 1 .. Len(stack)
      /\ DOMAIN stack' \subseteq DOMAIN stack
      /\ \A i \in DOMAIN stack' : stack'[i] = stack[i]
      /\ Top = stack[Len(stack)]
  BY <1>1, <1>2, PopFrame
<1>4. Top.new = NoHandler
  BY <1>1, <1>3, OwedIs
<1>5. ASSUME NEW g \in Handlers
      PROVE  owed'[g] = Cardinality(Left(g)') + Cardinality(Adding(g)')
  <2>1. Left(g)' = Left(g)
    BY <1>1 DEF Left, Places
  <2>2. Cardinality(Adding(g)') = Cardinality(Adding(g))
    BY <1>1, <1>2, <1>4, PopAdding, HandlersAssumption
  <2> QED BY <1>1, <2>1, <2>2, OwedIs
<1>6. \A i \in DOMAIN stack' : stack'[i].sqe = NoReq => stack'[i].new = NoHandler
  BY <1>3, OwedIs
<1> QED BY <1>5, <1>6, OwedNext

LEMMA OwedReplacementReturn ==
    ASSUME IInv, IInv', EachCalledOnce, ReplacementReturn
    PROVE  EachCalledOnce'
<1> DEFINE h == Top.new
<1>1. /\ exitAt = 0 /\ exitAt' = 0 /\ handlers' = Pushed(handlers, h) /\ owed' = owed
      /\ stack # <<>> /\ stack' = Popped
  BY DEF ReplacementReturn
<1>2. TypeOK /\ TypeOK'
  BY DEF IInv
<1>3. /\ DOMAIN stack = 1 .. Len(stack) /\ DOMAIN stack' \subseteq DOMAIN stack
      /\ \A i \in DOMAIN stack' : stack'[i] = stack[i]
      /\ h \in MaybeHandler
  BY <1>1, <1>2, PopFrame DEF Frame
<1> HIDE DEF h
<1>4. ASSUME NEW g \in Handlers
      PROVE  owed'[g] = Cardinality(Left(g)') + Cardinality(Adding(g)')
  <2>1. Left(g) = Places(g) /\ Left(g)' = Places(g)'
    BY <1>1, <1>2, LeftIs, LeftIsNext DEF TypeOK
  <2>2. Cardinality(Places(g)') = IF g = h THEN Cardinality(Places(g)) + 1
                                           ELSE Cardinality(Places(g))
    <3>1. CASE h = NoHandler
      <4>1. handlers' = handlers /\ g # h
        BY <1>1, <3>1, HandlersAssumption DEF Pushed
      <4>2. Places(g)' = Places(g)
        BY <4>1 DEF Places
      <4> QED BY <4>1, <4>2
    <3>2. CASE h # NoHandler
      <4>1. h \in Handlers /\ handlers' = Append(handlers, h)
        BY <1>1, <1>3, <3>2 DEF Pushed, MaybeHandler
      <4> QED BY <1>2, <4>1, PushCount, PlacesAre DEF TypeOK
    <3> QED BY <3>1, <3>2
  <2>3. Cardinality(Adding(g)') = IF h = g THEN Cardinality(Adding(g)) - 1
                                           ELSE Cardinality(Adding(g))
    BY <1>1, <1>2, PopAdding DEF h
  <2>4. owed[g] = Cardinality(Left(g)) + Cardinality(Adding(g))
    BY OwedIs
  <2>5. Cardinality(Places(g)) \in Nat /\ Cardinality(Adding(g)) \in Nat
    BY <1>2, CountsFinite
  <2> QED BY <1>1, <2>1, <2>2, <2>3, <2>4, <2>5
<1>5. \A i \in DOMAIN stack' : stack'[i].sqe = NoReq => stack'[i].new = NoHandler
  BY <1>3, OwedIs
<1> QED BY <1>4, <1>5, OwedNext

LEMMA OwedDestroy ==
    ASSUME IInv, EachCalledOnce, Destroy
    PROVE  EachCalledOnce'
<1>1. exitAt = 0 /\ exitAt' = 1 /\ handlers' = handlers /\ stack' = stack /\ owed' = owed
  BY DEF Destroy
<1>2. handlers \in Seq(Handlers)
  BY DEF IInv, TypeOK
<1>3. ASSUME NEW g PROVE Left(g)' = Left(g) /\ Adding(g)' = Adding(g)
  BY <1>1, <1>2 DEF Left, Places, Adding
<1> QED BY <1>1, <1>3, OwedIs, OwedNext

LEMMA OwedDestroyCall ==
    ASSUME IInv, EachCalledOnce, DestroyCall
    PROVE  EachCalledOnce'
<1> DEFINE e == exitAt
           h == handlers[e]
<1>1. /\ e \in 1 .. Len(handlers) /\ exitAt' = e + 1 /\ handlers' = handlers
      /\ owed' = Called(owed, h) /\ stack' = stack
  BY DEF DestroyCall, userVars
<1>2. TypeOK /\ h \in Handlers /\ e \in Nat /\ DOMAIN handlers = 1 .. Len(handlers)
  BY <1>1 DEF IInv, TypeOK
<1> HIDE DEF h
<1>3. ASSUME NEW g \in Handlers
      PROVE  owed'[g] = Cardinality(Left(g)') + Cardinality(Adding(g)')
  <2>1. Left(g)' = Left(g) \ {e}
    BY <1>1, <1>2 DEF Left, Places
  <2>2. e \in Left(g) <=> g = h
    BY <1>1, <1>2 DEF Left, Places, h
  <2>3. IsFiniteSet(Left(g)) /\ Cardinality(Left(g)) \in Nat
        /\ Cardinality(Adding(g)) \in Nat
    BY <1>2, CountsFinite
  <2>4. Cardinality(Left(g)') = IF g = h THEN Cardinality(Left(g)) - 1
                                         ELSE Cardinality(Left(g))
    <3>1. CASE g = h
      BY <2>1, <2>2, <2>3, <3>1, FS_RemoveElement
    <3>2. CASE g # h
      <4>1. Left(g)' = Left(g)
        BY <2>1, <2>2, <3>2
      <4> QED BY <3>2, <4>1
    <3> QED BY <3>1, <3>2
  <2>5. Adding(g)' = Adding(g)
    BY <1>1 DEF Adding
  <2>6. owed'[g] = IF g = h THEN owed[g] - 1 ELSE owed[g]
    BY <1>1, <1>2, OweValue DEF TypeOK, MaybeHandler
  <2>7. owed[g] = Cardinality(Left(g)) + Cardinality(Adding(g))
    BY OwedIs
  <2> QED BY <2>3, <2>4, <2>5, <2>6, <2>7
<1> QED BY <1>1, <1>3, OwedIs, OwedNext

LEMMA OwedStep ==
    ASSUME IInv, IInv', EachCalledOnce, QuietReplacement, [Next]_vars
    PROVE  EachCalledOnce'
<1>1. CASE KernelNext
  <2>1. UNCHANGED <<handlers, stack, exitAt, owed>>
    BY <1>1 DEF KernelNext, Complete, ExecCancel, userVars
  <2> QED BY <2>1, OwedUnchanged
<1>2. CASE UserNext
  <2>1. CASE \E r \in Reqs : GetSQE(r)
    <3>1. UNCHANGED <<handlers, stack, exitAt, owed>>
      BY <2>1 DEF GetSQE
    <3> QED BY <3>1, OwedUnchanged
  <2>2. CASE \E n \in 1 .. Entries : Submit(n)
    <3>1. UNCHANGED <<handlers, stack, exitAt, owed>>
      BY <2>2 DEF Submit
    <3> QED BY <3>1, OwedUnchanged
  <2>3. CASE \E h \in Handlers, r \in Reqs, n \in 0 .. Entries : CancelHandler(h, r, n)
    <3>1. UNCHANGED <<handlers, stack, exitAt, owed>>
      BY <2>3 DEF CancelHandler
    <3> QED BY <3>1, OwedUnchanged
  <2> QED BY <1>2, <2>1, <2>2, <2>3, OwedSetFirst, OwedReplace, OwedDestroy DEF UserNext
<1>3. CASE RingNext
  <2>1. CASE ProcessReturn
    <3>1. UNCHANGED <<handlers, stack, exitAt, owed>>
      BY <2>1 DEF ProcessReturn, userVars
    <3> QED BY <3>1, OwedUnchanged
  <2>2. CASE Destroyed
    <3>1. UNCHANGED <<handlers, stack, exitAt, owed>>
      BY <2>2 DEF Destroyed, vars
    <3> QED BY <3>1, OwedUnchanged
  <2> QED BY <1>3, <2>1, <2>2, OwedProcess, OwedCompletionReturn, OwedReplacementReturn,
             OwedDestroyCall DEF RingNext
<1>4. CASE UNCHANGED vars
  <2>1. UNCHANGED <<handlers, stack, exitAt, owed>>
    BY <1>4 DEF vars
  <2> QED BY <2>1, OwedUnchanged
<1> QED BY <1>1, <1>2, <1>3, <1>4 DEF Next

-----------------------------------------------------------------------------
(* The theorems *)

\* With handlers that are quiet while they are replaced, the bookkeeping of
\* the ring is consistent in every state of every execution.
THEOREM Invariance == QuietReplacement => (Spec => []IInv)
<1> SUFFICES ASSUME QuietReplacement PROVE Spec => []IInv
  OBVIOUS
<1>1. Init => IInv
  BY InitHolds
<1>2. IInv /\ [Next]_vars => IInv'
  BY NextStep
<1> QED BY <1>1, <1>2, PTL DEF Spec

\* The state keeps its types.
THEOREM Typing == QuietReplacement => (Spec => []TypeOK)
<1>1. IInv => TypeOK
  BY DEF IInv
<1> QED BY <1>1, Invariance, PTL

\* dropHandler always finds the handler it is to remove from the vector, for
\* any number of requests, of handlers shared between them and of callbacks
\* that use the ring while it calls them.
THEOREM DropIsDefined == QuietReplacement => (Spec => []DropFindsHandler)
<1>1. IInv => DropFindsHandler
  BY DropFinds DEF DropFindsHandler
<1> QED BY <1>1, Invariance, PTL

\* The handler a completion runs is the one last set on its entry.
THEOREM RunsRightHandler == QuietReplacement => (Spec => []RunsHandlerSet)
<1>1. IInv => RunsHandlerSet
  BY DEF IInv
<1> QED BY <1>1, Invariance, PTL

\* Every registration of a handler is answered by exactly one call, by its
\* completion, by the setHandler that replaces it, or by the destructor.
THEOREM CalledOnce == QuietReplacement => (Spec => []EachCalledOnce)
<1> SUFFICES ASSUME QuietReplacement PROVE Spec => []EachCalledOnce
  OBVIOUS
<1>1. Init => EachCalledOnce
  BY OwedInit
<1>2. IInv /\ IInv' /\ EachCalledOnce /\ [Next]_vars => EachCalledOnce'
  BY OwedStep
<1>3. Spec => []IInv
  BY Invariance
<1> QED BY <1>1, <1>2, <1>3, PTL DEF Spec
=============================================================================
