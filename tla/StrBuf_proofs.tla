----------------------------- MODULE StrBuf_proofs -----------------------------
(***************************************************************************)
(* Proofs that string buffers own their memory and hold the texts they     *)
(* were given, for any buffers, characters, pieces, memory and lengths.    *)
(***************************************************************************)
EXTENDS StrBuf, SequenceTheorems, TLAPS

-----------------------------------------------------------------------------
(* Buffers *)

\* What an object that is in use holds fits where it is.
Fits(b) ==
    IF obj[b].dyn
    THEN /\ heap[obj[b].ptr] # Gone
         /\ heap[obj[b].ptr].size = obj[b].cap /\ obj[b].cap > BufLen
         /\ obj[b].len <= Len(heap[obj[b].ptr].chars)
         /\ Len(heap[obj[b].ptr].chars) <= obj[b].cap
    ELSE Len(obj[b].chars) <= BufLen

\* Ownership from the buffers' side: all memory has an owner, and two buffers do
\* not share any.
Unshared ==
    /\ \A p \in Addrs : heap[p] # Gone => \E b \in Bufs : IsDyn(b) /\ obj[b].ptr = p
    /\ \A b, c \in Bufs : IsDyn(b) /\ IsDyn(c) /\ obj[b].ptr = obj[c].ptr => b = c
    /\ \A b \in Bufs : Alive(b) => Fits(b)

LEMMA ObjectIs ==
    ASSUME TypeOK, NEW b \in Bufs, obj[b] # Gone
    PROVE  \/ obj[b].dyn = FALSE /\ obj[b].chars \in Seq(Chars)
           \/ /\ obj[b].dyn = TRUE /\ obj[b].ptr \in Addrs
              /\ obj[b].cap \in Nat /\ obj[b].len \in Nat
BY DEF TypeOK, Objects

\* What holds until memory was given back to an allocator that had it.
Sound == TypeOK /\ Owned

LEMMA StorageIs == Sound <=> TypeOK /\ Unshared
<1>1. Sound => Unshared
  <2> SUFFICES ASSUME Sound PROVE Unshared
    OBVIOUS
  <2>1. \A b \in Bufs : Alive(b) => Fits(b)
    BY DEF Sound, Owned, Fits
  <2>2. \A b \in Bufs : IsDyn(b) => obj[b].ptr \in Addrs /\ heap[obj[b].ptr] # Gone
    BY <2>1, ObjectIs DEF Sound, Owned, IsDyn, Alive, Fits
  <2>3. \A p \in Addrs : heap[p] # Gone =>
           \E b \in Bufs : IsDyn(b) /\ obj[b].ptr = p
    BY DEF Sound, Owned, Owners
  <2>4. ASSUME NEW b \in Bufs, NEW c \in Bufs, IsDyn(b), IsDyn(c),
               obj[b].ptr = obj[c].ptr
        PROVE  b = c
    <3>1. PICK o \in Bufs : Owners(obj[b].ptr) = {o}
      BY <2>2, <2>4 DEF Sound, Owned
    <3>2. b \in Owners(obj[b].ptr) /\ c \in Owners(obj[b].ptr)
      BY <2>4 DEF Owners
    <3> QED BY <3>1, <3>2
  <2> QED BY <2>1, <2>3, <2>4 DEF Unshared
<1>2. Sound => TypeOK
  BY DEF Sound
<1>3. TypeOK /\ Unshared => Sound
  <2> SUFFICES ASSUME TypeOK, Unshared PROVE Sound
    OBVIOUS
  <2>1. ASSUME NEW p \in Addrs, heap[p] # Gone
        PROVE  \E b \in Bufs : Owners(p) = {b}
    <3>1. PICK b \in Bufs : IsDyn(b) /\ obj[b].ptr = p
      BY <2>1 DEF Unshared
    <3>2. Owners(p) = {b}
      BY <3>1 DEF Owners, Unshared
    <3> QED BY <3>2
  <2> QED BY <2>1 DEF Sound, Owned, Unshared, Fits
<1> QED BY <1>1, <1>2, <1>3

LEMMA StorageIsNext == TypeOK' /\ Unshared' => Sound'
BY StorageIs, PTL

\* What a buffer in use holds.
LEMMA Holding ==
    ASSUME Sound, NEW b \in Bufs, Alive(b)
    PROVE  /\ Text(b) \in Seq(Chars) /\ Len(Text(b)) = Size(b)
           /\ Size(b) \in Nat /\ Cap(b) \in Nat
           /\ Size(b) <= Cap(b) /\ BufLen <= Cap(b)
           /\ obj[b].dyn => /\ obj[b].ptr \in Addrs /\ heap[obj[b].ptr] \in Blocks
                            /\ Cap(b) = obj[b].cap /\ BufLen < Cap(b)
           /\ ~obj[b].dyn => Size(b) <= BufLen
<1>1. TypeOK /\ Fits(b) /\ obj[b] # Gone
  BY StorageIs DEF Unshared, Alive
<1>2. CASE obj[b].dyn = FALSE /\ obj[b].chars \in Seq(Chars)
  <2>1. Len(obj[b].chars) \in Nat
    BY <1>2, LenProperties
  <2> QED BY <1>1, <1>2, <2>1, LengthsAssumption DEF Fits, Text, Size, Cap
<1>3. CASE /\ obj[b].dyn = TRUE /\ obj[b].ptr \in Addrs
           /\ obj[b].cap \in Nat /\ obj[b].len \in Nat
  <2> DEFINE s == heap[obj[b].ptr].chars
  <2>1. heap[obj[b].ptr] \in Blocks
    BY <1>1, <1>3 DEF Fits, TypeOK
  <2>2. s \in Seq(Chars)
    BY <2>1 DEF Blocks
  <2>3. obj[b].len <= Len(s) /\ Len(s) <= obj[b].cap /\ Len(s) \in Nat
        /\ BufLen < obj[b].cap
    BY <1>1, <1>3, <2>2, LenProperties DEF Fits
  <2>4. Text(b) = SubSeq(s, 1, obj[b].len)
    BY <1>3 DEF Text
  <2> HIDE DEF s
  <2>5. SubSeq(s, 1, obj[b].len) \in Seq(Chars) /\ Len(SubSeq(s, 1, obj[b].len)) = obj[b].len
    BY <1>3, <2>2, <2>3, SubSeqProperties
  <2> QED BY <1>3, <2>1, <2>3, <2>4, <2>5, LengthsAssumption DEF Size, Cap
<1> QED BY <1>1, <1>2, <1>3, ObjectIs

LEMMA OneOwner ==
    ASSUME Sound
    PROVE  /\ \A b, c \in Bufs : IsDyn(b) /\ IsDyn(c) /\ obj[b].ptr = obj[c].ptr => b = c
           /\ \A b \in Bufs : IsDyn(b) => obj[b].ptr \in Addrs /\ heap[obj[b].ptr] # Gone
BY StorageIs, ObjectIs DEF Unshared, IsDyn, Alive, Fits

-----------------------------------------------------------------------------
(* What a step does to buffers and memory *)

Same(c) == obj'[c] = obj[c] /\ (c \in lost' <=> c \in lost)

\* A buffer that a step leaves alone.
LEMMA Untouched ==
    ASSUME NEW c \in Bufs, Same(c)
    PROVE  /\ Alive(c)' <=> Alive(c)
           /\ IsDyn(c)' <=> IsDyn(c)
           /\ (IsDyn(c) => heap'[obj[c].ptr] = heap[obj[c].ptr]) =>
                 /\ Alive(c) => (Fits(c)' <=> Fits(c))
                 /\ TextOf(c)' = TextOf(c)
<1>1. Alive(c)' <=> Alive(c)
  BY DEF Same, Alive
<1>2. IsDyn(c)' <=> IsDyn(c)
  BY <1>1 DEF Same, IsDyn
<1>3. ASSUME IsDyn(c) => heap'[obj[c].ptr] = heap[obj[c].ptr]
      PROVE  /\ Alive(c) => (Fits(c)' <=> Fits(c))
             /\ TextOf(c)' = TextOf(c)
  <2>1. ASSUME Alive(c) PROVE Text(c)' = Text(c) /\ (Fits(c)' <=> Fits(c))
    <3>1. CASE obj[c].dyn
      BY <1>3, <2>1, <3>1 DEF Same, IsDyn, Text, Fits
    <3>2. CASE ~obj[c].dyn
      BY <3>2 DEF Same, Text, Fits
    <3> QED BY <3>1, <3>2
  <2> QED BY <2>1 DEF Same, Alive, TextOf
<1> QED BY <1>1, <1>2, <1>3

\* A buffer that keeps its text in the object.
LEMMA InlineIs ==
    ASSUME NEW b \in Bufs, NEW t \in Seq(Chars), Len(t) <= BufLen,
           obj'[b] = Inline(t), b \notin lost'
    PROVE  Alive(b)' /\ ~IsDyn(b)' /\ Fits(b)' /\ TextOf(b)' = t
<1>1. Inline(t) \in Objects
  BY DEF Inline, Objects
<1>2. obj'[b] # Gone
  BY <1>1, GoneAssumption
<1>3. obj'[b].dyn = FALSE /\ obj'[b].chars = t
  BY DEF Inline
<1> QED BY <1>2, <1>3 DEF Alive, IsDyn, Fits, TextOf, Text

\* A buffer that keeps it in memory.
LEMMA DynamicIs ==
    ASSUME NEW b \in Bufs, NEW t \in Seq(Chars), NEW p \in Addrs, NEW n \in Nat,
           Len(t) <= n, BufLen < n,
           obj'[b] = Dynamic(p, n, Len(t)), heap'[p] = Block(n, t), b \notin lost'
    PROVE  Alive(b)' /\ IsDyn(b)' /\ obj'[b].ptr = p /\ Fits(b)' /\ TextOf(b)' = t
<1>1. Len(t) \in Nat
  BY LenProperties
<1>2. Dynamic(p, n, Len(t)) \in Objects /\ Block(n, t) \in Blocks
  BY <1>1 DEF Dynamic, Objects, Block, Blocks
<1>3. obj'[b] # Gone /\ heap'[p] # Gone
  BY <1>2, GoneAssumption
<1>4. /\ obj'[b].dyn = TRUE /\ obj'[b].ptr = p /\ obj'[b].cap = n
      /\ obj'[b].len = Len(t)
      /\ heap'[p].size = n /\ heap'[p].chars = t
  BY DEF Dynamic, Block
<1>5. SubSeq(t, 1, Len(t)) = t
  BY SubSeqFull
<1>6. Alive(b)' /\ IsDyn(b)'
  BY <1>3, <1>4 DEF Alive, IsDyn
<1>7. Fits(b)'
  BY <1>1, <1>3, <1>4 DEF Fits
<1>8. TextOf(b)' = t
  BY <1>3, <1>4, <1>5 DEF TextOf, Text
<1> QED BY <1>4, <1>6, <1>7, <1>8

LEMMA RecordOf ==
    ASSUME NEW B, NEW r, r \in [dyn : B, ptr : Addrs, cap : Nat, len : Nat], NEW k
    PROVE  [r EXCEPT !.len = k] =
              [dyn |-> r.dyn, ptr |-> r.ptr, cap |-> r.cap, len |-> k]
OBVIOUS

LEMMA LengthSet ==
    ASSUME NEW r, r \in [dyn : {TRUE}, ptr : Addrs, cap : Nat, len : Nat], NEW k
    PROVE  [r EXCEPT !.len = k] = Dynamic(r.ptr, r.cap, k)
<1>1. r.dyn = TRUE
  OBVIOUS
<1>2. [r EXCEPT !.len = k] =
         [dyn |-> r.dyn, ptr |-> r.ptr, cap |-> r.cap, len |-> k]
  BY RecordOf
<1> QED BY <1>1, <1>2, Zenon DEF Dynamic

\* The memory that a buffer gives back is no other's.
LEMMA GivenBack ==
    ASSUME Sound, NEW d \in Bufs
    PROVE  /\ \A p \in Addrs : Deallocated(d)[p] =
                 IF IsDyn(d) /\ p = obj[d].ptr THEN Gone ELSE heap[p]
           /\ \A c \in Bufs : c # d /\ IsDyn(c) =>
                 /\ obj[c].ptr \in Addrs /\ heap[obj[c].ptr] # Gone
                 /\ Deallocated(d)[obj[c].ptr] = heap[obj[c].ptr]
           /\ Deallocated(d) \in [Addrs -> Blocks \cup {Gone}]
<1>1. heap \in [Addrs -> Blocks \cup {Gone}]
  BY DEF Sound, TypeOK
<1>2. \A p \in Addrs : Deallocated(d)[p] =
         IF IsDyn(d) /\ p = obj[d].ptr THEN Gone ELSE heap[p]
  BY <1>1 DEF Deallocated
<1>3. Deallocated(d) \in [Addrs -> Blocks \cup {Gone}]
  BY <1>1 DEF Deallocated
<1> QED BY <1>2, <1>3, OneOwner

\* A step that changes the buffers of a set D: those keep what the others own
\* apart from what they own themselves, and lose none of it.
LEMMA Reassembled ==
    ASSUME Sound, TypeOK', NEW D \in SUBSET Bufs,
           \A c \in Bufs \ D :
               Same(c) /\ (IsDyn(c) => heap'[obj[c].ptr] = heap[obj[c].ptr]),
           \A c \in D : Alive(c)' => Fits(c)',
           \A p \in Addrs : heap'[p] # Gone =>
               \/ \E c \in D : IsDyn(c)' /\ obj'[c].ptr = p
               \/ heap[p] # Gone /\ \A c \in D : ~(IsDyn(c) /\ obj[c].ptr = p),
           \A c \in D, e \in Bufs \ D :
               IsDyn(c)' /\ IsDyn(e) => obj'[c].ptr # obj[e].ptr,
           \A c, e \in D :
               IsDyn(c)' /\ IsDyn(e)' /\ obj'[c].ptr = obj'[e].ptr => c = e
    PROVE  Sound' /\ \A c \in Bufs \ D : TextOf(c)' = TextOf(c)
<1>1. Unshared
  BY StorageIs
<1>2. \A c \in Bufs \ D :
         /\ obj'[c] = obj[c] /\ (Alive(c)' <=> Alive(c)) /\ (IsDyn(c)' <=> IsDyn(c))
         /\ Alive(c) => (Fits(c)' <=> Fits(c))
         /\ TextOf(c)' = TextOf(c)
  BY Untouched DEF Same
<1>3. ASSUME NEW p \in Addrs, heap'[p] # Gone
      PROVE  \E b \in Bufs : IsDyn(b)' /\ obj'[b].ptr = p
  <2>1. CASE \E c \in D : IsDyn(c)' /\ obj'[c].ptr = p
    BY <2>1
  <2>2. CASE heap[p] # Gone /\ \A c \in D : ~(IsDyn(c) /\ obj[c].ptr = p)
    <3>1. PICK b \in Bufs : IsDyn(b) /\ obj[b].ptr = p
      BY <1>1, <2>2 DEF Unshared
    <3>2. b \in Bufs \ D
      BY <2>2, <3>1
    <3> QED BY <1>2, <3>1, <3>2
  <2> QED BY <1>3, <2>1, <2>2
<1>4. ASSUME NEW b \in Bufs, NEW c \in Bufs, IsDyn(b)', IsDyn(c)',
             obj'[b].ptr = obj'[c].ptr
      PROVE  b = c
  <2>1. CASE b \in D /\ c \in D
    BY <1>4, <2>1
  <2>2. CASE b \in D /\ c \notin D
    BY <1>2, <1>4, <2>2
  <2>3. CASE b \notin D /\ c \in D
    BY <1>2, <1>4, <2>3
  <2>4. CASE b \notin D /\ c \notin D
    BY <1>1, <1>2, <1>4, <2>4 DEF Unshared
  <2> QED BY <2>1, <2>2, <2>3, <2>4
<1>5. \A b \in Bufs : Alive(b)' => Fits(b)'
  BY <1>1, <1>2 DEF Unshared
<1>6. Unshared'
  BY <1>3, <1>4, <1>5 DEF Unshared
<1> QED BY <1>2, <1>6, StorageIsNext

\* A text is written to where the buffer keeps its own; another buffer that kept
\* its text in the object may be left empty.
LEMMA WriteKeeps ==
    ASSUME Sound, NEW d \in Bufs, NEW s \in Bufs, Alive(d), Alive(s),
           s = d \/ ~obj[s].dyn,
           NEW t \in Seq(Chars), Len(t) <= Cap(d),
           obj' = IF s = d THEN [obj EXCEPT ![d] = With(d, t)]
                  ELSE [obj EXCEPT ![d] = With(d, t), ![s] = Inline(<<>>)],
           heap' = Written(d, t), lost' = lost /\ corrupt' = corrupt
    PROVE  /\ Sound' /\ TextOf(d)' = t
           /\ s # d => TextOf(s)' = <<>>
           /\ \A c \in Bufs \ {d, s} : TextOf(c)' = TextOf(c)
<1>1. TypeOK
  BY DEF Sound
<1>2. obj'[d] = With(d, t) /\ \A c \in Bufs \ {d} :
         obj'[c] = IF c = s THEN Inline(<<>>) ELSE obj[c]
  BY <1>1 DEF TypeOK
<1>3. <<>> \in Seq(Chars) /\ Len(<<>>) = 0 /\ BufLen >= 0
  BY EmptySeq, LengthsAssumption
<1>4. s # d => Alive(s)' /\ ~IsDyn(s)' /\ Fits(s)' /\ TextOf(s)' = <<>>
  BY <1>2, <1>3, InlineIs DEF Alive
<1>5. Inline(t) \in Objects /\ Inline(<<>>) \in Objects
  BY <1>3 DEF Inline, Objects
<1>6. CASE ~obj[d].dyn
  <2>1. Len(t) <= BufLen /\ obj'[d] = Inline(t) /\ heap' = heap
    BY <1>2, <1>6 DEF Cap, With, Written
  <2>2. Alive(d)' /\ ~IsDyn(d)' /\ Fits(d)' /\ TextOf(d)' = t
    BY <2>1, InlineIs DEF Alive
  <2>3. TypeOK'
    <3>1. obj' \in [Bufs -> Objects \cup {Gone}]
      BY <1>1, <1>5, <1>6 DEF TypeOK, With
    <3>2. \A c \in lost : obj'[c] = obj[c]
      BY <1>1, <1>2 DEF TypeOK, Alive
    <3> QED BY <1>1, <2>1, <3>1, <3>2 DEF TypeOK
  <2>4. \A c \in {d, s} : ~IsDyn(c)' /\ ~IsDyn(c) /\ Fits(c)'
    BY <1>4, <1>6, <2>2 DEF IsDyn
  <2>5. \A c \in Bufs \ {d, s} : Same(c) /\ heap'[obj[c].ptr] = heap[obj[c].ptr]
    BY <1>2, <2>1 DEF Same
  <2>6. Sound' /\ \A c \in Bufs \ {d, s} : TextOf(c)' = TextOf(c)
    BY <2>1, <2>3, <2>4, <2>5, Reassembled
  <2> QED BY <1>4, <2>2, <2>6
<1>7. CASE obj[d].dyn
  <2> DEFINE p == obj[d].ptr
             n == obj[d].cap
  <2>1. /\ p \in Addrs /\ heap[p] \in Blocks /\ n \in Nat /\ BufLen < n
        /\ Cap(d) = n /\ heap[p].size = n /\ IsDyn(d) /\ heap[p] # Gone
    BY <1>1, <1>7, Holding, StorageIs, ObjectIs
       DEF Unshared, Fits, Alive, IsDyn, Cap
  <2>2. obj'[d] = Dynamic(p, n, Len(t))
    <3>1. obj[d] \in [dyn : {TRUE}, ptr : Addrs, cap : Nat, len : Nat]
      BY <1>1, <1>7 DEF TypeOK, Objects, Alive
    <3>2. obj'[d] = [obj[d] EXCEPT !.len = Len(t)]
      BY <1>2, <1>7 DEF With
    <3>3. [obj[d] EXCEPT !.len = Len(t)] = Dynamic(obj[d].ptr, obj[d].cap, Len(t))
      BY ONLY <3>1, LengthSet, Zenon
    <3> QED BY ONLY <3>2, <3>3, Zenon
  <2>3. heap'[p] = Block(n, t) /\ \A q \in Addrs : q # p => heap'[q] = heap[q]
    <3>1. heap' = [heap EXCEPT ![p].chars = t]
      BY <1>7 DEF Written
    <3>2. heap[p] \in [size : Nat, chars : Seq(Chars)]
      BY <2>1 DEF Blocks
    <3> QED BY <1>1, <2>1, <3>1, <3>2 DEF TypeOK, Block
  <2> HIDE DEF p, n
  <2>4. Len(t) <= n /\ d \notin lost'
    BY <2>1 DEF Alive
  <2>5. /\ Alive(d)' /\ IsDyn(d)' /\ obj'[d].ptr = p /\ Fits(d)'
        /\ TextOf(d)' = t
    BY <2>1, <2>2, <2>3, <2>4, DynamicIs
  <2>6. TypeOK'
    <3>1. Dynamic(p, n, Len(t)) \in Objects /\ Block(n, t) \in Blocks
      BY <2>1, LenProperties DEF Dynamic, Objects, Block, Blocks
    <3>2. \A c \in Bufs : obj'[c] \in Objects \cup {Gone}
      BY <1>1, <1>2, <1>5, <2>2, <3>1 DEF TypeOK
    <3>3. obj' \in [Bufs -> Objects \cup {Gone}]
      BY <1>1, <3>2 DEF TypeOK
    <3>4. heap' \in [Addrs -> Blocks \cup {Gone}]
      <4>1. \A q \in Addrs : heap'[q] \in Blocks \cup {Gone}
        BY <1>1, <2>3, <3>1 DEF TypeOK
      <4>2. heap' = [heap EXCEPT ![p].chars = t]
        BY <1>7 DEF Written, p
      <4> QED BY <1>1, <4>1, <4>2 DEF TypeOK
    <3>5. \A c \in lost : obj'[c] = obj[c]
      BY <1>1, <1>2 DEF TypeOK, Alive
    <3> QED BY <1>1, <3>3, <3>4, <3>5 DEF TypeOK
  <2>7. \A c \in Bufs \ {d, s} :
           Same(c) /\ (IsDyn(c) => heap'[obj[c].ptr] = heap[obj[c].ptr] /\ obj[c].ptr # p)
    BY <1>2, <2>1, <2>3, OneOwner DEF Same, p
  <2>8. s # d => ~IsDyn(s) /\ ~IsDyn(s)' /\ Fits(s)'
    BY <1>4 DEF IsDyn
  <2>9. \A q \in Addrs : heap'[q] # Gone => q = p \/ (heap[q] # Gone /\ q # p)
    BY <2>3
  <2> DEFINE D == {d, s}
  <2>10. Sound' /\ \A c \in Bufs \ D : TextOf(c)' = TextOf(c)
    <3>1. D \in SUBSET Bufs
      OBVIOUS
    <3>2. \A c \in D : Fits(c)' /\ (c = d \/ (~IsDyn(c)' /\ ~IsDyn(c)))
      BY <2>5, <2>8
    <3>3. obj[d].ptr = p
      BY DEF p
    <3>4. ASSUME NEW q \in Addrs, heap'[q] # Gone
          PROVE  \/ \E c \in D : IsDyn(c)' /\ obj'[c].ptr = q
                 \/ heap[q] # Gone /\ \A c \in D : ~(IsDyn(c) /\ obj[c].ptr = q)
      BY <2>5, <2>9, <3>2, <3>3, <3>4
    <3>5. \A c \in D, e \in Bufs \ D :
             IsDyn(c)' /\ IsDyn(e) => obj'[c].ptr # obj[e].ptr
      BY <2>5, <2>7, <3>2
    <3>6. \A c, e \in D :
             IsDyn(c)' /\ IsDyn(e)' /\ obj'[c].ptr = obj'[e].ptr => c = e
      BY <3>2
    <3>7. \A c \in Bufs \ D :
             Same(c) /\ (IsDyn(c) => heap'[obj[c].ptr] = heap[obj[c].ptr])
      BY <2>7
    <3> HIDE DEF D
    <3> QED BY <2>6, <3>1, <3>2, <3>4, <3>5, <3>6, <3>7, Reassembled
  <2> QED BY <1>4, <2>5, <2>10
<1> QED BY <1>6, <1>7

\* The buffer gives back its memory, and keeps a text in the object, or is of no
\* use any more.
LEMMA GiveBackKeeps ==
    ASSUME Sound, NEW d \in Bufs, NEW v \in Objects \cup {Gone},
           obj' = [obj EXCEPT ![d] = v], heap' = Deallocated(d),
           lost' \in {lost, lost \cup {d}},
           corrupt' = corrupt, \A b \in lost' : obj'[b] # Gone /\ obj'[b].dyn,
           \/ ~Alive(d)'
           \/ d \notin lost' /\ \E t \in Seq(Chars) : v = Inline(t) /\ Len(t) <= BufLen
    PROVE  Sound' /\ \A c \in Bufs \ {d} : TextOf(c)' = TextOf(c)
<1>1. TypeOK
  BY DEF Sound
<1>2. obj'[d] = v /\ \A c \in Bufs \ {d} : obj'[c] = obj[c]
  BY <1>1 DEF TypeOK
<1>3. TypeOK'
  <2>1. obj' \in [Bufs -> Objects \cup {Gone}]
    BY <1>1 DEF TypeOK
  <2>2. heap' \in [Addrs -> Blocks \cup {Gone}]
    BY GivenBack
  <2>3. lost' \subseteq Bufs
    BY <1>1 DEF TypeOK
  <2> QED BY <1>1, <2>1, <2>2, <2>3 DEF TypeOK
<1>4. ~IsDyn(d)' /\ (Alive(d)' => Fits(d)')
  <2>1. CASE ~Alive(d)'
    BY <2>1 DEF IsDyn
  <2>2. CASE d \notin lost' /\ \E t \in Seq(Chars) : v = Inline(t) /\ Len(t) <= BufLen
    BY <1>2, <2>2, InlineIs
  <2> QED BY <2>1, <2>2
<1>5. \A c \in Bufs \ {d} :
         Same(c) /\ (IsDyn(c) => heap'[obj[c].ptr] = heap[obj[c].ptr])
  BY <1>2, GivenBack DEF Same
<1>6. \A p \in Addrs : heap'[p] # Gone => heap[p] # Gone /\ ~(IsDyn(d) /\ obj[d].ptr = p)
  BY GivenBack
<1>7. {d} \in SUBSET Bufs
  OBVIOUS
<1> QED BY <1>3, <1>4, <1>5, <1>6, <1>7, Reassembled

\* The buffer keeps a text in memory that was free.
LEMMA AllocateKeeps ==
    ASSUME Sound, NEW d \in Bufs, NEW t \in Seq(Chars), NEW n \in Nat,
           NEW p \in Addrs, Deallocated(d)[p] = Gone, Len(t) <= n, BufLen < n,
           obj' = [obj EXCEPT ![d] = Dynamic(p, n, Len(t))],
           heap' = [Deallocated(d) EXCEPT ![p] = Block(n, t)],
           lost' = lost /\ corrupt' = corrupt, d \notin lost
    PROVE  /\ Sound' /\ TextOf(d)' = t
           /\ \A c \in Bufs \ {d} : TextOf(c)' = TextOf(c)
<1>1. TypeOK
  BY DEF Sound
<1>2. obj'[d] = Dynamic(p, n, Len(t)) /\ \A c \in Bufs \ {d} : obj'[c] = obj[c]
  BY <1>1 DEF TypeOK
<1>3. \A q \in Addrs : heap'[q] = IF q = p THEN Block(n, t) ELSE Deallocated(d)[q]
  BY GivenBack
<1>4. Dynamic(p, n, Len(t)) \in Objects /\ Block(n, t) \in Blocks
  BY LenProperties DEF Dynamic, Objects, Block, Blocks
<1>5. TypeOK'
  <2>1. obj' \in [Bufs -> Objects \cup {Gone}]
    BY <1>1, <1>4 DEF TypeOK
  <2>2. heap' \in [Addrs -> Blocks \cup {Gone}]
    BY <1>4, GivenBack
  <2>3. lost' \subseteq {b \in Bufs : obj'[b] # Gone /\ obj'[b].dyn}
    BY <1>1, <1>2 DEF TypeOK
  <2> QED BY <1>1, <2>1, <2>2, <2>3 DEF TypeOK
<1>6. /\ IsDyn(d)' /\ obj'[d].ptr = p /\ Fits(d)' /\ TextOf(d)' = t
  BY <1>2, <1>3, DynamicIs
<1>7. \A c \in Bufs \ {d} :
         Same(c) /\ (IsDyn(c) => heap'[obj[c].ptr] = heap[obj[c].ptr] /\ obj[c].ptr # p)
  BY <1>2, <1>3, GivenBack DEF Same
<1>8. \A q \in Addrs : heap'[q] # Gone =>
         q = p \/ (heap[q] # Gone /\ ~(IsDyn(d) /\ obj[d].ptr = q))
  BY <1>3, GivenBack
<1> DEFINE D == {d}
<1>9. Sound' /\ \A c \in Bufs \ D : TextOf(c)' = TextOf(c)
  <2>1. D \in SUBSET Bufs /\ \A c \in D : c = d
    OBVIOUS
  <2>2. \A q \in Addrs : heap'[q] # Gone =>
           \/ \E c \in D : IsDyn(c)' /\ obj'[c].ptr = q
           \/ heap[q] # Gone /\ \A c \in D : ~(IsDyn(c) /\ obj[c].ptr = q)
    BY <1>6, <1>8
  <2>3. \A c \in Bufs \ D :
           Same(c) /\ (IsDyn(c) => heap'[obj[c].ptr] = heap[obj[c].ptr])
    BY <1>7
  <2>4. \A c \in D, e \in Bufs \ D :
           IsDyn(c)' /\ IsDyn(e) => obj'[c].ptr # obj[e].ptr
    BY <1>6, <1>7
  <2>5. \A c \in D : Fits(c)'
    BY <1>6
  <2>6. \A c, e \in D : c = e
    OBVIOUS
  <2> HIDE DEF D
  <2> QED BY <1>5, <2>1, <2>2, <2>3, <2>4, <2>5, <2>6, Reassembled
<1> QED BY <1>6, <1>9

\* The buffer takes over what another one has, memory or not, and gives back its
\* own.
LEMMA TakeOverKeeps ==
    ASSUME Sound, NEW d \in Bufs, NEW s \in Bufs, d # s, Alive(s), d \notin lost,
           obj' = [obj EXCEPT ![d] = obj[s], ![s] = Inline(<<>>)],
           heap' = Deallocated(d), lost' = lost /\ corrupt' = corrupt
    PROVE  /\ Sound' /\ TextOf(d)' = TextOf(s) /\ TextOf(s)' = <<>>
           /\ \A c \in Bufs \ {d, s} : TextOf(c)' = TextOf(c)
<1>1. TypeOK /\ Unshared /\ obj[s] # Gone /\ s \notin lost
  BY StorageIs DEF Alive
<1>2. /\ obj'[d] = obj[s] /\ obj'[s] = Inline(<<>>)
      /\ \A c \in Bufs \ {d, s} : obj'[c] = obj[c]
  BY <1>1 DEF TypeOK
<1>3. <<>> \in Seq(Chars) /\ Len(<<>>) = 0 /\ 0 <= BufLen
  BY EmptySeq, LengthsAssumption
<1>4. Inline(<<>>) \in Objects /\ Inline(<<>>) # Gone
  <2>1. Inline(<<>>) \in Objects
    BY <1>3 DEF Inline, Objects
  <2> QED BY <2>1, GoneAssumption
<1>5. TypeOK'
  <2>1. obj' \in [Bufs -> Objects \cup {Gone}]
    BY <1>1, <1>4 DEF TypeOK
  <2>2. heap' \in [Addrs -> Blocks \cup {Gone}]
    BY GivenBack
  <2>3. lost' \subseteq {b \in Bufs : obj'[b] # Gone /\ obj'[b].dyn}
    BY <1>1, <1>2, <1>4 DEF TypeOK
  <2> QED BY <1>1, <2>1, <2>2, <2>3 DEF TypeOK
<1>6. ~IsDyn(s)' /\ Fits(s)' /\ TextOf(s)' = <<>>
  BY <1>1, <1>2, <1>3, InlineIs
<1>7. IsDyn(s) => heap'[obj[s].ptr] = heap[obj[s].ptr] /\ obj[s].ptr \in Addrs
  BY GivenBack
<1>8. /\ Alive(d)' /\ (IsDyn(d)' <=> IsDyn(s)) /\ obj'[d].ptr = obj[s].ptr
      /\ Fits(d)' /\ TextOf(d)' = TextOf(s)
  <2>1. Alive(d)' /\ (IsDyn(d)' <=> IsDyn(s)) /\ Fits(s)
    BY <1>1, <1>2 DEF Alive, IsDyn, Unshared
  <2>2. CASE obj[s].dyn
    <3>1. IsDyn(s)
      BY <2>2 DEF IsDyn
    <3>2. heap'[obj'[d].ptr] = heap[obj[s].ptr] /\ d \notin lost'
      BY <1>2, <1>7, <3>1
    <3>3. Fits(d)'
      <4>1. /\ heap[obj[s].ptr] # Gone /\ heap[obj[s].ptr].size = obj[s].cap
            /\ obj[s].cap > BufLen
            /\ obj[s].len <= Len(heap[obj[s].ptr].chars)
            /\ Len(heap[obj[s].ptr].chars) <= obj[s].cap
        BY <2>1, <2>2 DEF Fits
      <4>2. obj'[d].dyn
        BY <1>2, <2>2
      <4>3. /\ heap'[obj'[d].ptr] # Gone /\ heap'[obj'[d].ptr].size = obj'[d].cap
            /\ obj'[d].cap > BufLen
            /\ obj'[d].len <= Len(heap'[obj'[d].ptr].chars)
            /\ Len(heap'[obj'[d].ptr].chars) <= obj'[d].cap
        BY <1>2, <3>2, <4>1, Zenon
      <4> QED BY <4>2, <4>3 DEF Fits
    <3>4. Text(d)' = Text(s)
      <4>1. obj'[d].dyn
        BY <1>2, <2>2
      <4>2. Text(d)' = SubSeq(heap'[obj'[d].ptr].chars, 1, obj'[d].len)
        BY <4>1 DEF Text
      <4>3. Text(s) = SubSeq(heap[obj[s].ptr].chars, 1, obj[s].len)
        BY <2>2 DEF Text
      <4> QED BY <1>2, <3>2, <4>2, <4>3, Zenon
    <3>5. TextOf(d)' = TextOf(s)
      BY <1>1, <1>2, <3>2, <3>4 DEF TextOf
    <3> QED BY <1>2, <2>1, <3>1, <3>3, <3>5
  <2>3. CASE ~obj[s].dyn
    BY <1>1, <1>2, <2>1, <2>3 DEF Fits, TextOf, Text
  <2> QED BY <2>1, <2>2, <2>3
<1>9. \A c \in Bufs \ {d, s} :
         Same(c) /\ (IsDyn(c) => heap'[obj[c].ptr] = heap[obj[c].ptr])
  BY <1>2, GivenBack DEF Same
<1> DEFINE D == {d, s}
<1>10. Sound' /\ \A c \in Bufs \ D : TextOf(c)' = TextOf(c)
  <2>1. D \in SUBSET Bufs /\ \A c \in D : Fits(c)' /\ (c = d \/ ~IsDyn(c)')
    BY <1>6, <1>8
  <2>2. ASSUME NEW q \in Addrs, heap'[q] # Gone
        PROVE  \/ \E c \in D : IsDyn(c)' /\ obj'[c].ptr = q
               \/ heap[q] # Gone /\ \A c \in D : ~(IsDyn(c) /\ obj[c].ptr = q)
    <3>1. heap[q] # Gone /\ ~(IsDyn(d) /\ obj[d].ptr = q)
      BY <2>2, GivenBack
    <3>2. CASE IsDyn(s) /\ obj[s].ptr = q
      BY <1>8, <3>2
    <3>3. CASE ~(IsDyn(s) /\ obj[s].ptr = q)
      BY <3>1, <3>3
    <3> QED BY <3>2, <3>3
  <2>3. \A c \in Bufs \ D :
           Same(c) /\ (IsDyn(c) => heap'[obj[c].ptr] = heap[obj[c].ptr])
    BY <1>9
  <2>4. \A c \in D, e \in Bufs \ D :
           IsDyn(c)' /\ IsDyn(e) => obj'[c].ptr # obj[e].ptr
    BY <1>8, <2>1, OneOwner
  <2>5. \A c, e \in D :
           IsDyn(c)' /\ IsDyn(e)' /\ obj'[c].ptr = obj'[e].ptr => c = e
    BY <2>1
  <2> HIDE DEF D
  <2> QED BY <1>5, <2>1, <2>2, <2>3, <2>4, <2>5, Reassembled
<1> QED BY <1>6, <1>8, <1>10

-----------------------------------------------------------------------------
(* One lemma for each operation: it keeps ownership, and is a step of Texts *)

Texts(b, t) == TextOf(b)' = t /\ \A c \in Bufs \ {b} : TextOf(c)' = TextOf(c)

LEMMA BecomeIs ==
    ASSUME NEW b \in Bufs, NEW t, Texts(b, t)
    PROVE  Contents!Become(b, t)
<1>1. \A c \in Bufs : TextOf(c)' = IF c = b THEN t ELSE TextOf(c)
  BY DEF Texts
<1>2. [c \in Bufs |-> TextOf(c)'] = [[c \in Bufs |-> TextOf(c)] EXCEPT ![b] = t]
  BY <1>1
<1> QED BY <1>2 DEF Contents!Become

\* A buffer in use holds a text that can be read.
LEMMA HoldsIs ==
    ASSUME Sound, NEW b \in Bufs, Alive(b)
    PROVE  /\ TextOf(b) = Text(b) /\ Contents!Holds(b)
           /\ [c \in Bufs |-> TextOf(c)][b] = Text(b)
<1>1. TextOf(b) = Text(b)
  BY DEF Alive, TextOf
<1>2. Text(b) # Gone /\ Text(b) # Unusable
  BY Holding, GoneAssumption
<1> QED BY <1>1, <1>2 DEF Contents!Holds

\* A name without a buffer.
LEMMA AbsentIs ==
    ASSUME NEW b \in Bufs, obj[b] = Gone
    PROVE  /\ [c \in Bufs |-> TextOf(c)][b] = Gone
           /\ [c \in Bufs |-> TextOf(c)][b] # Unusable
BY GoneAssumption DEF TextOf

\* There is no memory at first.
LEMMA InitHolds == Init => Sound /\ Contents!Init
<1> SUFFICES ASSUME Init PROVE Sound /\ Contents!Init
  OBVIOUS
<1>1. Sound
  BY DEF Init, Sound, Owned, TypeOK, Alive, IsDyn, Owners
<1>2. \A b \in Bufs : TextOf(b) = Gone
  BY DEF Init, TextOf
<1> QED BY <1>1, <1>2 DEF Contents!Init

LEMMA EmptyInline == <<>> \in Seq(Chars) /\ Len(<<>>) <= BufLen /\ Inline(<<>>) \in Objects
BY EmptySeq, LengthsAssumption DEF Inline, Objects

LEMMA InlineObject ==
    ASSUME NEW t \in Seq(Chars)
    PROVE  Inline(t) \in Objects /\ Inline(t) # Gone
<1>1. Inline(t) \in Objects
  BY DEF Inline, Objects
<1> QED BY <1>1, GoneAssumption

LEMMA ConstructStep ==
    ASSUME Sound, NEW b \in Bufs, Construct(b)
    PROVE  Sound' /\ Contents!Construct(b)
<1>1. TypeOK /\ obj[b] = Gone /\ b \notin lost
  BY DEF Sound, TypeOK, Construct
<1>2. /\ obj' = [obj EXCEPT ![b] = Inline(<<>>)] /\ heap' = heap
      /\ lost' = lost /\ corrupt' = corrupt
  BY DEF Construct
<1>3. Deallocated(b) = heap
  BY <1>1 DEF Deallocated, IsDyn, Alive
<1>4. obj'[b] = Inline(<<>>) /\ \A c \in Bufs \ {b} : obj'[c] = obj[c]
  BY <1>1, <1>2 DEF TypeOK
<1>5. \A c \in lost' : obj'[c] # Gone /\ obj'[c].dyn
  BY <1>1, <1>2, <1>4 DEF TypeOK
<1>6. Sound' /\ \A c \in Bufs \ {b} : TextOf(c)' = TextOf(c)
  BY <1>1, <1>2, <1>3, <1>5, EmptyInline, GiveBackKeeps
<1>7. TextOf(b)' = <<>>
  BY <1>1, <1>2, <1>4, EmptyInline, InlineIs
<1>8. Contents!Become(b, <<>>)
  BY <1>6, <1>7, BecomeIs DEF Texts
<1> QED BY <1>1, <1>6, <1>8, AbsentIs DEF Contents!Construct

LEMMA DestroyStep ==
    ASSUME Sound, NEW b \in Bufs, Destroy(b)
    PROVE  Sound' /\ Contents!Destroy(b)
<1>1. TypeOK /\ Alive(b)
  BY DEF Sound, Destroy
<1>2. /\ obj' = [obj EXCEPT ![b] = Gone] /\ heap' = Deallocated(b)
      /\ lost' = lost /\ corrupt' = corrupt
  BY DEF Destroy
<1>3. obj'[b] = Gone /\ \A c \in Bufs \ {b} : obj'[c] = obj[c]
  BY <1>1, <1>2 DEF TypeOK
<1>4. ~Alive(b)' /\ \A c \in lost' : obj'[c] # Gone /\ obj'[c].dyn
  BY <1>1, <1>2, <1>3 DEF Alive, TypeOK
<1>5. Sound' /\ \A c \in Bufs \ {b} : TextOf(c)' = TextOf(c)
  BY <1>2, <1>4, GiveBackKeeps
<1>6. TextOf(b)' = Gone
  BY <1>3 DEF TextOf
<1>7. Contents!Become(b, Gone)
  BY <1>5, <1>6, BecomeIs DEF Texts
<1> QED BY <1>1, <1>5, <1>7, HoldsIs DEF Contents!Destroy

\* The memory that a lost object gives back again is taken from the one buffer
\* that has it now, or nothing is claimed any more.
LEMMA DestroyLostStep ==
    ASSUME Sound, NEW b \in Bufs, DestroyLost(b)
    PROVE  StorageOwned' /\ Contents!DestroyUnusable(b)
<1> DEFINE p == obj[b].ptr
           T == [c \in Bufs |-> TextOf(c)]
<1>1. /\ TypeOK /\ b \in lost /\ obj[b] # Gone /\ obj[b].dyn
  BY DEF Sound, TypeOK, DestroyLost
<1>2. /\ p \in Addrs /\ heap[p] \in Blocks \cup {Gone}
  BY <1>1, ObjectIs DEF TypeOK
<1>3. /\ obj' = [obj EXCEPT ![b] = Gone] /\ heap' = [heap EXCEPT ![p] = Gone]
      /\ lost' = (lost \ {b}) \cup Owners(p) /\ corrupt' = (heap[p] = Gone)
  BY DEF DestroyLost
<1> HIDE DEF p
<1>4. /\ obj'[b] = Gone /\ \A c \in Bufs \ {b} : obj'[c] = obj[c]
      /\ \A q \in Addrs : heap'[q] = IF q = p THEN Gone ELSE heap[q]
  BY <1>1, <1>2, <1>3 DEF TypeOK
<1>5. \A c \in Owners(p) : c \in Bufs /\ c # b /\ obj[c] # Gone /\ obj[c].dyn
  BY <1>1 DEF Owners, IsDyn, Alive
<1>6. TypeOK'
  <2>1. obj' \in [Bufs -> Objects \cup {Gone}] /\ heap' \in [Addrs -> Blocks \cup {Gone}]
    BY <1>1, <1>2, <1>3 DEF TypeOK
  <2>2. lost' \subseteq {c \in Bufs : obj'[c] # Gone /\ obj'[c].dyn}
    BY <1>1, <1>3, <1>4, <1>5 DEF TypeOK
  <2> QED BY <1>3, <2>1, <2>2 DEF TypeOK
<1>7. TextOf(b)' = Gone /\ T[b] = Unusable
  BY <1>1, <1>4 DEF TextOf
<1>8. \A c \in Bufs \ ({b} \cup Owners(p)) :
         Same(c) /\ (IsDyn(c) => heap'[obj[c].ptr] = heap[obj[c].ptr])
  BY <1>3, <1>4, OneOwner DEF Same, Owners
<1>9. CASE heap[p] = Gone
  <2>1. Owners(p) = {}
    BY <1>9, OneOwner DEF Owners, p
  <2>2. \A c \in Bufs \ {b} : TextOf(c)' = TextOf(c)
    BY <1>8, <2>1, Untouched
  <2>3. Contents!Become(b, Gone)
    BY <1>7, <2>2, BecomeIs DEF Texts
  <2> QED BY <1>3, <1>6, <1>7, <1>9, <2>3
          DEF StorageOwned, Contents!DestroyUnusable
<1>10. CASE heap[p] # Gone
  <2>1. PICK c \in Bufs : Owners(p) = {c}
    BY <1>2, <1>10 DEF Sound, Owned
  <2>2. /\ c \in lost' /\ c # b /\ obj'[c] # Gone
        /\ IsDyn(c) /\ obj[c].ptr = p /\ Alive(c)
    BY <1>3, <1>4, <1>5, <2>1 DEF Owners, IsDyn
  <2> DEFINE D == {b, c}
  <2>3. Sound' /\ \A e \in Bufs \ D : TextOf(e)' = TextOf(e)
    <3>1. \A e \in D : ~Alive(e)' /\ ~IsDyn(e)'
      BY <1>4, <2>2 DEF Alive, IsDyn
    <3>2. \A e \in Bufs \ D :
             Same(e) /\ (IsDyn(e) => heap'[obj[e].ptr] = heap[obj[e].ptr])
      BY <1>8, <2>1
    <3>3. \A q \in Addrs : heap'[q] # Gone =>
             heap[q] # Gone /\ \A e \in D : ~(IsDyn(e) /\ obj[e].ptr = q)
      BY <1>1, <1>4, <2>2 DEF IsDyn, Alive
    <3>4. D \in SUBSET Bufs
      BY <2>1
    <3> HIDE DEF D
    <3> QED BY <1>6, <3>1, <3>2, <3>3, <3>4, Reassembled
  <2>4. TextOf(c)' = Unusable
    BY <2>2 DEF TextOf
  <2>5. [e \in Bufs |-> TextOf(e)'] = [T EXCEPT ![b] = Gone, ![c] = Unusable]
    BY <1>7, <2>2, <2>3, <2>4
  <2>6. Contents!Holds(c)
    BY <2>2, HoldsIs
  <2> QED BY <1>7, <2>3, <2>5, <2>6
          DEF StorageOwned, Sound, Contents!DestroyUnusable
<1> QED BY <1>9, <1>10

\* A text written over the one that was there, as WriteKeeps with one buffer.
LEMMA OverwriteStep ==
    ASSUME Sound, NEW b \in Bufs, Alive(b),
           NEW t \in Seq(Chars), Len(t) <= Cap(b),
           Overwrite(b, t), lost' = lost /\ corrupt' = corrupt
    PROVE  Sound' /\ Contents!Become(b, t)
<1>1. obj' = [obj EXCEPT ![b] = With(b, t)] /\ heap' = Written(b, t)
  BY DEF Overwrite
<1>2. Sound' /\ Texts(b, t)
  BY <1>1, WriteKeeps DEF Texts
<1> QED BY <1>2, BecomeIs

LEMMA ShrinkStep ==
    ASSUME Sound, NEW b \in Bufs, NEW len \in 0 .. MaxLen, ShrinkTo(b, len)
    PROVE  Sound' /\ Contents!Shorten(b)
<1> DEFINE t == SubSeq(Text(b), 1, len)
<1>1. /\ Alive(b) /\ len < Size(b) /\ Overwrite(b, t)
      /\ lost' = lost /\ corrupt' = corrupt
  BY DEF ShrinkTo
<1>2. /\ Text(b) \in Seq(Chars) /\ Len(Text(b)) = Size(b) /\ Size(b) \in Nat
      /\ Cap(b) \in Nat /\ Size(b) <= Cap(b)
  BY <1>1, Holding
<1>3. len \in Nat /\ len \in 0 .. Len(Text(b))
  BY <1>1, <1>2
<1>4. t \in Seq(Chars) /\ Len(t) = len
  BY <1>2, <1>3, SubSeqProperties
<1>5. Len(t) <= Cap(b)
  BY <1>1, <1>2, <1>3, <1>4
<1> HIDE DEF t
<1>6. Sound' /\ Contents!Become(b, t)
  BY <1>1, <1>4, <1>5, OverwriteStep
<1>7. Contents!Holds(b) /\ [c \in Bufs |-> TextOf(c)][b] = Text(b)
  BY <1>1, HoldsIs
<1> QED BY <1>3, <1>6, <1>7 DEF Contents!Shorten, t

\* Half as much again as a length beyond the object's room is more than that.
LEMMA GrownIs ==
    ASSUME NEW n \in Nat, BufLen < n
    PROVE  /\ n + n \div 2 \in Nat /\ n <= n + n \div 2
           /\ BufLen < n + n \div 2
BY LengthsAssumption

LEMMA AppendStep ==
    ASSUME Sound, NEW b \in Bufs, NEW s \in Pieces, NEW extra \in Reserves,
           AppendPiece(b, s, Len(s) + extra)
    PROVE  Sound' /\ Contents!Extend(b, s)
<1> DEFINE amt == Len(s) + extra
           newlen == Size(b) + amt
           t == Text(b) \o s
<1>1. /\ Alive(b) /\ lost' = lost /\ corrupt' = corrupt
      /\ IF newlen <= Cap(b) THEN Overwrite(b, t) ELSE Grow(b, newlen, t)
  BY DEF AppendPiece
<1>2. /\ Text(b) \in Seq(Chars) /\ Len(Text(b)) = Size(b) /\ Size(b) \in Nat
      /\ Cap(b) \in Nat /\ BufLen <= Cap(b)
  BY <1>1, Holding
<1>3. s \in Seq(Chars) /\ extra \in Nat
  BY PiecesAssumption
<1>4. Len(s) \in Nat
  BY <1>3, LenProperties
<1>5. t \in Seq(Chars) /\ Len(t) = Size(b) + Len(s)
  BY <1>2, <1>3, ConcatProperties
<1>6. newlen \in Nat /\ Len(t) <= newlen
  BY <1>2, <1>3, <1>4, <1>5
<1> HIDE DEF t, newlen
<1>7. Sound' /\ Contents!Become(b, t)
  <2>1. CASE newlen <= Cap(b)
    <3>1. Overwrite(b, t)
      BY <1>1, <2>1
    <3>2. Len(t) <= Cap(b)
      BY <1>2, <1>5, <1>6, <2>1, LenProperties
    <3> QED BY <1>1, <1>5, <3>1, <3>2, OverwriteStep
  <2>2. CASE newlen > Cap(b)
    <3> DEFINE n == newlen + newlen \div 2
    <3>1. BufLen < newlen
      BY <1>2, <1>6, <2>2, LengthsAssumption
    <3>2. n \in Nat /\ newlen <= n /\ BufLen < n
      BY <1>6, <3>1, GrownIs
    <3>3. PICK p \in Free(heap) :
             /\ obj' = [obj EXCEPT ![b] = Dynamic(p, n, Len(t))]
             /\ heap' = [Deallocated(b) EXCEPT ![p] = Block(n, t)]
      <4>1. Grow(b, newlen, t)
        BY <1>1, <1>2, <1>6, <2>2
      <4> QED BY <4>1 DEF Grow
    <3>4. p \in Addrs /\ Deallocated(b)[p] = Gone
      BY GivenBack DEF Free
    <3>5. Len(t) <= n
      BY <1>5, <1>6, <3>2, LenProperties
    <3>6. b \notin lost
      BY <1>1 DEF Alive
    <3> HIDE DEF n
    <3>7. Sound' /\ Texts(b, t)
      BY <1>1, <1>5, <3>2, <3>3, <3>4, <3>5, <3>6, AllocateKeeps DEF Texts
    <3> QED BY <3>7, BecomeIs
  <2> QED BY <1>2, <1>6, <2>1, <2>2
<1>8. Contents!Holds(b) /\ [c \in Bufs |-> TextOf(c)][b] = Text(b)
  BY <1>1, HoldsIs
<1> QED BY <1>7, <1>8 DEF Contents!Extend, t

\* Two texts change: the destination has the source's, the source is empty.
LEMMA MovedIs ==
    ASSUME Sound, NEW d \in Bufs, NEW s \in Bufs, d # s, Alive(s),
           TextOf(d) # Unusable,
           TextOf(d)' = TextOf(s), TextOf(s)' = <<>>,
           \A c \in Bufs \ {d, s} : TextOf(c)' = TextOf(c)
    PROVE  Contents!Move(d, s)
<1> DEFINE T == [c \in Bufs |-> TextOf(c)]
<1>1. Contents!Holds(s) /\ T[s] = TextOf(s) /\ T[d] # Unusable
  BY HoldsIs
<1>2. [c \in Bufs |-> TextOf(c)'] = [T EXCEPT ![d] = T[s], ![s] = <<>>]
  OBVIOUS
<1> QED BY <1>1, <1>2 DEF Contents!Move

LEMMA MoveConstructStep ==
    ASSUME Sound, NEW d \in Bufs, NEW s \in Bufs, MoveConstruct(d, s)
    PROVE  Sound' /\ Contents!Move(d, s)
<1>1. /\ obj[d] = Gone /\ Alive(s) /\ d # s /\ d \notin lost /\ ~IsDyn(d)
      /\ heap' = heap /\ lost' = lost /\ corrupt' = corrupt
      /\ obj' = [obj EXCEPT ![d] = obj[s], ![s] = Inline(<<>>)]
  BY DEF Sound, TypeOK, MoveConstruct, Alive, IsDyn
<1>2. heap' = Deallocated(d)
  BY <1>1 DEF Deallocated
<1>3. /\ Sound' /\ TextOf(d)' = TextOf(s) /\ TextOf(s)' = <<>>
      /\ \A c \in Bufs \ {d, s} : TextOf(c)' = TextOf(c)
  BY <1>1, <1>2, TakeOverKeeps
<1>4. TextOf(d) # Unusable
  BY <1>1, AbsentIs
<1> QED BY <1>1, <1>3, <1>4, MovedIs

LEMMA MoveAssignStep ==
    ASSUME Sound, NEW d \in Bufs, NEW s \in Bufs, MoveAssign(d, s)
    PROVE  Sound' /\ Contents!Move(d, s)
<1>1. /\ d # s /\ Alive(d) /\ Alive(s) /\ d \notin lost
      /\ lost' = lost /\ corrupt' = corrupt
  BY DEF MoveAssign, Alive
<1>2. TextOf(d) # Unusable /\ TextOf(s) = Text(s)
  BY <1>1, HoldsIs, Holding, GoneAssumption
<1>3. /\ Sound' /\ TextOf(d)' = TextOf(s) /\ TextOf(s)' = <<>>
      /\ \A c \in Bufs \ {d, s} : TextOf(c)' = TextOf(c)
  <2>1. CASE obj[s].dyn
    <3>1. /\ obj' = [obj EXCEPT ![d] = obj[s], ![s] = Inline(<<>>)]
          /\ heap' = Deallocated(d)
      BY <2>1 DEF MoveAssign
    <3> QED BY <1>1, <3>1, TakeOverKeeps
  <2>2. CASE ~obj[s].dyn
    <3>1. /\ obj' = [obj EXCEPT ![d] = With(d, Text(s)), ![s] = Inline(<<>>)]
          /\ heap' = Written(d, Text(s))
      BY <2>2 DEF MoveAssign
    <3>2. Text(s) \in Seq(Chars) /\ Len(Text(s)) <= Cap(d)
      <4>1. /\ Text(s) \in Seq(Chars) /\ Len(Text(s)) = Size(s) /\ Size(s) \in Nat
            /\ Size(s) <= BufLen
        BY <1>1, <2>2, Holding
      <4>2. BufLen <= Cap(d) /\ Cap(d) \in Nat
        BY <1>1, Holding
      <4> QED BY <4>1, <4>2, LengthsAssumption
    <3>3. obj' = IF s = d THEN [obj EXCEPT ![d] = With(d, Text(s))]
                 ELSE [obj EXCEPT ![d] = With(d, Text(s)), ![s] = Inline(<<>>)]
      BY <1>1, <3>1
    <3> DEFINE t == Text(s)
    <3> HIDE DEF t
    <3>4. /\ t \in Seq(Chars) /\ Len(t) <= Cap(d) /\ heap' = Written(d, t)
          /\ obj' = IF s = d THEN [obj EXCEPT ![d] = With(d, t)]
                    ELSE [obj EXCEPT ![d] = With(d, t), ![s] = Inline(<<>>)]
      BY <3>1, <3>2, <3>3 DEF t
    <3>5. /\ Sound' /\ TextOf(d)' = t /\ TextOf(s)' = <<>>
          /\ \A c \in Bufs \ {d, s} : TextOf(c)' = TextOf(c)
      BY <1>1, <2>2, <3>4, WriteKeeps
    <3> QED BY <1>2, <3>5 DEF t
  <2> QED BY <2>1, <2>2
<1> QED BY <1>1, <1>2, <1>3, MovedIs

\* The destination has the source's text.
LEMMA CopiedIs ==
    ASSUME Sound, NEW d \in Bufs, NEW s \in Bufs, Alive(s),
           TextOf(d) # Unusable, Texts(d, Text(s))
    PROVE  Contents!Copy(d, s)
<1>1. Contents!Become(d, Text(s))
  BY BecomeIs
<1>2. Contents!Holds(s) /\ [c \in Bufs |-> TextOf(c)][s] = Text(s)
  BY HoldsIs
<1> QED BY <1>1, <1>2 DEF Contents!Copy

\* A copy goes to the object when it fits.
LEMMA CopyInline ==
    ASSUME Sound, NEW d \in Bufs, NEW s \in Bufs, Alive(s), Size(s) <= BufLen,
           obj' = [obj EXCEPT ![d] = Inline(Text(s))], heap' = Deallocated(d),
           lost' = lost /\ corrupt' = corrupt, d \notin lost
    PROVE  Sound' /\ Texts(d, Text(s))
<1> DEFINE t == Text(s)
<1>1. t \in Seq(Chars) /\ Len(t) <= BufLen
  BY Holding
<1> HIDE DEF t
<1>2. TypeOK /\ obj' = [obj EXCEPT ![d] = Inline(t)]
  BY DEF Sound, t
<1>3. Inline(t) \in Objects /\ Inline(t) # Gone
  BY <1>1, InlineObject
<1>4. obj'[d] = Inline(t) /\ \A c \in Bufs \ {d} : obj'[c] = obj[c]
  BY <1>2 DEF TypeOK
<1>5. \A c \in lost' : obj'[c] # Gone /\ obj'[c].dyn
  BY <1>2, <1>3, <1>4 DEF TypeOK
<1>6. Sound' /\ \A c \in Bufs \ {d} : TextOf(c)' = TextOf(c)
  BY <1>1, <1>2, <1>3, <1>5, GiveBackKeeps
<1>7. TextOf(d)' = t
  BY <1>1, <1>4, InlineIs
<1> QED BY <1>6, <1>7 DEF Texts, t

\* A longer copy goes to memory, as much as the source has.
LEMMA CopyOut ==
    ASSUME Sound, NEW d \in Bufs, NEW s \in Bufs, Alive(s), Size(s) > BufLen,
           CopyToMemory(d, s, Deallocated(d)),
           lost' = lost /\ corrupt' = corrupt, d \notin lost
    PROVE  Sound' /\ Texts(d, Text(s))
<1> DEFINE t == Text(s)
           n == obj[s].cap
<1>1. /\ t \in Seq(Chars) /\ Len(t) = Size(s) /\ Size(s) \in Nat
      /\ n \in Nat /\ Len(t) <= n /\ BufLen < n
  BY Holding, LengthsAssumption
<1>2. PICK p \in Free(Deallocated(d)) :
         /\ obj' = [obj EXCEPT ![d] = Dynamic(p, n, Len(t))]
         /\ heap' = [Deallocated(d) EXCEPT ![p] = Block(n, t)]
  BY <1>1 DEF CopyToMemory
<1>3. p \in Addrs /\ Deallocated(d)[p] = Gone
  BY DEF Free
<1> HIDE DEF t, n
<1>4. Sound' /\ Texts(d, t)
  BY <1>1, <1>2, <1>3, AllocateKeeps DEF Texts
<1> QED BY <1>4 DEF t

LEMMA CopyConstructStep ==
    ASSUME Sound, NEW d \in Bufs, NEW s \in Bufs, CopyConstruct(d, s)
    PROVE  Sound' /\ Contents!Copy(d, s)
<1>1. /\ obj[d] = Gone /\ Alive(s) /\ d \notin lost /\ ~IsDyn(d)
      /\ lost' = lost /\ corrupt' = corrupt
  BY DEF Sound, TypeOK, CopyConstruct, Alive, IsDyn
<1>2. Deallocated(d) = heap
  BY <1>1 DEF Deallocated
<1>3. Sound' /\ Texts(d, Text(s))
  <2>1. CASE Size(s) <= BufLen
    <3>1. obj' = [obj EXCEPT ![d] = Inline(Text(s))] /\ heap' = heap
      BY <2>1 DEF CopyConstruct
    <3> QED BY <1>1, <1>2, <2>1, <3>1, CopyInline
  <2>2. CASE ~(Size(s) <= BufLen)
    <3>1. CopyToMemory(d, s, Deallocated(d))
      BY <1>2, <2>2 DEF CopyConstruct
    <3>2. Size(s) > BufLen
      BY <1>1, <2>2, Holding, LengthsAssumption
    <3> QED BY <1>1, <3>1, <3>2, CopyOut
  <2> QED BY <2>1, <2>2
<1>4. TextOf(d) # Unusable
  BY <1>1, AbsentIs
<1> QED BY <1>1, <1>3, <1>4, CopiedIs

LEMMA CopyAssignStep ==
    ASSUME Sound, NEW d \in Bufs, NEW s \in Bufs, CopyAssign(d, s)
    PROVE  Sound' /\ Contents!Copy(d, s)
<1>1. /\ d # s /\ Alive(d) /\ Alive(s) /\ d \notin lost
      /\ lost' = lost /\ corrupt' = corrupt
  BY DEF CopyAssign, Alive
<1>2. /\ Text(s) \in Seq(Chars) /\ Len(Text(s)) = Size(s) /\ Size(s) \in Nat
      /\ BufLen <= Cap(d) /\ Cap(d) \in Nat
  BY <1>1, Holding
<1>3. TextOf(d) # Unusable
  BY <1>1, HoldsIs, Holding, GoneAssumption
<1>4. CASE FitsIn(d, s)
  <2>1. Overwrite(d, Text(s))
    BY <1>4 DEF CopyAssign
  <2>2. Len(Text(s)) <= Cap(d)
    <3>1. CASE ~obj[s].dyn
      <4>1. Size(s) <= BufLen
        BY <1>1, <3>1, Holding
      <4> QED BY <1>2, <4>1, LengthsAssumption
    <3>2. CASE obj[d].dyn /\ Size(s) <= obj[d].cap
      BY <1>2, <3>2 DEF Cap
    <3> QED BY <1>4, <3>1, <3>2 DEF FitsIn
  <2>3. Sound' /\ Contents!Become(d, Text(s))
    BY <1>1, <1>2, <2>1, <2>2, OverwriteStep
  <2>4. Contents!Holds(s) /\ Contents!Holds(d)
        /\ [c \in Bufs |-> TextOf(c)][s] = Text(s)
    BY <1>1, HoldsIs
  <2> QED BY <2>3, <2>4 DEF Contents!Copy, Contents!Holds
<1>5. CASE ~FitsIn(d, s) /\ Size(s) <= BufLen
  <2>1. obj' = [obj EXCEPT ![d] = Inline(Text(s))] /\ heap' = Deallocated(d)
    BY <1>5 DEF CopyAssign
  <2>2. Sound' /\ Texts(d, Text(s))
    BY <1>1, <1>5, <2>1, CopyInline
  <2> QED BY <1>1, <1>3, <2>2, CopiedIs
<1>6. CASE ~FitsIn(d, s) /\ ~(Size(s) <= BufLen)
  <2>1. CopyToMemory(d, s, Deallocated(d))
    BY <1>6 DEF CopyAssign
  <2>2. Size(s) > BufLen
    BY <1>2, <1>6, LengthsAssumption
  <2>3. Sound' /\ Texts(d, Text(s))
    BY <1>1, <2>1, <2>2, CopyOut
  <2> QED BY <1>1, <1>3, <2>3, CopiedIs
<1> QED BY <1>4, <1>5, <1>6

\* What an object without use holds is still an object.
LEMMA CapacitySet ==
    ASSUME NEW B, NEW r, r \in [dyn : B, ptr : Addrs, cap : Nat, len : Nat],
           NEW k \in Nat
    PROVE  [r EXCEPT !.cap = k] \in [dyn : B, ptr : Addrs, cap : Nat, len : Nat]
OBVIOUS

LEMMA CopyFailsStep ==
    ASSUME Sound, NEW d \in Bufs, NEW s \in Bufs, CopyAssignFails(d, s)
    PROVE  Sound' /\ Contents!CopyFails(d)
<1>1. /\ TypeOK /\ d # s /\ Alive(d) /\ Alive(s) /\ d \notin lost /\ obj[d] # Gone
      /\ ~FitsIn(d, s) /\ heap' = Deallocated(d)
  BY DEF Sound, CopyAssignFails, Alive
<1>2. Contents!Holds(d) /\ [c \in Bufs |-> TextOf(c)][d] = Text(d)
  BY <1>1, HoldsIs
<1>3. /\ Text(d) \in Seq(Chars) /\ Len(Text(d)) = Size(d) /\ Size(d) \in Nat
  BY <1>1, Holding
<1>4. CASE obj[d].dyn
  <2> DEFINE v == [obj[d] EXCEPT !.cap = obj[s].cap]
  <2>1. /\ obj' = [obj EXCEPT ![d] = v]
        /\ lost' = lost \cup {d} /\ corrupt' = corrupt
    BY <1>4 DEF CopyAssignFails
  <2>2. obj[d] \in [dyn : {TRUE}, ptr : Addrs, cap : Nat, len : Nat]
    BY <1>1, <1>4 DEF TypeOK, Objects
  <2>3. obj[s].cap \in Nat
    <3>1. obj[s].dyn
      BY <1>1 DEF FitsIn
    <3>2. Cap(s) = obj[s].cap /\ Cap(s) \in Nat
      BY <1>1, <3>1, Holding
    <3> QED BY <3>2
  <2>4. v \in [dyn : {TRUE}, ptr : Addrs, cap : Nat, len : Nat]
    BY <2>2, <2>3, CapacitySet
  <2> HIDE DEF v
  <2>5. v \in Objects
    BY <2>4 DEF Objects
  <2>6. v # Gone /\ v.dyn
    BY <2>4, <2>5, GoneAssumption
  <2>7. obj'[d] = v /\ \A c \in Bufs \ {d} : obj'[c] = obj[c]
    BY <1>1, <2>1 DEF TypeOK
  <2>8. \A c \in lost' : obj'[c] # Gone /\ obj'[c].dyn
    BY <1>1, <2>1, <2>6, <2>7 DEF TypeOK
  <2>9. ~Alive(d)'
    BY <2>1 DEF Alive
  <2>10. Sound' /\ \A c \in Bufs \ {d} : TextOf(c)' = TextOf(c)
    BY <1>1, <2>1, <2>5, <2>8, <2>9, GiveBackKeeps
  <2>11. TextOf(d)' = Unusable
    BY <2>1, <2>6, <2>7 DEF TextOf
  <2>12. Contents!Become(d, Unusable)
    BY <2>10, <2>11, BecomeIs DEF Texts
  <2> QED BY <1>2, <2>10, <2>12 DEF Contents!CopyFails
<1>5. CASE ~obj[d].dyn
  <2>1. PICK t \in [1 .. Size(d) -> Chars] : obj' = [obj EXCEPT ![d] = Inline(t)]
    BY <1>5 DEF CopyAssignFails
  <2>2. lost' = lost /\ corrupt' = corrupt
    BY <1>5 DEF CopyAssignFails
  <2>3. t \in Seq(Chars) /\ Len(t) = Size(d)
    BY <1>3, <2>1
  <2>4. Len(t) <= BufLen
    BY <1>1, <1>5, <2>3, Holding
  <2>5. Inline(t) \in Objects /\ Inline(t) # Gone
    BY <2>3, InlineObject
  <2>6. obj'[d] = Inline(t) /\ \A c \in Bufs \ {d} : obj'[c] = obj[c]
    BY <1>1, <2>1 DEF TypeOK
  <2>7. \A c \in lost' : obj'[c] # Gone /\ obj'[c].dyn
    BY <1>1, <2>2, <2>5, <2>6 DEF TypeOK
  <2>8. Sound' /\ \A c \in Bufs \ {d} : TextOf(c)' = TextOf(c)
    BY <1>1, <2>1, <2>2, <2>3, <2>4, <2>5, <2>7, GiveBackKeeps
  <2>9. TextOf(d)' = t
    BY <1>1, <2>2, <2>3, <2>4, <2>6, InlineIs
  <2>10. Contents!Become(d, t)
    BY <2>8, <2>9, BecomeIs DEF Texts
  <2>11. t \in [1 .. Len([c \in Bufs |-> TextOf(c)][d]) -> Chars]
    BY <1>2, <1>3, <2>1
  <2> QED BY <1>2, <2>8, <2>10, <2>11 DEF Contents!CopyFails
<1> QED BY <1>4, <1>5

-----------------------------------------------------------------------------
(* The theorems *)

LEMMA NextHolds ==
    ASSUME StorageOwned, Next
    PROVE  StorageOwned' /\ Contents!Next
<1>0. Sound /\ ~corrupt
  BY DEF StorageOwned, Sound, Next
<1>1. ASSUME NEW b \in Bufs,
             \/ Construct(b) \/ Destroy(b) \/ DestroyLost(b)
             \/ \E len \in 0 .. MaxLen : ShrinkTo(b, len)
             \/ \E s \in Pieces, extra \in Reserves : AppendPiece(b, s, Len(s) + extra)
      PROVE  StorageOwned' /\ Contents!Next
  <2>1. CASE Construct(b)
    BY <1>0, <2>1, ConstructStep DEF StorageOwned, Sound, Contents!Next
  <2>2. CASE Destroy(b)
    BY <1>0, <2>2, DestroyStep DEF StorageOwned, Sound, Contents!Next
  <2>3. ASSUME NEW len \in 0 .. MaxLen, ShrinkTo(b, len)
        PROVE  StorageOwned' /\ Contents!Next
    BY <1>0, <2>3, ShrinkStep DEF StorageOwned, Sound, Contents!Next
  <2>4. ASSUME NEW s \in Pieces, NEW extra \in Reserves,
               AppendPiece(b, s, Len(s) + extra)
        PROVE  StorageOwned' /\ Contents!Next
    BY <1>0, <2>4, AppendStep DEF StorageOwned, Sound, Contents!Next
  <2>5. CASE DestroyLost(b)
    BY <1>0, <2>5, DestroyLostStep DEF Contents!Next
  <2> QED BY <1>1, <2>1, <2>2, <2>3, <2>4, <2>5
<1>2. ASSUME NEW d \in Bufs, NEW s \in Bufs,
             \/ MoveConstruct(d, s) \/ MoveAssign(d, s)
             \/ CopyConstruct(d, s) \/ CopyAssign(d, s) \/ CopyAssignFails(d, s)
      PROVE  StorageOwned' /\ Contents!Next
  <2>1. CASE MoveConstruct(d, s)
    BY <1>0, <2>1, MoveConstructStep DEF StorageOwned, Sound, Contents!Next
  <2>2. CASE MoveAssign(d, s)
    BY <1>0, <2>2, MoveAssignStep DEF StorageOwned, Sound, Contents!Next
  <2>3. CASE CopyConstruct(d, s)
    BY <1>0, <2>3, CopyConstructStep DEF StorageOwned, Sound, Contents!Next
  <2>4. CASE CopyAssign(d, s)
    BY <1>0, <2>4, CopyAssignStep DEF StorageOwned, Sound, Contents!Next
  <2>5. CASE CopyAssignFails(d, s)
    BY <1>0, <2>5, CopyFailsStep DEF StorageOwned, Sound, Contents!Next
  <2> QED BY <1>2, <2>1, <2>2, <2>3, <2>4, <2>5
<1> QED BY <1>1, <1>2 DEF Next

LEMMA StutterHolds ==
    ASSUME UNCHANGED vars
    PROVE  /\ StorageOwned => StorageOwned'
           /\ UNCHANGED [b \in Bufs |-> TextOf(b)]
<1>1. StorageOwned => StorageOwned'
  BY DEF vars, StorageOwned, Owned, TypeOK, Owners, IsDyn, Alive
<1>2. UNCHANGED [b \in Bufs |-> TextOf(b)]
  BY DEF vars, TextOf, Text
<1> QED BY <1>1, <1>2

\* All memory has one owner, nobody else points to it but what is lost, and it
\* is given back with the size it was allocated with, whatever is appended,
\* moved, copied and destroyed; the destructor of an object that a failed copy
\* assignment left takes the memory of one buffer at most, until memory is given
\* back to an allocator that has it (buf.hpp:216, 279-285).
THEOREM StorageSafe == Spec => []StorageOwned
<1>1. Init => StorageOwned
  BY InitHolds DEF StorageOwned, Sound
<1>2. StorageOwned /\ [Next]_vars => StorageOwned'
  BY NextHolds, StutterHolds
<1> QED BY <1>1, <1>2, PTL DEF Spec

\* The buffers hold the texts of their abstract specification: an operation
\* changes those it is about and no other, but for the destructor of an object
\* that a failed copy assignment left, which can cost one other its text.
THEOREM ImplementsContents == Spec => ImplementsTexts
<1>1. Init => Contents!Init
  BY InitHolds
<1>2. StorageOwned /\ [Next]_vars => [Contents!Next]_([b \in Bufs |-> TextOf(b)])
  BY NextHolds, StutterHolds
<1> QED BY <1>1, <1>2, StorageSafe, PTL DEF Spec, ImplementsTexts, Contents!Spec

=============================================================================
