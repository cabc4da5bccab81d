-------------------------------- MODULE StrBuf --------------------------------
(***************************************************************************)
(* stdplus::BasicStrBuf (str/buf.hpp): a string that keeps up to BufLen    *)
(* characters in the object itself and longer ones in memory of its own.   *)
(* The object is a union: the pointer, capacity and length of the memory   *)
(* lie over the characters, and the highest bit of the last byte tells     *)
(* which of the two it is.                                                 *)
(*                                                                         *)
(* One action stands for one call of one of several buffers, among them    *)
(* the assignments between them.  An allocation can fail at any call; one  *)
(* that fails before anything has changed is a step of nothing, and one in *)
(* push_back, which is noexcept, ends the program, so no step is needed    *)
(* for either.  The program does not append a part of a buffer to itself,  *)
(* and the allocators of all buffers are equal, as those of                *)
(* std::allocator are.                                                     *)
(*                                                                         *)
(* A copy assignment that fails can leave its destination with a pointer   *)
(* to memory that it has given back.  The program does nothing more with   *)
(* such an object but destroy it, which gives that memory back a second    *)
(* time.  An allocator that has given the memory to another buffer by then *)
(* takes it from that one; one that has it already is corrupt, nothing is  *)
(* defined any more, and the model ends there.                             *)
(***************************************************************************)
EXTENDS Naturals, Sequences

CONSTANTS
    Bufs,      \* the buffers
    Chars,     \* the characters
    Pieces,    \* the texts the program appends
    Reserves,  \* what a conversion reserves before it writes a piece
    Addrs,     \* where memory can be
    BufLen,    \* how many characters fit in the object
    MaxLen,    \* how long a text the program makes
    Gone,      \* no object, and no memory
    Unusable   \* the text of an object whose memory is gone

ASSUME LengthsAssumption == BufLen \in Nat /\ MaxLen \in Nat
ASSUME PiecesAssumption == Pieces \subseteq Seq(Chars) /\ Reserves \subseteq Nat

\* What an object is, and what memory holds.
Objects ==
    [dyn : {FALSE}, chars : Seq(Chars)]
        \cup [dyn : {TRUE}, ptr : Addrs, cap : Nat, len : Nat]
Blocks == [size : Nat, chars : Seq(Chars)]

ASSUME GoneAssumption ==
    /\ Gone \notin Objects /\ Gone \notin Blocks /\ Gone \notin Seq(Chars)
    /\ Unusable \notin Seq(Chars) /\ Gone # Unusable

VARIABLES
    obj,  \* the objects
    heap, \* what is allocated: the size and the characters written to it
    lost, \* objects with a pointer to memory that is not theirs any more
    corrupt \* the allocator was given memory back that it had already

vars == <<obj, heap, lost, corrupt>>

Inline(t) == [dyn |-> FALSE, chars |-> t]
Dynamic(p, n, len) == [dyn |-> TRUE, ptr |-> p, cap |-> n, len |-> len]

Alive(b) == obj[b] # Gone /\ b \notin lost
IsDyn(b) == Alive(b) /\ obj[b].dyn
Owners(p) == {b \in Bufs : IsDyn(b) /\ obj[b].ptr = p}
Cap(b) == IF obj[b].dyn THEN obj[b].cap ELSE BufLen

Text(b) ==
    IF obj[b].dyn THEN SubSeq(heap[obj[b].ptr].chars, 1, obj[b].len)
    ELSE obj[b].chars

Size(b) == IF obj[b].dyn THEN obj[b].len ELSE Len(obj[b].chars)

Free(h) == {p \in Addrs : h[p] = Gone}
Block(n, t) == [size |-> n, chars |-> t]

\* The memory once b has deallocated what it points to.
Deallocated(b) == IF IsDyn(b) THEN [heap EXCEPT ![obj[b].ptr] = Gone] ELSE heap

-----------------------------------------------------------------------------
Init ==
    /\ obj = [b \in Bufs |-> Gone]
    /\ heap = [p \in Addrs |-> Gone]
    /\ lost = {}
    /\ corrupt = FALSE

\* BasicStrBuf()
Construct(b) ==
    /\ obj[b] = Gone
    /\ obj' = [obj EXCEPT ![b] = Inline(<<>>)]
    /\ UNCHANGED <<heap, lost, corrupt>>

\* ~BasicStrBuf()
Destroy(b) ==
    /\ Alive(b)
    /\ obj' = [obj EXCEPT ![b] = Gone]
    /\ heap' = Deallocated(b)
    /\ UNCHANGED <<lost, corrupt>>

\* ~BasicStrBuf() of an object whose pointer dangles: the flag is still set, so
\* the memory goes back again, from under whoever has it now.  The capacity
\* it is given back with is the one the failed copy was to have.
DestroyLost(b) ==
    LET p == obj[b].ptr IN
    /\ b \in lost
    /\ obj' = [obj EXCEPT ![b] = Gone]
    /\ heap' = [heap EXCEPT ![p] = Gone]
    /\ lost' = (lost \ {b}) \cup Owners(p)
    /\ corrupt' = (heap[p] = Gone)

\* The object and the memory once b holds t where it holds its text now.
With(b, t) == IF obj[b].dyn THEN [obj[b] EXCEPT !.len = Len(t)] ELSE Inline(t)
Written(b, t) ==
    IF obj[b].dyn THEN [heap EXCEPT ![obj[b].ptr].chars = t] ELSE heap

Overwrite(b, t) == obj' = [obj EXCEPT ![b] = With(b, t)] /\ heap' = Written(b, t)

\* clear() and shrink(): memory is kept for later, the characters that were
\* cut off are not read again.
ShrinkTo(b, len) ==
    /\ Alive(b) /\ len < Size(b)
    /\ Overwrite(b, SubSeq(Text(b), 1, len))
    /\ UNCHANGED <<lost, corrupt>>

\* append(): a text that does not fit goes to half as much memory again.
Grow(b, newlen, t) ==
    \E p \in Free(heap) :
        LET newcap == newlen + newlen \div 2 IN
        /\ obj' = [obj EXCEPT ![b] = Dynamic(p, newcap, Len(t))]
        /\ heap' = [Deallocated(b) EXCEPT ![p] = Block(newcap, t)]

\* Fault: what was reserved and not written stays in the text.
AppendPieceUnshrunk(b, s, amt) ==
    LET t == Text(b) \o s \o [k \in 1 .. amt - Len(s) |-> s[1]] IN
    /\ Alive(b) /\ Len(s) <= amt /\ Len(t) <= MaxLen
    /\ IF Len(t) <= Cap(b) THEN Overwrite(b, t) ELSE Grow(b, Len(t), t)
    /\ UNCHANGED <<lost, corrupt>>

\* append(amt), the piece written to what it returns, and shrink() of the
\* rest, as conversions do (ToStrAdap); append(begin, end), push_back and
\* strAppend reserve what they write.
AppendPiece(b, s, amt) ==
    LET newlen == Size(b) + amt
        t == Text(b) \o s
    IN /\ Alive(b) /\ Len(s) <= amt /\ newlen <= MaxLen
       /\ IF newlen <= Cap(b) THEN Overwrite(b, t) ELSE Grow(b, newlen, t)
       /\ UNCHANGED <<lost, corrupt>>

\* Fault: the source keeps its pointer.
MoveConstructShares(d, s) ==
    /\ obj[d] = Gone /\ Alive(s)
    /\ obj' = [obj EXCEPT ![d] = obj[s]]
    /\ UNCHANGED <<heap, lost, corrupt>>

\* BasicStrBuf(BasicStrBuf&&): the memory is taken over.
MoveConstruct(d, s) ==
    /\ obj[d] = Gone /\ Alive(s)
    /\ obj' = [obj EXCEPT ![d] = obj[s], ![s] = Inline(<<>>)]
    /\ UNCHANGED <<heap, lost, corrupt>>

\* operator=(BasicStrBuf&&): memory is taken over after what the destination
\* had is given back; characters in the object are copied to where the
\* destination keeps its own.
MoveAssign(d, s) ==
    /\ d # s /\ Alive(d) /\ Alive(s)
    /\ IF obj[s].dyn
       THEN /\ obj' = [obj EXCEPT ![d] = obj[s], ![s] = Inline(<<>>)]
            /\ heap' = Deallocated(d)
       ELSE /\ obj' = [obj EXCEPT ![d] = With(d, Text(s)), ![s] = Inline(<<>>)]
            /\ heap' = Written(d, Text(s))
    /\ UNCHANGED <<lost, corrupt>>

\* copy() to memory of its own, as much as the source has.
CopyToMemory(d, s, h) ==
    \E p \in Free(h) :
        /\ obj' = [obj EXCEPT ![d] = Dynamic(p, obj[s].cap, Size(s))]
        /\ heap' = [h EXCEPT ![p] = Block(obj[s].cap, Text(s))]

\* BasicStrBuf(const BasicStrBuf&)
CopyConstruct(d, s) ==
    /\ obj[d] = Gone /\ Alive(s)
    /\ IF Size(s) <= BufLen
       THEN obj' = [obj EXCEPT ![d] = Inline(Text(s))] /\ heap' = heap
       ELSE CopyToMemory(d, s, heap)
    /\ UNCHANGED <<lost, corrupt>>

\* copy(): characters in an object fit in any other.
FitsIn(d, s) == ~obj[s].dyn \/ (obj[d].dyn /\ Size(s) <= obj[d].cap)

\* operator=(const BasicStrBuf&): memory that is too small is given back
\* before more is asked for.
CopyAssign(d, s) ==
    /\ d # s /\ Alive(d) /\ Alive(s)
    /\ IF FitsIn(d, s) THEN Overwrite(d, Text(s))
       ELSE IF Size(s) <= BufLen
       THEN obj' = [obj EXCEPT ![d] = Inline(Text(s))] /\ heap' = Deallocated(d)
       ELSE CopyToMemory(d, s, Deallocated(d))
    /\ UNCHANGED <<lost, corrupt>>

\* The allocation of a copy assignment throws.  An object without memory has
\* had a capacity written over its characters, the others have a pointer
\* to what they gave back, and no use of them is defined any more.
CopyAssignFails(d, s) ==
    /\ d # s /\ Alive(d) /\ Alive(s)
    /\ ~FitsIn(d, s) /\ Size(s) > BufLen
    /\ IF obj[d].dyn
       THEN obj' = [obj EXCEPT ![d].cap = obj[s].cap] /\ lost' = lost \cup {d}
       ELSE /\ \E t \in [1 .. Size(d) -> Chars] : obj' = [obj EXCEPT ![d] = Inline(t)]
            /\ lost' = lost
    /\ heap' = Deallocated(d)
    /\ UNCHANGED corrupt

Next ==
    /\ ~corrupt
    /\ \/ \E b \in Bufs :
             \/ Construct(b) \/ Destroy(b) \/ DestroyLost(b)
             \/ \E len \in 0 .. MaxLen : ShrinkTo(b, len)
             \/ \E s \in Pieces, extra \in Reserves :
                   AppendPiece(b, s, Len(s) + extra)
       \/ \E d, s \in Bufs :
             \/ MoveConstruct(d, s) \/ MoveAssign(d, s)
             \/ CopyConstruct(d, s) \/ CopyAssign(d, s) \/ CopyAssignFails(d, s)

Spec == Init /\ [][Next]_vars

-----------------------------------------------------------------------------
\* The type of the state.
TypeOK ==
    /\ obj \in [Bufs -> Objects \cup {Gone}]
    /\ heap \in [Addrs -> Blocks \cup {Gone}]
    /\ lost \subseteq {b \in Bufs : obj[b] # Gone /\ obj[b].dyn}
    /\ corrupt \in BOOLEAN

Owned ==
    /\ \A p \in Addrs : heap[p] # Gone => \E b \in Bufs : Owners(p) = {b}
    /\ \A b \in Bufs : Alive(b) =>
          IF obj[b].dyn
          THEN /\ heap[obj[b].ptr] # Gone
               /\ heap[obj[b].ptr].size = obj[b].cap /\ obj[b].cap > BufLen
               /\ obj[b].len <= Len(heap[obj[b].ptr].chars)
               /\ Len(heap[obj[b].ptr].chars) <= obj[b].cap
          ELSE Len(obj[b].chars) <= BufLen

\* All memory has one owner, nobody else points to it but what is lost, and the
\* owner gives it back with the size it was allocated with; what an object holds
\* fits where it is, and memory is larger than the object, on which moves and
\* copies of short texts into memory rely (buf.hpp:156-230).  Memory is not
\* given back once only: the destructor of an object that a failed copy
\* assignment left gives its memory back again (buf.hpp:216, 279-285), with
\* the capacity written at line 226.  All that this takes from the others is
\* what one buffer has in that memory, which is lost with it; when nobody
\* has it the allocator is corrupt and nothing is claimed any more.
StorageOwned == TypeOK /\ (corrupt \/ Owned)

\* Wherever they keep them, buffers hold the texts they were given: growth,
\* moves and copies keep them and change no other, a piece that was written
\* to reserved room is the end of the text, and a call that fails changes
\* nothing but the destination of a copy (buf.hpp:156-365, conv.hpp:41-77).  A
\* destination left without use costs one other buffer its text when it is
\* destroyed, or none (buf.hpp:279-285).
TextOf(b) ==
    IF obj[b] = Gone THEN Gone ELSE IF b \in lost THEN Unusable ELSE Text(b)

Contents == INSTANCE Texts WITH text <- [b \in Bufs |-> TextOf(b)]

ImplementsTexts == Contents!Spec
===============================================================================
