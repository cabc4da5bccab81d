--------------------------------- MODULE Texts ---------------------------------
(***************************************************************************)
(* What a set of string buffers (stdplus/str/buf.hpp) promises: each one   *)
(* holds a text of its own, wherever it keeps it.  An operation changes    *)
(* the buffers it is about and no other; only a copy assignment that fails *)
(* leaves its destination with a text nobody chose or of no use, and the   *)
(* end of one that is of no use can take one other buffer with it.         *)
(***************************************************************************)
EXTENDS Naturals, Sequences

CONSTANTS
    Bufs,     \* the names of buffers
    Chars,    \* the characters
    Pieces,   \* the texts that are appended
    Gone,     \* there is no such buffer
    Unusable  \* a buffer that may only be destroyed

VARIABLE text \* the text of each buffer

Init == text = [b \in Bufs |-> Gone]

Holds(b) == text[b] \notin {Gone, Unusable}

Become(b, t) == text' = [text EXCEPT ![b] = t]

Construct(b) == text[b] = Gone /\ Become(b, <<>>)

Destroy(b) == Holds(b) /\ Become(b, Gone)

\* The memory that a buffer without use had may be another's by now.
DestroyUnusable(b) ==
    /\ text[b] = Unusable
    /\ \/ Become(b, Gone)
       \/ \E c \in Bufs : Holds(c)
             /\ text' = [text EXCEPT ![b] = Gone, ![c] = Unusable]

\* A piece is appended whole, or in a failure not at all.
Extend(b, s) == Holds(b) /\ Become(b, text[b] \o s)

Shorten(b) ==
    /\ Holds(b)
    /\ \E n \in 0 .. Len(text[b]) : Become(b, SubSeq(text[b], 1, n))

Copy(d, s) == text[d] # Unusable /\ Holds(s) /\ Become(d, text[s])

\* The source of a move is empty afterwards.
Move(d, s) ==
    /\ d # s /\ text[d] # Unusable /\ Holds(s)
    /\ text' = [text EXCEPT ![d] = text[s], ![s] = <<>>]

CopyFails(d) ==
    /\ Holds(d)
    /\ \/ Become(d, Unusable)
       \/ \E t \in [1 .. Len(text[d]) -> Chars] : Become(d, t)

Next ==
    \E b \in Bufs :
        \/ Construct(b) \/ Destroy(b) \/ DestroyUnusable(b)
        \/ Shorten(b) \/ CopyFails(b)
        \/ \E s \in Pieces : Extend(b, s)
        \/ \E s \in Bufs : Copy(b, s) \/ Move(b, s)

Spec == Init /\ [][Next]_text
===============================================================================
