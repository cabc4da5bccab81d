-------------------------------- MODULE FdOps --------------------------------
(***************************************************************************)
(* The transfers of stdplus::fd over a descriptor (src/fd/ops.cpp): exact, *)
(* aligned and whole reads, which call Fd::read (src/fd/impl.cpp) until    *)
(* they have what they want.                                               *)
(*                                                                         *)
(* The kernel transfers any part of what it is asked for, would block, is  *)
(* interrupted or fails, and reaches the end of the stream.  The bytes of  *)
(* the stream are its positions 1, 2, ...; a program calls one operation   *)
(* after another, all for elements of Align bytes.  recv, write and send   *)
(* go through the same two templates as read, with the bytes going the     *)
(* other way: for them buf[i] is the place that byte i of the buffer got   *)
(* in the stream.                                                          *)
(***************************************************************************)
EXTENDS Integers, Sequences

CONSTANTS
    Align,        \* bytes of an element: sizeof(Data)
    Counts,       \* sizes of the program's buffers, in elements
    StreamEnd,    \* bytes until the end of the stream
    FirstStride,  \* readAll's first stride: 256 in the code
    MaxStride,    \* maxStrideB: 65536 in the code
    Fails         \* how a call of the kernel may fail: "WouldBlock", "Error"

ASSUME AlignAssumption == Align \in Nat \ {0}
ASSUME CountsAssumption == Counts \subseteq Nat
ASSUME EndAssumption == StreamEnd \in Nat
ASSUME StrideAssumption ==
    FirstStride \in Nat \ {0} /\ MaxStride \in Nat /\ FirstStride < 2 * MaxStride
ASSUME FailsAssumption == Fails \subseteq {"WouldBlock", "Error"}

VARIABLES
    op,      \* the operation that runs, or ran last
    running, \* it has not returned yet
    buf,     \* the position in the stream of each byte, 0 for none
    total,   \* bytes transferred for this operation
    stride,  \* readAll's stride
    result,  \* what the operation returned or threw
    pos,     \* bytes of the stream transferred so far
    start,   \* history: pos when the operation was called
    torn     \* history: an operation lost bytes, and its result said so

vars == <<op, running, buf, total, stride, result, pos, start, torn>>

Ops == {"exact", "aligned", "all", "fixed", "fixedExact"}

\* readAllExact is readAllFixed for single bytes.
OpAlign == IF op = "fixedExact" THEN 1 ELSE Align

LesserOf(m, n) == IF m <= n THEN m ELSE n

\* readAll's resize: whole elements, at least n bytes.
Resized(n) ==
    [i \in 1 .. ((n + Align - 1) \div Align) * Align |->
        IF i <= Len(buf) THEN buf[i] ELSE 0]

-----------------------------------------------------------------------------
(* The kernel, and fret's reading of what it returns *)

\* How many bytes one call can move to or from a buffer with so much room.
Moves(room) == {k \in 1 .. room : pos + k <= StreamEnd}

\* How a call can come back without a byte: an empty span stands for EAGAIN, and
\* no byte for a buffer with room is the end of the stream.
Refusals(room) ==
    Fails \cup (IF pos = StreamEnd /\ room > 0 THEN {"Eof"} ELSE {})

\* Buffer b with the next k bytes of the stream behind the first `total'.
Filled(b, k) ==
    [i \in DOMAIN b |-> IF i \in total + 1 .. total + k THEN pos + i - total ELSE b[i]]

-----------------------------------------------------------------------------
Init ==
    /\ op = "exact" /\ running = FALSE /\ result = "Done"
    /\ buf = <<>> /\ total = 0 /\ stride = FirstStride
    /\ pos = 0 /\ start = 0 /\ torn = FALSE

Return(outcome) ==
    /\ running' = FALSE
    /\ result' = outcome
    /\ torn' = (torn \/ outcome \in {"Incomplete", "TooLarge"}
                     \/ (op = "fixedExact" /\ outcome # "Done"))
    /\ UNCHANGED <<op, start>>

Continue ==
    UNCHANGED <<op, running, result, start, torn>>

\* The program calls an operation, with a buffer for n elements (readAll makes
\* its own).
Call(o, n) ==
    /\ ~running
    /\ op' = o /\ running' = TRUE
    /\ buf' = IF o = "all" THEN <<>> ELSE [i \in 1 .. n * Align |-> 0]
    /\ total' = 0 /\ stride' = FirstStride /\ start' = pos
    /\ UNCHANGED <<result, pos, torn>>

\* The next k bytes go to buffer b.
Take(b, k) ==
    /\ buf' = Filled(b, k)
    /\ total' = total + k
    /\ pos' = pos + k

Stay == UNCHANGED <<buf, total, stride, pos>>

\* opExact.
ExactMove ==
    /\ running /\ op = "exact" /\ total < Len(buf)
    /\ \E k \in Moves(Len(buf) - total) : Take(buf, k)
    /\ Continue /\ UNCHANGED stride

ExactDone ==
    /\ running /\ op = "exact" /\ total >= Len(buf)
    /\ Return("Done") /\ Stay

\* Fault: what was transferred before an exception is forgotten.
ExactRefusedAsIs ==
    /\ running /\ op = "exact" /\ total < Len(buf)
    /\ \E r \in Refusals(Len(buf) - total) : Return(r)
    /\ Stay

ExactRefused ==
    /\ running /\ op = "exact" /\ total < Len(buf)
    /\ \E r \in Refusals(Len(buf) - total) :
          Return(IF total # 0 THEN "Incomplete" ELSE r)
    /\ Stay

\* Fault: each call starts at the beginning of the buffer.
AlignedMoveOver ==
    LET room == Len(buf) - total IN
    /\ running /\ op = "aligned"
    /\ \E k \in Moves(room) :
          /\ buf' = [i \in DOMAIN buf |-> IF i <= k THEN pos + i ELSE buf[i]]
          /\ total' = total + k /\ pos' = pos + k
          /\ IF (total + k) % Align = 0 THEN Return("Done") ELSE Continue
    /\ UNCHANGED stride

\* opAligned: at least one call, and others until the last element is whole.
AlignedMove ==
    LET room == Len(buf) - total IN
    /\ running /\ op = "aligned"
    /\ \E k \in Moves(room) :
          /\ Take(buf, k)
          /\ IF (total + k) % Align = 0 THEN Return("Done") ELSE Continue
    /\ UNCHANGED stride

\* Without a byte the first call returns nothing at all, as it does for an empty
\* buffer, and a later one is an error.
AlignedEmpty ==
    /\ running /\ op = "aligned"
    /\ "WouldBlock" \in Fails \/ Len(buf) = 0
    /\ Return(IF total # 0 THEN "Incomplete" ELSE "Done")
    /\ Stay

AlignedRefused ==
    /\ running /\ op = "aligned"
    /\ \E r \in Refusals(Len(buf) - total) \ {"WouldBlock"} :
          Return(IF total % Align # 0 THEN "Incomplete" ELSE r)
    /\ Stay

\* readAll: the buffer grows by a stride, which doubles up to a limit.
AllMove ==
    LET b == Resized(total + stride) IN
    /\ running /\ op = "all"
    /\ \E k \in Moves(Len(b) - total) :
          /\ Take(b, k)
          /\ stride' = IF stride < MaxStride /\ total + k >= stride
                       THEN 2 * stride ELSE stride
    /\ Continue

\* Fault: the buffer keeps the room that was made for more.
AllRefusedUntrimmed ==
    LET b == Resized(total + stride) IN
    /\ running /\ op = "all"
    /\ \E r \in Refusals(Len(b) - total) :
          Return(IF r = "Eof" THEN "Done" ELSE r)
    /\ buf' = b
    /\ UNCHANGED <<total, stride, pos>>

\* Fault: a read without a byte is taken for the end of the stream.
AllRefusedEarly ==
    LET b == Resized(total + stride) IN
    /\ running /\ op = "all"
    /\ \E r \in Refusals(Len(b) - total) :
          Return(IF Len(Resized(total)) # total THEN "Incomplete"
                 ELSE IF r \in {"Eof", "WouldBlock"} THEN "Done" ELSE r)
    /\ buf' = Resized(total)
    /\ UNCHANGED <<total, stride, pos>>

\* Whatever ends it, the buffer is cut to the elements that were read, and must
\* not be larger than what was.
AllRefused ==
    LET b == Resized(total + stride) IN
    /\ running /\ op = "all"
    /\ \E r \in Refusals(Len(b) - total) :
          Return(IF Len(Resized(total)) # total THEN "Incomplete"
                 ELSE IF r = "Eof" THEN "Done" ELSE r)
    /\ buf' = Resized(total)
    /\ UNCHANGED <<total, stride, pos>>

\* readAllFixed, and readAllExact (fixedExact).
FixedMove ==
    /\ running /\ op \in {"fixed", "fixedExact"} /\ total < Len(buf)
    /\ \E k \in Moves(LesserOf(MaxStride, Len(buf) - total)) : Take(buf, k)
    /\ Continue /\ UNCHANGED stride

\* A full buffer: one more byte must not be there.
FixedProbe ==
    /\ running /\ op \in {"fixed", "fixedExact"} /\ total >= Len(buf)
    /\ 1 \in Moves(1)
    /\ pos' = pos + 1
    /\ Return(IF total % OpAlign # 0 THEN "Incomplete" ELSE "TooLarge")
    /\ UNCHANGED <<buf, total, stride>>

FixedRefused ==
    /\ running /\ op \in {"fixed", "fixedExact"}
    /\ \E r \in Refusals(1) :
          Return(IF total % OpAlign # 0 THEN "Incomplete"
                 ELSE IF r # "Eof" THEN r
                 ELSE IF op = "fixedExact" /\ total # Len(buf) THEN "WouldBlock"
                 ELSE "Done")
    /\ Stay

Next ==
    \/ \E o \in Ops, n \in Counts : Call(o, n)
    \/ ExactMove \/ ExactDone \/ ExactRefused
    \/ AlignedMove \/ AlignedEmpty \/ AlignedRefused
    \/ AllMove \/ AllRefused
    \/ FixedMove \/ FixedProbe \/ FixedRefused

Spec == Init /\ [][Next]_vars

-----------------------------------------------------------------------------
(* Properties *)

\* The type of the state.
TypeOK ==
    /\ op \in Ops /\ running \in BOOLEAN /\ torn \in BOOLEAN
    /\ buf \in Seq(0 .. StreamEnd)
    /\ total \in Nat /\ start \in Nat
    /\ stride \in 1 .. 2 * MaxStride - 1
    /\ pos \in 0 .. StreamEnd
    /\ result \in {"Done", "Incomplete", "WouldBlock", "Eof", "Error", "TooLarge"}

Returned(outcome) == ~running /\ result = outcome

\* The bytes of the stream that an operation took are at the front of its
\* buffer, each once and in order, however the kernel cut them up; the buffer is
\* whole elements, and only a TooLarge has taken a byte that is not there.
InOrder ==
    /\ TypeOK
    /\ Len(buf) % Align = 0
    /\ total <= Len(buf)
    /\ Returned("TooLarge") \/ pos = start + total
    /\ \A i \in 1 .. Len(buf) : buf[i] = IF i <= total THEN start + i ELSE 0

\* What an operation that succeeds has done: exact and readAllExact fill the
\* buffer; readAll, readAllFixed and readAllExact have reached the end of the
\* stream; what is returned is whole elements, and readAll's container is no
\* larger than what was read.
DoneWhole ==
    Returned("Done") =>
        /\ op \in {"exact", "fixedExact"} => total = Len(buf)
        /\ op \in {"all", "fixed", "fixedExact"} => pos = StreamEnd
        /\ op = "all" => Len(buf) = total
        /\ total % Align = 0

\* A read or write that fails with anything but Incomplete has transferred
\* nothing, so that the program may repeat it when it would have blocked or was
\* interrupted (tests ReadExact.NotEnoughBlock and Read.NotEnoughInt,
\* test/fd/ops.cpp): an aligned one goes on while an element is in parts.
RepeatSafe ==
    /\ ~running /\ op \in {"exact", "aligned"} /\ result \notin {"Done", "Incomplete"}
          => pos = start
    /\ running /\ op = "aligned" => total = 0 \/ total % Align # 0

\* Through any sequence of operations the stream is between two elements, or
\* one of them has said that it is not.
FrameKept == torn \/ (IF running THEN start ELSE pos) % Align = 0

\* Together they are kept by every step.
IInv == InOrder /\ DoneWhole /\ RepeatSafe /\ FrameKept

=============================================================================
