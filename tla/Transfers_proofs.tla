---------------------------- MODULE Transfers_proofs ----------------------------
(***************************************************************************)
(* Proofs about bytes that go through descriptors: the operations of       *)
(* FdOps, for buffers, frames and streams of any size and calls that stop  *)
(* anywhere, and the FormatBuffer and the LineReader of Lines, for any     *)
(* sizes of their buffers and the pipe.                                    *)
(***************************************************************************)
EXTENDS
    FdOps, Lines, FiniteSetTheorems, SequenceTheorems, WellFoundedInduction, TLAPS

-----------------------------------------------------------------------------
(* Whole elements *)

LEMMA Quotient ==
    ASSUME NEW n \in Nat, NEW a \in Nat \ {0}
    PROVE  n = (n \div a) * a + (n % a) /\ n \div a \in Nat /\ n % a \in 0 .. a - 1
OBVIOUS

LEMMA MultipleIsWhole ==
    ASSUME NEW n \in Nat, NEW a \in Nat \ {0}
    PROVE  (n * a) % a = 0 /\ n * a \in Nat
OBVIOUS

LEMMA SumIsWhole ==
    ASSUME NEW m \in Nat, NEW n \in Nat, NEW a \in Nat \ {0}, m % a = 0, n % a = 0
    PROVE  (m + n) % a = 0
<1> DEFINE q == (m \div a) + (n \div a)
<1>1. q \in Nat /\ m + n = q * a
  <2>1. m = (m \div a) * a /\ n = (n \div a) * a /\ m \div a \in Nat /\ n \div a \in Nat
    BY Quotient
  <2> QED BY <2>1
<1> HIDE DEF q
<1> QED BY <1>1, MultipleIsWhole

-----------------------------------------------------------------------------
(* Buffers with the stream at their front *)

\* The first n bytes of buffer b are those of the stream behind s, and the rest
\* is untouched.
BeginsAt(b, n, s) ==
    /\ b \in Seq(0 .. StreamEnd)
    /\ Len(b) % Align = 0
    /\ n <= Len(b)
    /\ \A i \in 1 .. Len(b) : b[i] = IF i <= n THEN s + i ELSE 0

LEMMA BufferMade ==
    ASSUME NEW b, NEW n \in Nat, DOMAIN b = 1 .. n, b = [i \in 1 .. n |-> b[i]],
           \A i \in 1 .. n : b[i] \in 0 .. StreamEnd
    PROVE  b \in Seq(0 .. StreamEnd) /\ Len(b) = n
<1>1. b \in [1 .. n -> 0 .. StreamEnd]
  OBVIOUS
<1> QED BY <1>1

\* The bytes that a call of the kernel moves follow those that are there.
LEMMA FilledIsFront ==
    ASSUME TypeOK, NEW b, BeginsAt(b, total, start), pos = start + total,
           NEW k \in Nat, pos + k <= StreamEnd, total + k <= Len(b)
    PROVE  BeginsAt(Filled(b, k), total + k, start)
<1> DEFINE c == Filled(b, k)
<1>1. DOMAIN b = 1 .. Len(b) /\ Len(b) \in Nat
  BY LenProperties DEF BeginsAt
<1>2. DOMAIN c = 1 .. Len(b) /\ c = [i \in 1 .. Len(b) |-> c[i]]
  BY <1>1 DEF Filled
<1>3. \A i \in 1 .. Len(b) : c[i] = IF i <= total + k THEN start + i ELSE 0
  <2> SUFFICES ASSUME NEW i \in 1 .. Len(b)
               PROVE  c[i] = IF i <= total + k THEN start + i ELSE 0
    OBVIOUS
  <2>1. c[i] = IF i \in total + 1 .. total + k THEN pos + i - total ELSE b[i]
    BY <1>1 DEF Filled
  <2>2. b[i] = IF i <= total THEN start + i ELSE 0
    BY DEF BeginsAt
  <2> QED BY <1>1, <2>1, <2>2 DEF TypeOK
<1>4. \A i \in 1 .. Len(b) : c[i] \in 0 .. StreamEnd
  BY <1>1, <1>3, EndAssumption DEF TypeOK
<1> HIDE DEF c
<1>5. c \in Seq(0 .. StreamEnd) /\ Len(c) = Len(b)
  BY <1>1, <1>2, <1>4, BufferMade
<1>6. BeginsAt(c, total + k, start)
  BY <1>3, <1>5 DEF BeginsAt
<1> QED BY <1>6 DEF c

\* A buffer that readAll resizes keeps what was read and stays whole.
LEMMA ResizedIsFront ==
    ASSUME TypeOK, BeginsAt(buf, total, start), start + total <= StreamEnd,
           NEW n \in Nat, total <= n
    PROVE  BeginsAt(Resized(n), total, start) /\ n <= Len(Resized(n))
<1> DEFINE c == Resized(n)
           len == ((n + Align - 1) \div Align) * Align
<1>1. len \in Nat /\ n <= len /\ len % Align = 0
  <2>1. n + Align - 1 \in Nat
    BY AlignAssumption
  <2>2. (n + Align - 1) \div Align \in Nat
    BY <2>1, Quotient, AlignAssumption
  <2>3. n + Align - 1 = len + ((n + Align - 1) % Align)
        /\ (n + Align - 1) % Align \in 0 .. Align - 1
    BY <2>1, Quotient, AlignAssumption
  <2>4. len \in Nat /\ len % Align = 0
    BY <2>2, MultipleIsWhole, AlignAssumption
  <2> HIDE DEF len
  <2> QED BY <2>3, <2>4, AlignAssumption
<1>2. DOMAIN c = 1 .. len /\ c = [i \in 1 .. len |-> c[i]]
  BY DEF Resized
<1>3. \A i \in 1 .. len : c[i] = IF i <= Len(buf) THEN buf[i] ELSE 0
  BY DEF Resized
<1> HIDE DEF c, len
<1>4. \A i \in 1 .. len : c[i] = IF i <= total THEN start + i ELSE 0
  <2>1. Len(buf) \in Nat
    BY LenProperties DEF BeginsAt
  <2> SUFFICES ASSUME NEW i \in 1 .. len
               PROVE  c[i] = IF i <= total THEN start + i ELSE 0
    OBVIOUS
  <2>2. CASE i <= Len(buf)
    <3>1. i \in 1 .. Len(buf)
      BY <1>1, <2>1, <2>2
    <3> QED BY <1>3, <2>2, <3>1 DEF BeginsAt
  <2>3. CASE ~(i <= Len(buf))
    BY <1>1, <1>3, <2>1, <2>3 DEF BeginsAt, TypeOK
  <2> QED BY <2>2, <2>3
<1>5. \A i \in 1 .. len : c[i] \in 0 .. StreamEnd
  BY <1>1, <1>4, EndAssumption DEF TypeOK
<1>6. c \in Seq(0 .. StreamEnd) /\ Len(c) = len
  BY <1>1, <1>2, <1>5, BufferMade
<1>7. BeginsAt(c, total, start) /\ n <= Len(c)
  BY <1>1, <1>4, <1>6 DEF BeginsAt, TypeOK
<1> QED BY <1>7 DEF c

-----------------------------------------------------------------------------
(* What a step comes to *)

Results == {"Done", "Incomplete", "WouldBlock", "Eof", "Error", "TooLarge"}

LEMMA WhileRunning ==
    ASSUME IInv
    PROVE  /\ TypeOK /\ BeginsAt(buf, total, start) /\ Len(buf) \in Nat
           /\ running => pos = start + total /\ (torn \/ start % Align = 0)
<1>1. TypeOK /\ BeginsAt(buf, total, start)
  BY DEF IInv, InOrder, BeginsAt, TypeOK
<1>2. Len(buf) \in Nat
  BY <1>1, LenProperties DEF BeginsAt
<1>3. running => pos = start + total
  BY DEF IInv, InOrder, Returned
<1>4. running => (torn \/ start % Align = 0)
  BY DEF IInv, FrameKept
<1> QED BY <1>1, <1>2, <1>3, <1>4

LEMMA Refused ==
    ASSUME NEW room \in Int, NEW r \in Refusals(room)
    PROVE  r \in {"WouldBlock", "Error", "Eof"} /\ (r = "Eof" => pos = StreamEnd)
BY FailsAssumption DEF Refusals

\* A call of the kernel that moves bytes, after which the operation goes on.
LEMMA MoveStep ==
    ASSUME IInv, running, Continue, NEW b, BeginsAt(b, total, start),
           NEW k \in Nat, k > 0, pos + k <= StreamEnd, total + k <= Len(b),
           Take(b, k), stride' \in 1 .. 2 * MaxStride - 1,
           op = "aligned" => (total + k) % Align # 0
    PROVE  IInv'
<1>1. TypeOK /\ pos = start + total /\ (torn \/ start % Align = 0)
  BY WhileRunning
<1>2. /\ buf' = Filled(b, k) /\ total' = total + k /\ pos' = pos + k
      /\ UNCHANGED <<op, running, result, start, torn>>
  BY DEF Take, Continue
<1>3. BeginsAt(buf', total', start')
  BY <1>1, <1>2, FilledIsFront
<1>4. TypeOK'
  BY <1>1, <1>2, <1>3, EndAssumption DEF TypeOK, BeginsAt
<1>5. InOrder'
  BY <1>1, <1>2, <1>3, <1>4 DEF InOrder, BeginsAt, TypeOK
<1>6. DoneWhole' /\ RepeatSafe' /\ FrameKept'
  <2>1. running' = TRUE /\ running'
    BY <1>1, <1>2 DEF TypeOK
  <2>2. DoneWhole'
    BY <2>1 DEF DoneWhole, Returned
  <2>3. RepeatSafe'
    BY <1>2, <2>1 DEF RepeatSafe
  <2>4. FrameKept'
    BY <1>1, <1>2, <2>1 DEF FrameKept
  <2> QED BY <2>2, <2>3, <2>4
<1> QED BY <1>5, <1>6 DEF IInv

LEMMA Returns ==
    ASSUME TypeOK, NEW outcome \in Results, Return(outcome)
    PROVE  /\ running' = FALSE /\ result' = outcome /\ op' = op /\ start' = start
           /\ torn' \in BOOLEAN
           /\ torn => torn'
           /\ outcome \in {"Incomplete", "TooLarge"} => torn'
           /\ op = "fixedExact" /\ outcome # "Done" => torn'
<1>1. running' = FALSE /\ result' = outcome /\ op' = op /\ start' = start
  BY DEF Return
<1>2. torn' = (torn \/ outcome \in {"Incomplete", "TooLarge"}
                     \/ (op = "fixedExact" /\ outcome # "Done"))
  BY DEF Return
<1> QED BY <1>1, <1>2, Zenon

\* An operation that returns, in whatever way, has what it says it has.
LEMMA ReturnStep ==
    ASSUME IInv, running, NEW outcome \in Results, Return(outcome),
           BeginsAt(buf', total', start), total' \in Nat, pos' \in 0 .. StreamEnd,
           stride' = stride,
           outcome = "TooLarge" \/ pos' = start + total',
           \/ total' % Align = 0
           \/ outcome \in {"Incomplete", "TooLarge"}
           \/ op = "fixedExact" /\ outcome # "Done",
           op \in {"exact", "aligned"} /\ outcome \notin {"Done", "Incomplete"} =>
              pos' = start,
           outcome = "Done" =>
              /\ op \in {"exact", "fixedExact"} => total' = Len(buf')
              /\ op \in {"all", "fixed", "fixedExact"} => pos' = StreamEnd
              /\ op = "all" => Len(buf') = total'
              /\ total' % Align = 0
    PROVE  IInv'
<1>1. TypeOK /\ (torn \/ start % Align = 0)
  BY WhileRunning
<1>2. /\ running' = FALSE /\ result' = outcome /\ op' = op /\ start' = start
      /\ torn' \in BOOLEAN
      /\ torn => torn'
      /\ outcome \in {"Incomplete", "TooLarge"} => torn'
      /\ op = "fixedExact" /\ outcome # "Done" => torn'
  BY <1>1, Returns
<1>3. TypeOK'
  <2>1. running' \in BOOLEAN /\ torn' \in BOOLEAN
    BY <1>2
  <2>2. /\ op' \in Ops /\ start' \in Nat /\ total' \in Nat
        /\ buf' \in Seq(0 .. StreamEnd) /\ result' \in Results
    BY <1>1, <1>2 DEF TypeOK, BeginsAt
  <2>3. stride' \in 1 .. 2 * MaxStride - 1
    BY <1>1 DEF TypeOK
  <2> QED BY <2>1, <2>2, <2>3, Zenon DEF TypeOK, Results
<1>4. InOrder'
  <2>1. Returned("TooLarge")' \/ pos' = start' + total'
    BY <1>2 DEF Returned
  <2> QED BY <1>2, <1>3, <2>1 DEF InOrder, BeginsAt
<1>5. DoneWhole'
  BY <1>2 DEF DoneWhole, Returned
<1>6. RepeatSafe'
  BY <1>2 DEF RepeatSafe
<1>7. FrameKept'
  <2>1. CASE torn'
    BY <2>1 DEF FrameKept
  <2>2. CASE ~torn'
    <3>1. total' % Align = 0 /\ start % Align = 0 /\ pos' = start + total'
      BY <1>1, <1>2, <2>2
    <3>2. pos' % Align = 0
      BY <1>1, <3>1, SumIsWhole, AlignAssumption DEF TypeOK
    <3> QED BY <1>2, <3>2 DEF FrameKept
  <2> QED BY <2>1, <2>2
<1> QED BY <1>4, <1>5, <1>6, <1>7 DEF IInv

-----------------------------------------------------------------------------
(* The steps *)

LEMMA InitHolds == Init => IInv
<1> SUFFICES ASSUME Init PROVE IInv
  OBVIOUS
<1>1. buf = <<>> /\ Len(buf) = 0 /\ buf \in Seq(0 .. StreamEnd)
  BY EmptySeq DEF Init
<1>2. 0 % Align = 0
  BY MultipleIsWhole, AlignAssumption
<1>3. TypeOK
  <2>1. stride \in 1 .. 2 * MaxStride - 1
    BY StrideAssumption DEF Init
  <2>2. pos \in 0 .. StreamEnd /\ total \in Nat /\ start \in Nat
    BY EndAssumption DEF Init
  <2>3. running \in BOOLEAN /\ torn \in BOOLEAN /\ op \in Ops
    BY DEF Init, Ops
  <2> QED BY <1>1, <2>1, <2>2, <2>3 DEF Init, TypeOK
<1>4. InOrder
  BY <1>1, <1>2, <1>3 DEF Init, InOrder
<1>5. DoneWhole /\ RepeatSafe /\ FrameKept
  BY <1>1, <1>2 DEF Init, DoneWhole, RepeatSafe, FrameKept
<1> QED BY <1>4, <1>5 DEF IInv

LEMMA CallStep ==
    ASSUME IInv, NEW o \in Ops, NEW n \in Counts, Call(o, n)
    PROVE  IInv'
<1>1. TypeOK /\ Len(buf) \in Nat
  BY WhileRunning
<1>2. /\ ~running /\ op' = o /\ running' = TRUE
      /\ buf' = IF o = "all" THEN <<>> ELSE [i \in 1 .. n * Align |-> 0]
      /\ total' = 0 /\ stride' = FirstStride /\ start' = pos
      /\ UNCHANGED <<result, pos, torn>>
  BY DEF Call
<1>3. BeginsAt(buf', 0, pos)
  <2>1. CASE o = "all"
    <3>1. buf' = <<>> /\ Len(buf') = 0 /\ buf' \in Seq(0 .. StreamEnd)
      BY <1>2, <2>1, EmptySeq
    <3>2. 0 % Align = 0
      BY MultipleIsWhole, AlignAssumption
    <3> QED BY <3>1, <3>2 DEF BeginsAt
  <2>2. CASE o # "all"
    <3> DEFINE m == n * Align
    <3>1. m \in Nat /\ m % Align = 0
      BY MultipleIsWhole, AlignAssumption, CountsAssumption
    <3>2. buf' = [i \in 1 .. m |-> 0]
      BY <1>2, <2>2
    <3> HIDE DEF m
    <3>3. buf' \in Seq(0 .. StreamEnd) /\ Len(buf') = m
      BY <3>1, <3>2, BufferMade, EndAssumption
    <3> QED BY <3>1, <3>2, <3>3 DEF BeginsAt
  <2> QED BY <2>1, <2>2
<1>4. TypeOK'
  BY <1>1, <1>2, <1>3, StrideAssumption DEF TypeOK, BeginsAt
<1>5. InOrder'
  <2>1. pos' = start' + total'
    BY <1>1, <1>2 DEF TypeOK
  <2>2. BeginsAt(buf', total', start')
    BY <1>2, <1>3
  <2> QED BY <1>4, <2>1, <2>2 DEF InOrder, BeginsAt
<1>6. DoneWhole' /\ RepeatSafe'
  BY <1>2 DEF DoneWhole, Returned, RepeatSafe
<1>7. FrameKept'
  BY <1>2 DEF IInv, FrameKept
<1> QED BY <1>5, <1>6, <1>7 DEF IInv

LEMMA ExactStep ==
    ASSUME IInv, ExactMove \/ ExactDone \/ ExactRefused
    PROVE  IInv'
<1>1. /\ TypeOK /\ BeginsAt(buf, total, start) /\ Len(buf) \in Nat /\ total \in Nat
      /\ running /\ op = "exact" /\ pos = start + total /\ total <= Len(buf)
      /\ Len(buf) % Align = 0
  BY WhileRunning DEF ExactMove, ExactDone, ExactRefused, TypeOK, BeginsAt
<1>2. CASE ExactMove
  <2>1. PICK k \in Moves(Len(buf) - total) : Take(buf, k)
    BY <1>2 DEF ExactMove
  <2>2. k \in Nat /\ k > 0 /\ pos + k <= StreamEnd /\ total + k <= Len(buf)
    BY <1>1 DEF Moves
  <2>3. Continue /\ stride' \in 1 .. 2 * MaxStride - 1
    BY <1>1, <1>2 DEF ExactMove, TypeOK
  <2> QED BY <1>1, <2>1, <2>2, <2>3, MoveStep
<1>3. CASE ExactDone
  <2>1. total = Len(buf) /\ Return("Done") /\ Stay
    BY <1>1, <1>3 DEF ExactDone
  <2>2. UNCHANGED <<buf, total, stride, pos>> /\ pos \in 0 .. StreamEnd
    BY <1>1, <2>1 DEF Stay, TypeOK
  <2> QED BY <1>1, <2>1, <2>2, ReturnStep DEF Results
<1>4. CASE ExactRefused
  <2>1. PICK r \in Refusals(Len(buf) - total) :
           Return(IF total # 0 THEN "Incomplete" ELSE r)
    BY <1>4 DEF ExactRefused
  <2> DEFINE outcome == IF total # 0 THEN "Incomplete" ELSE r
  <2>2. r \in {"WouldBlock", "Error", "Eof"}
    BY <1>1, Refused
  <2>3. outcome \in Results /\ outcome # "Done" /\ (outcome # "Incomplete" => total = 0)
    BY <2>2 DEF Results
  <2>4. UNCHANGED <<buf, total, stride, pos>> /\ pos \in 0 .. StreamEnd
    BY <1>1, <1>4 DEF ExactRefused, Stay, TypeOK
  <2>5. 0 % Align = 0
    BY MultipleIsWhole, AlignAssumption
  <2> HIDE DEF outcome
  <2>6. Return(outcome)
    BY <2>1 DEF outcome
  <2>7. outcome = "Incomplete" \/ (total % Align = 0 /\ pos = start)
    BY <1>1, <2>3, <2>5 DEF TypeOK
  <2> QED BY <1>1, <2>3, <2>4, <2>6, <2>7, ReturnStep
<1> QED BY <1>2, <1>3, <1>4

LEMMA AlignedStep ==
    ASSUME IInv, AlignedMove \/ AlignedEmpty \/ AlignedRefused
    PROVE  IInv'
<1>1. /\ TypeOK /\ BeginsAt(buf, total, start) /\ Len(buf) \in Nat /\ total \in Nat
      /\ running /\ op = "aligned" /\ pos = start + total /\ total <= Len(buf)
      /\ pos \in 0 .. StreamEnd /\ stride \in 1 .. 2 * MaxStride - 1
  BY WhileRunning DEF AlignedMove, AlignedEmpty, AlignedRefused, TypeOK, BeginsAt
<1>2. total = 0 \/ total % Align # 0
  BY <1>1 DEF IInv, RepeatSafe
<1>3. 0 % Align = 0
  BY MultipleIsWhole, AlignAssumption
<1>4. CASE AlignedMove
  <2>1. PICK k \in Moves(Len(buf) - total) :
           Take(buf, k) /\ IF (total + k) % Align = 0 THEN Return("Done") ELSE Continue
    BY <1>4 DEF AlignedMove
  <2>2. k \in Nat /\ k > 0 /\ pos + k <= StreamEnd /\ total + k <= Len(buf)
    BY <1>1 DEF Moves
  <2>3. stride' = stride
    BY <1>4 DEF AlignedMove
  <2>4. CASE (total + k) % Align = 0
    <3>1. BeginsAt(buf', total', start) /\ total' = total + k /\ pos' = pos + k
      BY <1>1, <2>1, <2>2, FilledIsFront DEF Take
    <3>2. pos' \in 0 .. StreamEnd /\ pos' = start + total' /\ total' \in Nat
      BY <1>1, <2>2, <3>1 DEF TypeOK
    <3>3. Return("Done")
      BY <2>1, <2>4
    <3> QED BY <1>1, <2>3, <2>4, <3>1, <3>2, <3>3, ReturnStep DEF Results
  <2>5. CASE (total + k) % Align # 0
    BY <1>1, <2>1, <2>2, <2>3, <2>5, MoveStep
  <2> QED BY <2>4, <2>5
<1>5. CASE AlignedEmpty
  <2> DEFINE outcome == IF total # 0 THEN "Incomplete" ELSE "Done"
  <2>1. /\ Return(outcome) /\ outcome \in Results
        /\ outcome = "Incomplete" \/ (outcome = "Done" /\ total = 0)
    BY <1>5 DEF AlignedEmpty, Results
  <2>2. UNCHANGED <<buf, total, stride, pos>>
    BY <1>5 DEF AlignedEmpty, Stay
  <2> HIDE DEF outcome
  <2> QED BY <1>1, <1>3, <2>1, <2>2, ReturnStep
<1>6. CASE AlignedRefused
  <2>1. PICK r \in Refusals(Len(buf) - total) :
           Return(IF total % Align # 0 THEN "Incomplete" ELSE r)
    BY <1>6 DEF AlignedRefused
  <2> DEFINE outcome == IF total % Align # 0 THEN "Incomplete" ELSE r
  <2>2. r \in {"WouldBlock", "Error", "Eof"}
    BY <1>1, Refused
  <2>3. /\ outcome \in Results /\ outcome # "Done"
        /\ outcome # "Incomplete" => total = 0
    BY <1>2, <2>2 DEF Results
  <2>4. UNCHANGED <<buf, total, stride, pos>>
    BY <1>6 DEF AlignedRefused, Stay
  <2> HIDE DEF outcome
  <2>5. Return(outcome)
    BY <2>1 DEF outcome
  <2>6. outcome = "Incomplete" \/ (total % Align = 0 /\ pos = start)
    BY <1>1, <1>3, <2>3 DEF TypeOK
  <2> QED BY <1>1, <2>3, <2>4, <2>5, <2>6, ReturnStep
<1> QED BY <1>4, <1>5, <1>6

LEMMA AllStep ==
    ASSUME IInv, AllMove \/ AllRefused
    PROVE  IInv'
<1>1. /\ TypeOK /\ BeginsAt(buf, total, start) /\ total \in Nat
      /\ running /\ op = "all" /\ pos = start + total
      /\ pos \in 0 .. StreamEnd /\ stride \in 1 .. 2 * MaxStride - 1
      /\ start \in Nat
  BY WhileRunning DEF AllMove, AllRefused, TypeOK
<1> DEFINE b == Resized(total + stride)
<1>2. BeginsAt(b, total, start) /\ total + stride <= Len(b) /\ Len(b) \in Nat
  <2>1. total + stride \in Nat /\ total <= total + stride
    BY <1>1, StrideAssumption
  <2>2. BeginsAt(b, total, start) /\ total + stride <= Len(b)
    BY <1>1, <2>1, ResizedIsFront, EndAssumption
  <2> QED BY <2>2, LenProperties DEF BeginsAt
<1>3. CASE AllMove
  <2>1. PICK k \in Moves(Len(b) - total) :
           /\ Take(b, k)
           /\ stride' = IF stride < MaxStride /\ total + k >= stride
                        THEN 2 * stride ELSE stride
    BY <1>3 DEF AllMove
  <2>2. Continue
    BY <1>3 DEF AllMove
  <2> HIDE DEF b
  <2>3. k \in Nat /\ k > 0 /\ pos + k <= StreamEnd /\ total + k <= Len(b)
    BY <1>1, <1>2 DEF Moves
  <2>4. stride' \in 1 .. 2 * MaxStride - 1
    BY <1>1, <2>1, StrideAssumption
  <2> QED BY <1>1, <1>2, <2>1, <2>2, <2>3, <2>4, MoveStep
<1>4. CASE AllRefused
  <2> DEFINE c == Resized(total)
  <2>1. PICK r \in Refusals(Len(b) - total) :
           Return(IF Len(c) # total THEN "Incomplete"
                  ELSE IF r = "Eof" THEN "Done" ELSE r)
    BY <1>4 DEF AllRefused
  <2>2. buf' = c /\ UNCHANGED <<total, stride, pos>>
    BY <1>4 DEF AllRefused
  <2>3. BeginsAt(c, total, start)
    BY <1>1, ResizedIsFront, EndAssumption
  <2> DEFINE outcome == IF Len(c) # total THEN "Incomplete"
                        ELSE IF r = "Eof" THEN "Done" ELSE r
  <2>4. r \in {"WouldBlock", "Error", "Eof"} /\ (r = "Eof" => pos = StreamEnd)
    <3> HIDE DEF b
    <3>1. Len(b) - total \in Int
      BY <1>1, <1>2
    <3> QED BY <2>1, <3>1, Refused
  <2> HIDE DEF b, c
  <2>5. /\ outcome \in Results /\ outcome # "TooLarge"
        /\ outcome = "Done" => pos = StreamEnd
    BY <2>4 DEF Results
  <2>6. outcome = "Incomplete" \/ (Len(c) = total /\ total % Align = 0)
    BY <2>3 DEF BeginsAt
  <2>7. Return(outcome)
    BY <2>1
  <2> HIDE DEF outcome
  <2> QED BY <1>1, <2>2, <2>3, <2>5, <2>6, <2>7, ReturnStep
<1> QED BY <1>3, <1>4

LEMMA FixedStep ==
    ASSUME IInv, FixedMove \/ FixedProbe \/ FixedRefused
    PROVE  IInv'
<1>1. /\ TypeOK /\ BeginsAt(buf, total, start) /\ Len(buf) \in Nat /\ total \in Nat
      /\ running /\ op \in {"fixed", "fixedExact"} /\ pos = start + total
      /\ total <= Len(buf) /\ Len(buf) % Align = 0
      /\ pos \in 0 .. StreamEnd /\ stride \in 1 .. 2 * MaxStride - 1
  BY WhileRunning DEF FixedMove, FixedProbe, FixedRefused, TypeOK, BeginsAt
<1>2. /\ op = "fixed" => OpAlign = Align
      /\ op = "fixedExact" => total % OpAlign = 0
  <2>1. total % 1 \in 0 .. 1 - 1
    BY <1>1, Quotient
  <2>2. total % 1 = 0
    BY <2>1
  <2> QED BY <2>2 DEF OpAlign
<1>3. CASE FixedMove
  <2>1. PICK k \in Moves(LesserOf(MaxStride, Len(buf) - total)) : Take(buf, k)
    BY <1>3 DEF FixedMove
  <2>2. k \in Nat /\ k > 0 /\ pos + k <= StreamEnd /\ total + k <= Len(buf)
    BY <1>1, StrideAssumption DEF Moves, LesserOf
  <2>3. Continue /\ stride' \in 1 .. 2 * MaxStride - 1
    BY <1>1, <1>3 DEF FixedMove
  <2> QED BY <1>1, <2>1, <2>2, <2>3, MoveStep
<1>4. CASE FixedProbe
  <2>1. total = Len(buf) /\ pos + 1 <= StreamEnd /\ pos' = pos + 1
    BY <1>1, <1>4 DEF FixedProbe, Moves
  <2>2. total % OpAlign = 0
    BY <1>1, <1>2, <2>1
  <2>3. Return("TooLarge") /\ UNCHANGED <<buf, total, stride>>
    BY <1>4, <2>2 DEF FixedProbe
  <2>4. pos' \in 0 .. StreamEnd
    BY <1>1, <2>1
  <2> QED BY <1>1, <2>3, <2>4, ReturnStep DEF Results
<1>5. CASE FixedRefused
  <2>1. PICK r \in Refusals(1) :
           Return(IF total % OpAlign # 0 THEN "Incomplete"
                  ELSE IF r # "Eof" THEN r
                  ELSE IF op = "fixedExact" /\ total # Len(buf) THEN "WouldBlock"
                  ELSE "Done")
    BY <1>5 DEF FixedRefused
  <2> DEFINE outcome == IF total % OpAlign # 0 THEN "Incomplete"
                        ELSE IF r # "Eof" THEN r
                        ELSE IF op = "fixedExact" /\ total # Len(buf) THEN "WouldBlock"
                        ELSE "Done"
  <2>2. r \in {"WouldBlock", "Error", "Eof"} /\ (r = "Eof" => pos = StreamEnd)
    BY Refused
  <2>3. UNCHANGED <<buf, total, stride, pos>>
    BY <1>5 DEF FixedRefused, Stay
  <2>4. outcome \in Results /\ outcome # "TooLarge"
    BY <2>2 DEF Results
  <2>5. outcome = "Done" => pos = StreamEnd /\ (op = "fixedExact" => total = Len(buf))
    BY <2>2
  <2>6. op = "fixed" /\ outcome # "Incomplete" => total % Align = 0
    BY <1>2
  <2>7. Return(outcome)
    BY <2>1
  <2> HIDE DEF outcome
  <2>8. outcome = "Done" => total % Align = 0
    BY <1>1, <2>5, <2>6
  <2>9. \/ total % Align = 0 \/ outcome \in {"Incomplete", "TooLarge"}
        \/ op = "fixedExact" /\ outcome # "Done"
    BY <1>1, <2>6, <2>8
  <2> QED BY <1>1, <2>3, <2>4, <2>5, <2>7, <2>8, <2>9, ReturnStep
<1> QED BY <1>3, <1>4, <1>5

LEMMA NextStep == IInv /\ [Next]_vars => IInv'
<1> SUFFICES ASSUME IInv, [Next]_vars PROVE IInv'
  OBVIOUS
<1>1. CASE UNCHANGED vars
  BY <1>1 DEF vars, IInv, InOrder, TypeOK, DoneWhole, RepeatSafe, FrameKept,
     Returned
<1> QED BY <1>1, CallStep, ExactStep, AlignedStep, AllStep, FixedStep DEF Next

LEMMA Invariance == Spec => []IInv
<1> QED BY InitHolds, NextStep, PTL DEF Spec

-----------------------------------------------------------------------------
(* The theorems *)

\* The bytes an operation took are in its buffer, each once and in order.
THEOREM BytesInOrder == Spec => []InOrder
<1>1. IInv => InOrder
  BY DEF IInv
<1> QED BY <1>1, Invariance, PTL

\* An operation that succeeds has done what it was called for, in whole elements:
\* opExact and readAllExact have filled the buffer, and readAll, readAllFixed and
\* readAllExact have reached the end of the stream (src/fd/ops.cpp).
THEOREM DoneIsWhole == Spec => []DoneWhole
<1>1. IInv => DoneWhole
  BY DEF IInv
<1> QED BY <1>1, Invariance, PTL

\* A read or write that did not say Incomplete has transferred nothing.
THEOREM SafeToRepeat == Spec => []RepeatSafe
<1>1. IInv => RepeatSafe
  BY DEF IInv
<1> QED BY <1>1, Invariance, PTL

\* The stream stays between elements, or somebody was told that it does not.
THEOREM FramesKept == Spec => []FrameKept
<1>1. IInv => FrameKept
  BY DEF IInv
<1> QED BY <1>1, Invariance, PTL

-----------------------------------------------------------------------------
(* Pieces of what was sent *)

LEMMA PieceIs ==
    ASSUME NEW s \in Numbers, NEW m \in Int, NEW n \in Int, 1 <= m, n <= Len(s)
    PROVE  /\ SubSeq(s, m, n) \in Numbers
           /\ Len(SubSeq(s, m, n)) = IF m <= n THEN n - m + 1 ELSE 0
           /\ \A i \in 1 .. n - m + 1 : SubSeq(s, m, n)[i] = s[m + i - 1]
<1>1. ASSUME NEW i \in m .. n PROVE s[i] \in 1 .. Bytes
  <2>1. Len(s) \in Nat
    BY LenProperties DEF Numbers
  <2>2. i \in 1 .. Len(s)
    BY <2>1
  <2> QED BY <2>2, ElementOfSeq DEF Numbers
<1> QED BY <1>1, SubSeqProperties DEF Numbers

\* Two pieces, one after the other.
LEMMA PiecesJoin ==
    ASSUME NEW s \in Numbers, NEW m \in Int, NEW k \in Int, NEW n \in Int,
           1 <= m, m <= k + 1, k <= n, n <= Len(s)
    PROVE  SubSeq(s, m, k) \o SubSeq(s, k + 1, n) = SubSeq(s, m, n)
<1>1. Len(s) \in Nat
  BY LenProperties DEF Numbers
<1>2. CASE m <= Len(s) + 1
  BY <1>1, <1>2, ConcatAdjacentSubSeq DEF Numbers
<1> QED BY <1>1, <1>2

\* A piece is found by its bytes.
LEMMA PieceFound ==
    ASSUME NEW s \in Numbers, NEW t \in Numbers, NEW m \in Int, NEW n \in Int,
           1 <= m, m <= n + 1, n <= Len(s), Len(t) = n - m + 1,
           \A i \in 1 .. Len(t) : t[i] = s[m + i - 1]
    PROVE  t = SubSeq(s, m, n)
<1>1. /\ SubSeq(s, m, n) \in Numbers /\ Len(SubSeq(s, m, n)) = n - m + 1
      /\ \A i \in 1 .. n - m + 1 : SubSeq(s, m, n)[i] = s[m + i - 1]
  BY PieceIs
<1> QED BY <1>1, SeqEqual DEF Numbers

-----------------------------------------------------------------------------
(* The FormatBuffer *)

LEMMA Typed ==
    ASSUME LinesTypeOK
    PROVE  /\ fbuf \in Numbers /\ pipe \in Numbers /\ buf_data \in Numbers
           /\ line \in Numbers /\ sent \in Numbers /\ lines \in Seq(Numbers)
           /\ appended \in Nat /\ appended <= Bytes /\ Bytes \in Nat
           /\ written \in Int /\ -1 <= written /\ written < Len(fbuf) /\ Len(fbuf) <= appended
           /\ Len(fbuf) \in Nat /\ Len(pipe) \in Nat /\ Len(sent) \in Nat
           /\ Len(buf_data) \in Nat /\ Len(line) \in Nat
BY BytesAssumption, LenProperties DEF LinesTypeOK, Numbers

\* The bytes that are appended.
LEMMA NewBytes ==
    ASSUME NEW a \in Nat, NEW k \in Nat, a + k <= Bytes, Bytes \in Nat
    PROVE  /\ [i \in 1 .. k |-> a + i] \in Numbers
           /\ Len([i \in 1 .. k |-> a + i]) = k
           /\ [i \in 1 .. a |-> i] \o [i \in 1 .. k |-> a + i] = [i \in 1 .. a + k |-> i]
           /\ [i \in 1 .. a |-> i] \in Numbers
<1>1. /\ [i \in 1 .. k |-> a + i] \in [1 .. k -> 1 .. Bytes]
      /\ [i \in 1 .. a |-> i] \in [1 .. a -> 1 .. Bytes]
      /\ [i \in 1 .. a + k |-> i] \in [1 .. a + k -> 1 .. Bytes]
  OBVIOUS
<1>2. /\ [i \in 1 .. k |-> a + i] \in Numbers /\ Len([i \in 1 .. k |-> a + i]) = k
      /\ [i \in 1 .. a |-> i] \in Numbers /\ Len([i \in 1 .. a |-> i]) = a
      /\ [i \in 1 .. a + k |-> i] \in Numbers /\ Len([i \in 1 .. a + k |-> i]) = a + k
  BY <1>1 DEF Numbers
<1> DEFINE x == [i \in 1 .. a |-> i]
           y == [i \in 1 .. k |-> a + i]
           z == [i \in 1 .. a + k |-> i]
<1>3. /\ x \o y \in Numbers /\ Len(x \o y) = a + k
      /\ \A i \in 1 .. a + k : (x \o y)[i] = IF i <= a THEN x[i] ELSE y[i - a]
  BY <1>2, ConcatProperties DEF Numbers
<1>4. \A i \in 1 .. a + k : (x \o y)[i] = z[i]
  BY <1>3
<1>5. x \o y = z
  BY <1>2, <1>3, <1>4, SeqEqual DEF Numbers
<1> QED BY <1>2, <1>5


\* What the buffer has that was not written yet.
Unwritten == From(fbuf, IF written >= 0 THEN written + 1 ELSE 1)

\* Every set of naturals has a least element.
LEMMA LeastNatural ==
    ASSUME NEW T \in SUBSET Nat, T # {}
    PROVE  \E x \in T : \A y \in T : x <= y
<1> DEFINE R == OpToRel(<, Nat)
<1>1. PICK x \in T : \A y \in T : ~(<<y, x>> \in R)
  <2>1. IsWellFoundedOn(R, Nat)
    BY NatLessThanWellFounded
  <2> HIDE DEF R
  <2> QED BY <2>1, WFMin
<1>2. \A y \in T : ~(y < x)
  BY <1>1 DEF OpToRel
<1> QED BY <1>2

\* What the search for a newline returns.
LEMMA FirstNewLineIs ==
    ASSUME buf_data \in Numbers
    PROVE  /\ FirstNewLine \in 0 .. Len(buf_data)
           /\ FirstNewLine = 0 => \A i \in 1 .. Len(buf_data) : buf_data[i] \notin NewLines
           /\ FirstNewLine # 0 =>
                 /\ buf_data[FirstNewLine] \in NewLines
                 /\ \A i \in 1 .. FirstNewLine - 1 : buf_data[i] \notin NewLines
<1> DEFINE I == {i \in 1 .. Len(buf_data) : buf_data[i] \in NewLines}
<1>1. FirstNewLine = IF I # {} THEN Min(I) ELSE 0
  BY DEF FirstNewLine, SelectInSeq
<1>2. Len(buf_data) \in Nat
  BY LenProperties DEF Numbers
<1>3. CASE I = {}
  BY <1>1, <1>2, <1>3
<1>4. CASE I # {}
  <2>0. I \in SUBSET Nat
    BY <1>2
  <2> HIDE DEF I
  <2>1. \E m \in I : \A y \in I : m <= y
    BY <1>4, <2>0, LeastNatural
  <2>2. Min(I) \in I /\ \A y \in I : Min(I) <= y
    BY <2>1, Zenon DEF Min
  <2>3. PICK m : m = Min(I)
    OBVIOUS
  <2>4. FirstNewLine = m /\ m \in I /\ \A y \in I : m <= y
    BY <1>1, <1>4, <2>2, <2>3
  <2>5. m \in 1 .. Len(buf_data) /\ buf_data[m] \in NewLines
    BY <2>4 DEF I
  <2>6. ASSUME NEW i \in 1 .. m - 1 PROVE buf_data[i] \notin NewLines
    <3>1. i \notin I /\ i \in 1 .. Len(buf_data)
      BY <1>2, <2>4, <2>5
    <3> QED BY <3>1 DEF I
  <2> QED BY <2>4, <2>5, <2>6
<1> QED BY <1>3, <1>4

LEMMA TypesKept ==
    ASSUME LinesTypeOK, [LinesNext]_linesVars
    PROVE  LinesTypeOK'
<1> USE DEF writer, reader
<1>0. /\ LinesTypeOK /\ <<>> \in Numbers /\ Bytes \in Nat /\ Len(<<>>) = 0
  BY BytesAssumption, EmptySeq DEF Numbers
<1>1. ASSUME NEW k \in 1 .. Chunk, AppendBytes(k) PROVE LinesTypeOK'
  <2>1. k \in Nat /\ appended + k <= Bytes
    BY <1>1, SizesAssumption DEF AppendBytes
  <2>2. fbuf' \in Numbers /\ Len(fbuf') = Len(fbuf) + k
    <3> DEFINE new == [i \in 1 .. k |-> appended + i]
    <3>1. new \in Numbers /\ Len(new) = k
      BY <2>1, Typed, NewBytes
    <3>2. fbuf' = fbuf \o new /\ fbuf \in Numbers
      BY <1>1, Typed DEF AppendBytes
    <3> HIDE DEF new
    <3> QED BY <3>1, <3>2, ConcatProperties DEF Numbers
  <2> QED BY <1>0, <1>1, <2>1, <2>2, Typed DEF AppendBytes, LinesTypeOK
<1>2. CASE Flush
  BY <1>0, <1>2, Typed DEF Flush, LinesTypeOK, Numbers
<1>3. CASE Write
  <2>1. PICK k \in 1 .. Len(fbuf) - written :
          /\ pipe' = pipe \o SubSeq(fbuf, written + 1, written + k)
          /\ sent' = sent \o SubSeq(fbuf, written + 1, written + k)
          /\ IF written + k = Len(fbuf)
             THEN written' = -1 /\ fbuf' = <<>>
             ELSE written' = written + k /\ UNCHANGED fbuf
    BY <1>3 DEF Write
  <2>2. SubSeq(fbuf, written + 1, written + k) \in Numbers
    BY <1>3, Typed, PieceIs DEF Write
  <2>3. pipe' \in Numbers /\ sent' \in Numbers
    <3> DEFINE some == SubSeq(fbuf, written + 1, written + k)
    <3>1. \A s, t \in Numbers : s \o t \in Numbers
      BY ConcatProperties DEF Numbers
    <3>2. some \in Numbers /\ pipe' = pipe \o some /\ sent' = sent \o some
      BY <2>1, <2>2
    <3> HIDE DEF some
    <3> QED BY <3>1, <3>2, Typed
  <2>4. /\ k \in Int /\ 1 <= k /\ k <= Len(fbuf) - written /\ 0 <= written
        /\ \/ written' = -1 /\ fbuf' = <<>>
           \/ written' = written + k /\ written' # Len(fbuf) /\ fbuf' = fbuf
    <3>1. /\ 0 <= written /\ written \in Int /\ Len(fbuf) \in Nat
      BY <1>3, Typed DEF Write
    <3> QED BY <2>1, <3>1
  <2>5. /\ written' \in -1 .. Bytes /\ written' < Len(fbuf') /\ Len(fbuf') <= appended
        /\ fbuf' \in Numbers
    <3>1. CASE written' = -1 /\ fbuf' = <<>>
      BY <1>0, <3>1, Typed
    <3>2. CASE written' = written + k /\ written' # Len(fbuf) /\ fbuf' = fbuf
      BY <1>0, <2>4, <3>2, Typed
    <3> QED BY <2>4, <3>1, <3>2
  <2> QED BY <1>0, <1>3, <2>3, <2>5, Typed DEF Write, LinesTypeOK
<1>4. CASE WriteRefused
  BY <1>0, <1>4, Typed, ForgottenAssumption DEF WriteRefused, LinesTypeOK
<1>5. CASE Destroy \/ Destroyed
  BY <1>0, <1>5, Typed DEF Destroy, Destroyed, LinesTypeOK, Numbers
<1>6. CASE DestroyRefused
  BY <1>0, <1>6, Typed, ForgottenAssumption DEF DestroyRefused, LinesTypeOK
<1>7. CASE ReadLine
  BY <1>0, <1>7, Typed DEF ReadLine, LinesTypeOK
<1>8. CASE Fill
  <2>1. PICK k \in 1 .. Len(pipe) :
          buf_data' = Upto(pipe, k) /\ pipe' = From(pipe, k + 1)
    BY <1>8 DEF Fill
  <2>2. Upto(pipe, k) \in Numbers /\ From(pipe, k + 1) \in Numbers
    <3>1. /\ k \in Int /\ k + 1 \in Int /\ Len(pipe) \in Int /\ 1 <= 1 /\ 1 <= k + 1
          /\ k <= Len(pipe) /\ Len(pipe) <= Len(pipe)
      BY Typed
    <3> QED BY <3>1, Typed, PieceIs DEF Upto, From
  <2>3. buf_data' \in Numbers /\ pipe' \in Numbers
    BY <2>1, <2>2
  <2> QED BY <1>0, <1>8, <2>3, Typed DEF Fill, LinesTypeOK
<1>9. CASE FillRefused
  BY <1>0, <1>9, Typed DEF FillRefused, LinesTypeOK
<1>10. CASE FillEnd
  <2>1. lines' \in Seq(Numbers)
    BY <1>10, Typed, AppendProperties DEF FillEnd
  <2> QED BY <1>0, <1>10, <2>1, Typed DEF FillEnd, LinesTypeOK
<1>11. CASE UNCHANGED linesVars
  BY <1>0, <1>11 DEF linesVars, LinesTypeOK
<1>12. CASE Scan
  <2>1. FirstNewLine \in 0 .. Len(buf_data)
    BY FirstNewLineIs, Typed
  <2>2. /\ Upto(buf_data, FirstNewLine - 1) \in Numbers
        /\ From(buf_data, FirstNewLine + 1) \in Numbers
    <3>1. /\ Len(buf_data) \in Nat /\ FirstNewLine \in Nat
          /\ FirstNewLine - 1 \in Int /\ FirstNewLine + 1 \in Int
          /\ FirstNewLine - 1 <= Len(buf_data) /\ 1 <= FirstNewLine + 1
      BY <2>1, Typed
    <3>2. Upto(buf_data, FirstNewLine - 1) \in Numbers
      BY <3>1, Typed, PieceIs DEF Upto
    <3>3. From(buf_data, FirstNewLine + 1) \in Numbers
      BY <3>1, Typed, PieceIs DEF From
    <3> QED BY <3>2, <3>3
  <2>3. \A s, t \in Numbers : s \o t \in Numbers
    BY ConcatProperties DEF Numbers
  <2>4. \A s \in Numbers : Append(lines, s) \in Seq(Numbers)
    BY Typed, AppendProperties
  <2>5. line' \in Numbers /\ buf_data' \in Numbers /\ lines' \in Seq(Numbers)
    BY <1>0, <1>12, <2>2, <2>3, <2>4, Typed DEF Scan
  <2> QED BY <1>0, <1>12, <2>5, Typed DEF Scan, LinesTypeOK
<1> QED
  BY <1>1, <1>2, <1>3, <1>4, <1>5, <1>6, <1>7, <1>8, <1>9, <1>10, <1>11, <1>12
     DEF LinesNext, WriterNext, ReaderNext

LEMMA InitTyped == LinesInit => LinesTypeOK
<1>1. <<>> \in Numbers /\ Len(<<>>) = 0 /\ <<>> \in Seq(Numbers)
  BY EmptySeq DEF Numbers
<1> SUFFICES ASSUME LinesInit PROVE LinesTypeOK
  OBVIOUS
<1>2. \A s \in {fbuf, pipe, buf_data, line, sent} : s \in Numbers
  BY <1>1 DEF LinesInit
<1>3. /\ appended \in 0 .. Bytes /\ written \in -1 .. Bytes
      /\ written < Len(fbuf) /\ Len(fbuf) <= appended /\ forgotten \in 0 .. MaxForgotten
  BY <1>1, BytesAssumption, ForgottenAssumption DEF LinesInit
<1> QED BY <1>1, <1>2, <1>3 DEF LinesInit, LinesTypeOK

LEMMA JoinAssociative ==
    ASSUME NEW s \in Numbers, NEW t \in Numbers, NEW u \in Numbers
    PROVE  (s \o t) \o u = s \o (t \o u)
BY ConcatAssociative DEF Numbers

\* All of a sequence, and nothing of it.
LEMMA WholeAndNothing ==
    ASSUME NEW s \in Numbers
    PROVE  From(s, 1) = s /\ From(s, Len(s) + 1) = <<>> /\ s \o <<>> = s
<1>1. Len(s) \in Nat
  BY LenProperties DEF Numbers
<1>2. s = SubSeq(s, 1, Len(s))
  <2>1. PICK n \in Nat : n = Len(s)
    BY <1>1
  <2>2. \A i \in 1 .. n : s[i] = s[1 + i - 1]
    OBVIOUS
  <2>3. Len(SubSeq(s, 1, n)) = n /\ SubSeq(s, 1, n) \in Numbers
    BY <2>1, PieceIs
  <2>4. \A i \in 1 .. n : SubSeq(s, 1, n)[i] = s[1 + i - 1]
    BY <2>1, PieceIs
  <2>5. \A i \in 1 .. n : SubSeq(s, 1, n)[i] = s[i]
    BY <2>4
  <2>6. SubSeq(s, 1, n) = s
    BY <2>1, <2>3, <2>5, SeqEqual DEF Numbers
  <2> QED BY <2>1, <2>6
<1>3. <<>> \in Numbers /\ Len(<<>>) = 0
  BY EmptySeq DEF Numbers
<1>4. <<>> = SubSeq(s, Len(s) + 1, Len(s))
  BY <1>1, <1>3, PieceFound
<1> QED BY <1>2, <1>4, ConcatEmptySeq DEF From, Numbers

LEMMA FlushedOnceIs ==
    FlushedOnce <=> (forgotten > 0 \/ sent \o Unwritten = [i \in 1 .. appended |-> i])
BY DEF FlushedOnce, Unwritten

LEMMA FlushedStep ==
    ASSUME LinesTypeOK, FlushedOnce, [LinesNext]_linesVars
    PROVE  FlushedOnce'
<1> USE DEF writer, reader
<1>0. forgotten \in Nat /\ forgotten' \in Nat
  BY TypesKept, ForgottenAssumption DEF LinesTypeOK
<1>a. ASSUME forgotten' = forgotten, sent' \o Unwritten' = sent \o Unwritten, appended' = appended
      PROVE  FlushedOnce'
  BY <1>a DEF FlushedOnce, Unwritten
<1>b. ASSUME forgotten' > 0 PROVE FlushedOnce'
  BY <1>b DEF FlushedOnce
<1>1. ASSUME NEW k \in 1 .. Chunk, AppendBytes(k) PROVE FlushedOnce'
  <2> DEFINE new == [i \in 1 .. k |-> appended + i]
  <2>1. k \in Nat /\ appended + k <= Bytes
    BY <1>1, SizesAssumption DEF AppendBytes
  <2>2. /\ new \in Numbers
        /\ [i \in 1 .. appended |-> i] \o new = [i \in 1 .. appended + k |-> i]
    BY <2>1, Typed, NewBytes
  <2>3. /\ fbuf' = fbuf \o new /\ appended' = appended + k /\ sent' = sent
        /\ forgotten' = forgotten /\ written = -1 /\ written' \in {0, -1}
    BY <1>1 DEF AppendBytes
  <2> HIDE DEF new
  <2>4. fbuf' \in Numbers
    BY <2>2, <2>3, Typed, ConcatProperties DEF Numbers
  <2>5. Unwritten = fbuf
    BY <2>3, Typed, WholeAndNothing DEF Unwritten
  <2>6. Unwritten' = fbuf'
    <3>1. Unwritten' = From(fbuf', 1)
      BY <2>3 DEF Unwritten
    <3> QED BY <3>1, <2>4, WholeAndNothing
  <2>7. sent \o (fbuf \o new) = (sent \o fbuf) \o new
    BY <2>2, Typed, JoinAssociative
  <2>8. forgotten > 0 \/ sent \o fbuf = [i \in 1 .. appended |-> i]
    BY <2>5, FlushedOnceIs
  <2>9. forgotten > 0 \/ sent' \o Unwritten' = [i \in 1 .. appended' |-> i]
    BY <2>2, <2>3, <2>6, <2>7, <2>8
  <2> QED BY <2>3, <2>9 DEF FlushedOnce, Unwritten
<1>2. CASE Flush \/ Destroy
  BY <1>a, <1>2 DEF Flush, Destroy, Unwritten
<1>3. CASE Write
  <2> DEFINE some(k) == SubSeq(fbuf, written + 1, written + k)
  <2>1. PICK k \in 1 .. Len(fbuf) - written :
          /\ sent' = sent \o some(k)
          /\ IF written + k = Len(fbuf)
             THEN written' = -1 /\ fbuf' = <<>>
             ELSE written' = written + k /\ UNCHANGED fbuf
    BY <1>3 DEF Write
  <2>2. /\ k \in Int /\ 1 <= k /\ written + k <= Len(fbuf) /\ 0 <= written
        /\ written \in Int /\ Len(fbuf) \in Nat
    <3>1. 0 <= written /\ written \in Int /\ Len(fbuf) \in Nat
      BY <1>3, Typed DEF Write
    <3> QED BY <2>1, <3>1
  <2>3. Unwritten = From(fbuf, written + 1)
    BY <2>2 DEF Unwritten
  <2>4. Unwritten' = From(fbuf, written + k + 1)
    <3>1. CASE written + k = Len(fbuf)
      <4>1. written' = -1 /\ fbuf' = <<>>
        BY <2>1, <3>1
      <4>2. <<>> \in Numbers
        BY EmptySeq DEF Numbers
      <4>3. Unwritten' = <<>>
        BY <4>1, <4>2, WholeAndNothing DEF Unwritten
      <4> QED BY <3>1, <4>3, Typed, WholeAndNothing
    <3>2. CASE written + k # Len(fbuf)
      <4>1. written' = written + k /\ fbuf' = fbuf /\ written' >= 0
        BY <2>1, <2>2, <3>2
      <4> QED BY <4>1 DEF Unwritten
    <3> QED BY <3>1, <3>2
  <2>5. some(k) \o From(fbuf, written + k + 1) = From(fbuf, written + 1)
    <3> DEFINE m == written + k
    <3>1. m \in Int /\ 1 <= written + 1 /\ written + 1 <= m + 1 /\ m <= Len(fbuf)
      BY <2>2
    <3> QED BY <2>2, <3>1, Typed, PiecesJoin DEF From
  <2>6. some(k) \in Numbers /\ From(fbuf, written + k + 1) \in Numbers
    <3>1. /\ written + k \in Int /\ written + 1 \in Int /\ written + k + 1 \in Int
          /\ 1 <= written + 1 /\ 1 <= written + k + 1
          /\ written + k <= Len(fbuf) /\ Len(fbuf) <= Len(fbuf)
      BY <2>2
    <3> QED BY <2>2, <3>1, Typed, PieceIs DEF From
  <2>7. forgotten' = forgotten /\ appended' = appended /\ sent' = sent \o some(k)
    BY <1>3, <2>1 DEF Write
  <2> DEFINE x == some(k)
             y == From(fbuf, written + k + 1)
             z == From(fbuf, written + 1)
  <2>8. /\ x \in Numbers /\ y \in Numbers /\ x \o y = z /\ sent' = sent \o x
        /\ Unwritten = z /\ Unwritten' = y
    BY <2>3, <2>4, <2>5, <2>6, <2>7
  <2> HIDE DEF x, y, z
  <2>9. sent' \o Unwritten' = sent \o Unwritten
    <3>1. x \in Numbers /\ y \in Numbers /\ sent \in Numbers
      BY <2>8, Typed
    <3>2. (sent \o x) \o y = sent \o (x \o y)
      BY <3>1, JoinAssociative
    <3> QED BY <2>8, <3>2
  <2> QED BY <1>a, <2>7, <2>9
<1>4. CASE WriteRefused
  <2>1. CASE written > 0
    BY <1>0, <1>4, <1>b, <2>1 DEF WriteRefused
  <2>2. CASE ~(written > 0)
    <3>1. written = 0
      BY <1>4, <2>2, Typed DEF WriteRefused
    <3> QED BY <1>4, <1>a, <3>1 DEF WriteRefused, Unwritten
  <2> QED BY <2>1, <2>2
<1>5. CASE Destroyed
  BY <1>a, <1>5 DEF Destroyed, Unwritten
<1>6. CASE DestroyRefused
  BY <1>0, <1>6, <1>b DEF DestroyRefused
<1>7. CASE ReaderNext \/ UNCHANGED linesVars
  <2>1. UNCHANGED <<sent, forgotten, writer>>
    BY <1>7 DEF ReaderNext, ReadLine, Fill, FillRefused, FillEnd, Scan, linesVars
  <2> QED BY <1>a, <2>1 DEF Unwritten
<1> QED
  BY <1>1, <1>2, <1>3, <1>4, <1>5, <1>6, <1>7 DEF LinesNext, WriterNext

LEMMA FlushedInit == LinesInit => FlushedOnce
<1> SUFFICES ASSUME LinesInit PROVE FlushedOnce
  OBVIOUS
<1>1. <<>> \in Numbers /\ Len(<<>>) = 0
  BY EmptySeq DEF Numbers
<1>2. sent \o Unwritten = <<>>
  <2>1. Unwritten = <<>> /\ sent = <<>>
    BY <1>1, WholeAndNothing DEF LinesInit, Unwritten
  <2> QED BY <1>1, <2>1, WholeAndNothing
<1>3. <<>> = [i \in 1 .. 0 |-> i]
  OBVIOUS
<1> QED BY <1>2, <1>3 DEF LinesInit, FlushedOnce, Unwritten

\* Unless a flush has failed after a write or in the destructor, the bytes that
\* were appended are those that were sent and then those still in the buffer,
\* whatever the sizes of the buffer, the pipe and the writes.
THEOREM BytesFlushed == LinesSpec => []FlushedOnce
<1>1. LinesInit => LinesTypeOK /\ FlushedOnce
  BY InitTyped, FlushedInit
<1>2. LinesTypeOK /\ FlushedOnce /\ [LinesNext]_linesVars => (LinesTypeOK /\ FlushedOnce)'
  BY TypesKept, FlushedStep
<1> QED BY <1>1, <1>2, PTL DEF LinesSpec

-----------------------------------------------------------------------------
(* The LineReader *)

\* How the newlines are counted.
LEMMA NewLinesCounted ==
    ASSUME NEW n \in Nat
    PROVE  /\ IsFiniteSet(NewLinesTo(n)) /\ Cardinality(NewLinesTo(n)) \in Nat
           /\ \A m \in 0 .. n : Cardinality(NewLinesTo(m)) <= Cardinality(NewLinesTo(n))
           /\ \A m \in NewLinesTo(n) : Cardinality(NewLinesTo(m)) >= 1
<1>1. ASSUME NEW m \in Nat
      PROVE  IsFiniteSet(NewLinesTo(m)) /\ Cardinality(NewLinesTo(m)) \in Nat
  <2>1. IsFiniteSet(1 .. m)
    BY FS_Interval
  <2>2. NewLinesTo(m) \subseteq 1 .. m
    BY DEF NewLinesTo
  <2>3. IsFiniteSet(NewLinesTo(m))
    BY <2>1, <2>2, FS_Subset
  <2> QED BY <2>3, FS_CardinalityType
<1>2. ASSUME NEW m \in 0 .. n
      PROVE  Cardinality(NewLinesTo(m)) <= Cardinality(NewLinesTo(n))
  <2>1. NewLinesTo(m) \subseteq NewLinesTo(n)
    BY DEF NewLinesTo
  <2> QED BY <1>1, <2>1, FS_Subset
<1>3. ASSUME NEW m \in NewLinesTo(n)
      PROVE  Cardinality(NewLinesTo(m)) >= 1
  <2>1. m \in Nat /\ m \in NewLinesTo(m)
    BY <1>3 DEF NewLinesTo
  <2>2. Cardinality(NewLinesTo(m)) # 0
    BY <1>1, <2>1, FS_EmptySet
  <2> QED BY <1>1, <2>1, <2>2
<1> QED BY <1>1, <1>2, <1>3

\* Bytes without a newline, and a newline, after the first n.
LEMMA NewLineAfter ==
    ASSUME NEW n \in Nat, NEW k \in Nat,
           \A i \in n + 1 .. n + k - 1 : sent[i] \notin NewLines,
           k > 0
    PROVE  /\ sent[n + k] \notin NewLines => NewLinesTo(n + k) = NewLinesTo(n)
           /\ sent[n + k] \in NewLines =>
                 /\ NewLinesTo(n + k) = NewLinesTo(n) \cup {n + k}
                 /\ Cardinality(NewLinesTo(n + k)) = Cardinality(NewLinesTo(n)) + 1
<1>1. \A m \in 1 .. n + k - 1 : m \in 1 .. n \/ m \in n + 1 .. n + k - 1
  OBVIOUS
<1>2. CASE sent[n + k] \notin NewLines
  <2>1. \A m \in n + 1 .. n + k : sent[m] \notin NewLines
    BY <1>2
  <2> QED BY <1>2, <2>1 DEF NewLinesTo
<1>3. CASE sent[n + k] \in NewLines
  <2>1. NewLinesTo(n + k) = NewLinesTo(n) \cup {n + k}
    BY <1>1, <1>3 DEF NewLinesTo
  <2>2. n + k \notin NewLinesTo(n)
    BY DEF NewLinesTo
  <2> QED BY <1>3, <2>1, <2>2, NewLinesCounted, FS_AddElement
<1> QED BY <1>2, <1>3

\* What InPipe says, piece by piece.
LEMMA InPipeIs ==
    ASSUME LinesTypeOK, InPipe
    PROVE  /\ Taken \in Nat /\ Taken + Len(buf_data) + Len(pipe) = Len(sent)
           /\ buf_data = SubSeq(sent, Taken + 1, Taken + Len(buf_data))
           /\ pipe = From(sent, Taken + Len(buf_data) + 1)
           /\ \A i \in 1 .. Len(buf_data) : sent[Taken + i] = buf_data[i]
<1> DEFINE b == Len(buf_data)
           q == Len(pipe)
<1>0. Len(sent) \in Nat /\ Len(pipe) \in Nat /\ Len(buf_data) \in Nat
  BY Typed
<1>1. PICK t \in Int : t = Taken
  <2>1. Taken \in Int
    BY <1>0 DEF Taken
  <2> QED BY <2>1
<1>2. /\ t \in Nat /\ b \in Nat /\ q \in Nat /\ t + b + q = Len(sent) /\ Len(sent) \in Nat
  BY <1>1, Typed DEF Taken, InPipe
<1>3. buf_data \o pipe = SubSeq(sent, t + 1, Len(sent))
  BY <1>1 DEF InPipe, From
<1>4. \A i \in 1 .. b + q :
        (buf_data \o pipe)[i] = IF i <= b THEN buf_data[i] ELSE pipe[i - b]
  BY <1>2, Typed, ConcatProperties DEF Numbers
<1>5. \A i \in 1 .. b + q : SubSeq(sent, t + 1, Len(sent))[i] = sent[t + i]
  <2>1. /\ 1 <= t + 1 /\ t + 1 \in Int /\ Len(sent) \in Int /\ Len(sent) <= Len(sent)
        /\ Len(sent) - (t + 1) + 1 = b + q
    BY <1>2
  <2>2. \A i \in 1 .. b + q : SubSeq(sent, t + 1, Len(sent))[i] = sent[t + 1 + i - 1]
    BY <2>1, Typed, PieceIs
  <2>3. \A i \in 1 .. b + q : t + 1 + i - 1 = t + i
    BY <1>2
  <2> QED BY <2>2, <2>3
<1>6. \A i \in 1 .. b : sent[t + i] = buf_data[i]
  BY <1>2, <1>3, <1>4, <1>5
<1>7. \A i \in 1 .. q : sent[t + b + i] = pipe[i]
  <2>1. ASSUME NEW i \in 1 .. q PROVE sent[t + b + i] = pipe[i]
    <3>1. /\ b + i \in 1 .. b + q /\ ~(b + i <= b) /\ (b + i) - b = i
          /\ t + (b + i) = t + b + i
      BY <1>2
    <3> QED BY <1>3, <1>4, <1>5, <3>1
  <2> QED BY <2>1
<1>b. b = Len(buf_data) /\ q = Len(pipe) /\ buf_data \in Numbers /\ sent \in Numbers
      /\ pipe \in Numbers
  BY Typed
<1> HIDE DEF b, q
<1>8. buf_data = SubSeq(sent, t + 1, t + b)
  <2>1. /\ t + 1 \in Int /\ t + b \in Int /\ 1 <= t + 1 /\ t + 1 <= t + b + 1
        /\ t + b <= Len(sent) /\ b = t + b - (t + 1) + 1
    BY <1>2
  <2>2. \A i \in 1 .. b : t + 1 + i - 1 = t + i
    BY <1>2
  <2>3. \A i \in 1 .. b : buf_data[i] = sent[t + 1 + i - 1]
    BY <1>6, <2>2
  <2>4. /\ Len(buf_data) = t + b - (t + 1) + 1
        /\ \A i \in 1 .. Len(buf_data) : buf_data[i] = sent[t + 1 + i - 1]
    BY <2>1, <2>3, <1>b
  <2>5. ASSUME NEW m \in Int, NEW n \in Int, m = t + 1, n = t + b
        PROVE  buf_data = SubSeq(sent, m, n)
    <3>1. /\ 1 <= m /\ m <= n + 1 /\ n <= Len(sent) /\ Len(buf_data) = n - m + 1
          /\ \A i \in 1 .. Len(buf_data) : buf_data[i] = sent[m + i - 1]
      BY <2>1, <2>4, <2>5
    <3> QED BY <3>1, <1>b, PieceFound
  <2> QED BY <2>1, <2>5
<1>9. pipe = SubSeq(sent, t + b + 1, Len(sent))
  <2>1. /\ t + b + 1 \in Int /\ Len(sent) \in Int /\ 1 <= t + b + 1
        /\ t + b + 1 <= Len(sent) + 1
        /\ Len(sent) <= Len(sent) /\ q = Len(sent) - (t + b + 1) + 1
    BY <1>2
  <2>2. \A i \in 1 .. q : t + b + 1 + i - 1 = t + b + i
    BY <1>2
  <2>3. \A i \in 1 .. q : pipe[i] = sent[t + b + 1 + i - 1]
    BY <1>7, <2>2
  <2>4. /\ Len(pipe) = Len(sent) - (t + b + 1) + 1
        /\ \A i \in 1 .. Len(pipe) : pipe[i] = sent[t + b + 1 + i - 1]
    BY <2>1, <2>3, <1>b
  <2> QED BY <2>1, <2>4, <1>b, PieceFound
<1> QED BY <1>1, <1>2, <1>6, <1>8, <1>9 DEF b, q, From

\* The lines that ended, and the one that has begun.
Ended ==
    /\ Len(lines) = Cardinality(NewLinesTo(Taken)) + (IF hit_eof THEN 1 ELSE 0)
    /\ \A p \in NewLinesTo(Taken) : \A b \in 1 .. p :
          LineFrom(b, p) => lines[Cardinality(NewLinesTo(p))] = SubSeq(sent, b, p - 1)

Begun ==
    \A b \in 1 .. Taken + 1 :
        LineFrom(b, Taken + 1) =>
            SubSeq(sent, b, Taken) = IF hit_eof THEN Last(lines) ELSE Pending

LEMMA BytesKeptIs == BytesKept <=> LinesTypeOK /\ InPipe /\ Ended /\ Begun
BY DEF BytesKept, Ended, Begun

\* Nothing changes in the first n bytes when more are sent.
LEMMA PieceKept ==
    ASSUME NEW s \in Numbers, NEW t \in Numbers, NEW m \in Int, NEW n \in Int,
           1 <= m, n <= Len(s), n <= Len(t), \A i \in 1 .. n : s[i] = t[i]
    PROVE  SubSeq(s, m, n) = SubSeq(t, m, n)
<1> DEFINE a == SubSeq(s, m, n)
           b == SubSeq(t, m, n)
           k == IF m <= n THEN n - m + 1 ELSE 0
<1>1. /\ a \in Numbers /\ b \in Numbers /\ Len(a) = k /\ Len(b) = k
      /\ \A i \in 1 .. n - m + 1 : a[i] = s[m + i - 1] /\ b[i] = t[m + i - 1]
  BY PieceIs
<1>2. ASSUME NEW i \in 1 .. k PROVE a[i] = b[i]
  <2>1. i \in 1 .. n - m + 1 /\ m + i - 1 \in 1 .. n
    OBVIOUS
  <2> QED BY <1>1, <2>1
<1> HIDE DEF a, b, k
<1>3. a = b
  BY <1>1, <1>2, SeqEqual DEF Numbers
<1> QED BY <1>3 DEF a, b

LEMMA StillKept ==
    ASSUME LinesTypeOK, LinesTypeOK', InPipe, Ended, Begun,
           Len(sent) <= Len(sent'), \A i \in 1 .. Len(sent) : sent'[i] = sent[i],
           Taken' = Taken, lines' = lines, hit_eof' = hit_eof, Pending' = Pending
    PROVE  Ended' /\ Begun'
<1>0. sent \in Numbers /\ sent' \in Numbers /\ Len(sent) \in Nat /\ Len(sent') \in Nat
  BY Typed, LenProperties DEF LinesTypeOK, Numbers
<1>1. PICK t \in Nat : t = Taken /\ t <= Len(sent)
  <2>1. Taken \in Nat /\ Taken <= Len(sent)
    BY InPipeIs, Typed
  <2> QED BY <2>1
<1>2. ASSUME NEW n \in 0 .. t PROVE NewLinesTo(n)' = NewLinesTo(n)
  <2>1. \A q \in 1 .. n : sent'[q] = sent[q]
    BY <1>0, <1>1
  <2> QED BY <2>1 DEF NewLinesTo
<1>3. ASSUME NEW q \in 1 .. t + 1, NEW b \in 1 .. q
      PROVE  LineFrom(b, q)' <=> LineFrom(b, q)
  <2>1. /\ b # 1 => sent'[b - 1] = sent[b - 1]
        /\ \A r \in b .. q - 1 : sent'[r] = sent[r]
    BY <1>0, <1>1
  <2> QED BY <2>1 DEF LineFrom
<1>4. ASSUME NEW b \in 1 .. t + 1, NEW n \in 0 .. t
      PROVE  SubSeq(sent', b, n) = SubSeq(sent, b, n)
  <2>1. /\ b \in Int /\ n \in Int /\ 1 <= b /\ n <= Len(sent) /\ n <= Len(sent')
        /\ \A i \in 1 .. n : sent'[i] = sent[i]
    BY <1>0, <1>1
  <2> QED BY <1>0, <2>1, PieceKept
<1>5. Len(lines') = Cardinality(NewLinesTo(t)') + (IF hit_eof' THEN 1 ELSE 0)
  BY <1>1, <1>2 DEF Ended
<1>6. ASSUME NEW q \in NewLinesTo(t)', NEW b \in 1 .. q, LineFrom(b, q)'
      PROVE  lines'[Cardinality(NewLinesTo(q)')] = SubSeq(sent', b, q - 1)
  <2>1. q \in NewLinesTo(t) /\ q \in 1 .. t
    BY <1>2, <1>6 DEF NewLinesTo
  <2>2. q \in 1 .. t + 1 /\ q \in 0 .. t /\ q - 1 \in 0 .. t /\ b \in 1 .. t + 1
    BY <2>1
  <2>3. LineFrom(b, q)
    BY <1>3, <1>6, <2>2
  <2>4. lines[Cardinality(NewLinesTo(q))] = SubSeq(sent, b, q - 1)
    BY <1>1, <2>1, <2>3 DEF Ended
  <2>5. NewLinesTo(q)' = NewLinesTo(q) /\ SubSeq(sent', b, q - 1) = SubSeq(sent, b, q - 1)
    BY <1>2, <1>4, <2>2
  <2> QED BY <2>4, <2>5
<1>7. ASSUME NEW b \in 1 .. t + 1, LineFrom(b, t + 1)'
      PROVE  SubSeq(sent', b, t) = IF hit_eof' THEN Last(lines') ELSE Pending'
  <2>1. t + 1 \in 1 .. t + 1 /\ t \in 0 .. t
    OBVIOUS
  <2>2. LineFrom(b, t + 1) /\ SubSeq(sent', b, t) = SubSeq(sent, b, t)
    BY <1>3, <1>4, <1>7, <2>1
  <2>3. SubSeq(sent, b, t) = IF hit_eof THEN Last(lines) ELSE Pending
    BY <1>1, <2>2 DEF Begun
  <2> QED BY <2>2, <2>3 DEF Last
<1>8. Taken' = t
  BY <1>1
<1>9. Ended'
  BY <1>5, <1>6, <1>8 DEF Ended
<1>10. Begun'
  BY <1>7, <1>8 DEF Begun
<1> QED BY <1>9, <1>10

\* The bytes that go into the pipe.
LEMMA WriteKept ==
    ASSUME LinesTypeOK, InPipe, Ended, Begun, Write
    PROVE  InPipe' /\ Ended' /\ Begun'
<1> DEFINE x(k) == SubSeq(fbuf, written + 1, written + k)
<1>1. PICK k \in 1 .. Len(fbuf) - written : pipe' = pipe \o x(k) /\ sent' = sent \o x(k)
  BY DEF Write
<1>2. LinesTypeOK'
  BY TypesKept DEF LinesNext, WriterNext
<1>3. x(k) \in Numbers
  <2>1. 0 <= written /\ written \in Int /\ Len(fbuf) \in Nat
    BY Typed DEF Write
  <2>2. /\ written + 1 \in Int /\ written + k \in Int /\ 1 <= written + 1
        /\ written + k <= Len(fbuf)
    BY <1>1, <2>1
  <2> QED BY <2>2, Typed, PieceIs
<1> HIDE DEF x
<1>4. PICK y \in Numbers : pipe' = pipe \o y /\ sent' = sent \o y
  BY <1>1, <1>3
<1>5. /\ Len(y) \in Nat /\ sent' \in Numbers /\ pipe' \in Numbers
      /\ Len(sent') = Len(sent) + Len(y) /\ Len(pipe') = Len(pipe) + Len(y)
      /\ \A i \in 1 .. Len(sent) : sent'[i] = sent[i]
      /\ \A i \in 1 .. Len(y) : sent'[Len(sent) + i] = y[i]
  <2>1. /\ Len(y) \in Nat /\ sent' \in Numbers /\ pipe' \in Numbers
        /\ Len(sent') = Len(sent) + Len(y) /\ Len(pipe') = Len(pipe) + Len(y)
    BY <1>4, Typed, ConcatProperties, LenProperties DEF Numbers
  <2>2. \A i \in 1 .. Len(sent) + Len(y) :
            sent'[i] = IF i <= Len(sent) THEN sent[i] ELSE y[i - Len(sent)]
    BY <1>4, Typed, ConcatProperties DEF Numbers
  <2>3. PICK n \in Nat : n = Len(sent)
    BY Typed
  <2>4. PICK m \in Nat : m = Len(y)
    BY <2>1
  <2>5. /\ \A i \in 1 .. n : sent'[i] = sent[i]
        /\ \A i \in 1 .. m : sent'[n + i] = y[i]
    <3>1. \A i \in 1 .. n + m : sent'[i] = IF i <= n THEN sent[i] ELSE y[i - n]
      BY <2>2, <2>3, <2>4
    <3>2. \A i \in 1 .. m : n + i \in 1 .. n + m /\ ~(n + i <= n) /\ n + i - n = i
      OBVIOUS
    <3> QED BY <3>1, <3>2
  <2> QED BY <2>1, <2>3, <2>4, <2>5
<1>6. /\ UNCHANGED <<buf_data, line, line_complete, hit_eof, reading, lines, phase>>
      /\ phase # "gone" /\ ~hit_eof
  BY DEF Write, reader, InPipe
<1>7. Taken' = Taken
  BY <1>5, <1>6, Typed DEF Taken
<1>8. Pending' = Pending
  BY <1>6 DEF Pending
<1>9. Ended' /\ Begun'
  BY <1>2, <1>5, <1>6, <1>7, <1>8, Typed, StillKept
<1>10. buf_data \o pipe' = From(sent', Taken + 1)
  <2>1. PICK t \in Nat : t = Taken /\ t <= Len(sent)
    <3>1. Taken \in Nat /\ Taken <= Len(sent)
      BY InPipeIs, Typed
    <3> QED BY <3>1
  <2>2. PICK n \in Nat : n = Len(sent)
    BY Typed
  <2>3. PICK m \in Nat : m = Len(y)
    BY <1>5
  <2>4. SubSeq(sent', t + 1, n) = SubSeq(sent, t + 1, n)
    BY <1>5, <2>1, <2>2, <2>3, Typed, PieceKept
  <2>5. y = SubSeq(sent', n + 1, n + m)
    <3>1. /\ n + m <= Len(sent') /\ Len(y) = n + m - (n + 1) + 1
          /\ n + 1 <= n + m + 1 /\ 1 <= n + 1 /\ n + 1 \in Int /\ n + m \in Int
      BY <1>5, <2>2, <2>3
    <3>2. \A i \in 1 .. Len(y) : n + 1 + i - 1 = n + i
      BY <2>3
    <3>3. \A i \in 1 .. Len(y) : y[i] = sent'[n + 1 + i - 1]
      BY <1>5, <2>2, <3>2
    <3>4. ASSUME NEW a \in Int, NEW b \in Int, a = n + 1, b = n + m
          PROVE  y = SubSeq(sent', a, b)
      <4>1. /\ 1 <= a /\ a <= b + 1 /\ b <= Len(sent') /\ Len(y) = b - a + 1
            /\ \A i \in 1 .. Len(y) : y[i] = sent'[a + i - 1]
        BY <3>1, <3>3, <3>4
      <4> QED BY <1>5, <4>1, PieceFound
    <3> QED BY <3>1, <3>4
  <2>6. SubSeq(sent', t + 1, n) \o SubSeq(sent', n + 1, n + m) = SubSeq(sent', t + 1, n + m)
    <3>1. /\ 1 <= t + 1 /\ t + 1 <= n + 1 /\ n <= n + m /\ n + m <= Len(sent')
          /\ t + 1 \in Int /\ n + m \in Int
      BY <1>5, <2>1, <2>2, <2>3
    <3> QED BY <1>5, <3>1, PiecesJoin
  <2>7. (buf_data \o pipe) \o y = SubSeq(sent', t + 1, Len(sent'))
    BY <1>5, <2>1, <2>2, <2>3, <2>4, <2>5, <2>6 DEF InPipe, From
  <2> QED BY <1>4, <2>1, <2>7, Typed, JoinAssociative DEF From
<1>11. InPipe'
  <2>1. (buf_data \o pipe)' = From(sent, Taken + 1)'
    BY <1>6, <1>7, <1>10 DEF From
  <2> QED BY <1>6, <1>7, <2>1 DEF InPipe
<1> QED BY <1>9, <1>11

\* A step that moves nothing.
LEMMA NothingMoves ==
    ASSUME LinesTypeOK, InPipe, Ended, Begun, LinesTypeOK',
           UNCHANGED <<sent, pipe, buf_data, lines, hit_eof>>, Pending' = Pending
    PROVE  Taken' = Taken /\ Ended' /\ Begun' /\ (buf_data \o pipe = From(sent, Taken + 1))'
<1>1. Taken' = Taken
  BY DEF Taken
<1>2. Len(sent) <= Len(sent')
  BY Typed
<1> QED BY <1>1, <1>2, StillKept DEF InPipe, From

LEMMA FillKept ==
    ASSUME LinesTypeOK, InPipe, Ended, Begun, Fill
    PROVE  InPipe' /\ Ended' /\ Begun'
<1>1. PICK k \in 1 .. Len(pipe) : buf_data' = Upto(pipe, k) /\ pipe' = From(pipe, k + 1)
  BY DEF Fill
<1>2. /\ UNCHANGED <<line, line_complete, hit_eof, reading, lines, sent, phase, written>>
      /\ buf_data = <<>>
  BY DEF Fill, writer
<1>3. PICK n \in Nat : n = Len(pipe)
  BY Typed
<1>4. /\ Upto(pipe, k) \o From(pipe, k + 1) = pipe
      /\ Len(Upto(pipe, k)) = k /\ Len(From(pipe, k + 1)) = n - k
  <2>1. k \in 1 .. n
    BY <1>3
  <2>2. /\ 1 <= k + 1 /\ k <= n /\ n <= Len(pipe) /\ k \in Int /\ n \in Int /\ 1 <= k
        /\ 1 <= 1 /\ k <= Len(pipe) /\ k + 1 \in Int
    BY <1>3, <2>1
  <2>3. SubSeq(pipe, 1, k) \o SubSeq(pipe, k + 1, n) = SubSeq(pipe, 1, n)
    BY <2>2, Typed, PiecesJoin
  <2>4. SubSeq(pipe, 1, n) = pipe
    BY <1>3, Typed, WholeAndNothing DEF From
  <2>5. Len(SubSeq(pipe, 1, k)) = IF 1 <= k THEN k - 1 + 1 ELSE 0
    BY <2>2, Typed, PieceIs
  <2>6. Len(SubSeq(pipe, k + 1, n)) = IF k + 1 <= n THEN n - (k + 1) + 1 ELSE 0
    BY <2>2, Typed, PieceIs
  <2> QED BY <1>3, <2>1, <2>3, <2>4, <2>5, <2>6 DEF Upto, From
<1>5. Len(buf_data') + Len(pipe') = Len(buf_data) + Len(pipe)
  BY <1>1, <1>2, <1>3, <1>4
<1>6. LinesTypeOK'
  BY TypesKept DEF LinesNext, ReaderNext
<1>7. Taken' = Taken
  <2>1. Len(buf_data') \in Nat /\ Len(pipe') \in Nat
    BY <1>6, LenProperties DEF LinesTypeOK, Numbers
  <2> QED BY <1>2, <1>5, <2>1, Typed DEF Taken
<1>8. Ended' /\ Begun'
  <2>1. Pending' = Pending
    BY <1>2 DEF Pending
  <2>2. Len(sent) <= Len(sent')
    BY <1>2, Typed
  <2> QED BY <1>2, <1>6, <1>7, <2>1, <2>2, StillKept
<1>9. buf_data' \o pipe' = buf_data \o pipe
  <2>1. <<>> \o pipe = pipe
    BY Typed, ConcatEmptySeq DEF Numbers
  <2> QED BY <1>1, <1>2, <1>4, <2>1
<1>10. InPipe'
  <2>1. (buf_data \o pipe)' = From(sent, Taken + 1)'
    BY <1>2, <1>7, <1>9 DEF InPipe, From
  <2> QED BY <1>2, <1>7, <2>1 DEF InPipe
<1> QED BY <1>8, <1>10

\* At the end of the stream what there is of a line is returned.
LEMMA FillEndKept ==
    ASSUME LinesTypeOK, InPipe, Ended, Begun, FillEnd
    PROVE  InPipe' /\ Ended' /\ Begun'
<1>1. /\ UNCHANGED <<sent, pipe, buf_data, line, line_complete, phase, written>>
      /\ buf_data = <<>> /\ pipe = <<>> /\ phase = "gone" /\ hit_eof' = TRUE
      /\ reading' = FALSE /\ ~hit_eof /\ lines' = Append(lines, line) /\ Pending = line
  BY DEF FillEnd, writer, InPipe, Pending
<1>2. Taken' = Taken /\ Taken = Len(sent) /\ Taken \in Nat
  <2>1. Len(<<>>) = 0
    BY EmptySeq
  <2>2. Taken = Len(sent)
    BY <1>1, <2>1, Typed DEF Taken
  <2> QED BY <1>1, <2>2, InPipeIs DEF Taken
<1>t. PICK t \in Nat : t = Taken /\ t = Taken'
  BY <1>2
<1>3. InPipe'
  <2>1. (buf_data \o pipe)' = From(sent, Taken + 1)'
    BY <1>1, <1>2 DEF InPipe, From
  <2> QED BY <1>1, <1>2, <2>1 DEF InPipe
<1>4. PICK n \in Nat : n = Len(lines)
  BY Typed, LenProperties
<1>5. /\ Len(lines') = n + 1 /\ lines'[n + 1] = line
      /\ \A i \in 1 .. n : lines'[i] = lines[i]
  BY <1>1, <1>4, Typed, AppendProperties
<1>6. \A m : NewLinesTo(m)' = NewLinesTo(m)
  BY <1>1 DEF NewLinesTo
<1>7. n = Cardinality(NewLinesTo(t))
  <2>1. Len(lines) = Cardinality(NewLinesTo(t)) + 0
    BY <1>1, <1>t DEF Ended
  <2>2. Cardinality(NewLinesTo(t)) \in Nat
    BY NewLinesCounted
  <2> QED BY <1>4, <2>1, <2>2
<1>8. Ended'
  <2>1. Len(lines') = Cardinality(NewLinesTo(t)') + 1
    BY <1>5, <1>6, <1>7
  <2>2. ASSUME NEW q \in NewLinesTo(t), NEW b \in 1 .. q, LineFrom(b, q)'
        PROVE  lines'[Cardinality(NewLinesTo(q)')] = SubSeq(sent', b, q - 1)
    <3>1. LineFrom(b, q)
      BY <1>1, <2>2 DEF LineFrom
    <3>2. lines[Cardinality(NewLinesTo(q))] = SubSeq(sent, b, q - 1)
      BY <1>t, <2>2, <3>1 DEF Ended
    <3>3. Cardinality(NewLinesTo(q)) \in 1 .. n
      <4>1. q \in 0 .. t /\ q \in Nat
        BY DEF NewLinesTo
      <4>2. /\ Cardinality(NewLinesTo(q)) <= n /\ Cardinality(NewLinesTo(q)) >= 1
            /\ Cardinality(NewLinesTo(q)) \in Nat
        BY <1>7, <4>1, NewLinesCounted
      <4> QED BY <4>2
    <3> QED BY <1>1, <1>5, <1>6, <3>2, <3>3
  <2> QED BY <1>1, <1>t, <1>6, <2>1, <2>2 DEF Ended
<1>9. Begun'
  <2>1. ASSUME NEW b \in 1 .. t + 1, LineFrom(b, t + 1)'
        PROVE  SubSeq(sent', b, t) = Last(lines')
    <3>1. LineFrom(b, t + 1)
      BY <1>1, <2>1 DEF LineFrom
    <3>2. SubSeq(sent, b, t) = line
      BY <1>1, <1>t, <2>1, <3>1 DEF Begun
    <3> QED BY <1>1, <1>4, <1>5, <3>2 DEF Last
  <2> QED BY <1>1, <1>t, <2>1 DEF Begun
<1> QED BY <1>3, <1>8, <1>9

\* What readLine finds at the head of its buffer: k bytes that are not newlines.
LEMMA Scanned ==
    ASSUME LinesTypeOK, InPipe, Begun, reading, NEW k \in 0 .. Len(buf_data),
           \A i \in 1 .. k : buf_data[i] \notin NewLines,
           NEW b \in 1 .. Taken + k + 1, LineFrom(b, Taken + k + 1)
    PROVE  SubSeq(sent, b, Taken + k) = line \o Upto(buf_data, k)
<1>1. PICK t \in Nat : t = Taken
  BY InPipeIs
<1>2. PICK n \in Nat : n = Len(sent)
  BY Typed
<1>3. /\ t + Len(buf_data) <= n /\ Len(buf_data) \in Nat /\ k \in Nat /\ t + k <= n
      /\ b \in 1 .. t + k + 1
      /\ buf_data = SubSeq(sent, t + 1, t + Len(buf_data))
      /\ \A i \in 1 .. Len(buf_data) : sent[t + i] = buf_data[i]
  <2>1. Len(buf_data) \in Nat /\ Len(pipe) \in Nat
    BY Typed
  <2>2. t + Len(buf_data) + Len(pipe) = n
    BY <1>1, <1>2, InPipeIs
  <2>3. /\ t + Len(buf_data) <= n /\ k \in Nat /\ t + k <= n
    BY <2>1, <2>2
  <2> QED BY <1>1, <2>1, <2>3, InPipeIs
<1>4. \A q \in t + 1 .. t + k : sent[q] \notin NewLines
  <2>1. ASSUME NEW q \in t + 1 .. t + k PROVE sent[q] \notin NewLines
    <3>1. q - t \in 1 .. k /\ q - t \in 1 .. Len(buf_data) /\ t + (q - t) = q
      BY <1>3
    <3>2. sent[q] = buf_data[q - t]
      BY <1>3, <3>1
    <3> QED BY <3>1, <3>2
  <2> QED BY <2>1
<1>5. b \in 1 .. t + 1 /\ LineFrom(b, t + 1)
  <2>1. /\ b = 1 \/ sent[b - 1] \in NewLines
        /\ \A q \in b .. t + k : sent[q] \notin NewLines
    <3>1. t + k + 1 - 1 = t + k
      BY <1>3
    <3> QED BY <1>1, <3>1 DEF LineFrom
  <2>2. b <= t + 1
    <3>1. CASE b > t + 1
      <4>1. b # 1 /\ b - 1 \in t + 1 .. t + k
        BY <1>3, <3>1
      <4> QED BY <1>4, <2>1, <4>1
    <3> QED BY <1>3, <3>1
  <2>3. \A q \in b .. t + 1 - 1 : q \in b .. t + k
    BY <1>3
  <2> QED BY <1>3, <2>1, <2>2, <2>3 DEF LineFrom
<1>6. SubSeq(sent, b, t) = line
  <2>1. SubSeq(sent, b, t) = Pending
    BY <1>1, <1>5 DEF Begun, InPipe
  <2> QED BY <2>1 DEF Pending, InPipe
<1>7. SubSeq(sent, t + 1, t + k) = Upto(buf_data, k)
  <2>1. /\ t + 1 \in Int /\ t + k \in Int /\ 1 <= t + 1 /\ t + 1 <= t + k + 1
        /\ t + k <= Len(sent) /\ 1 <= 1 /\ k <= Len(buf_data) /\ k \in Int
    BY <1>2, <1>3
  <2>2. /\ Upto(buf_data, k) \in Numbers
        /\ Len(Upto(buf_data, k)) = k
        /\ \A i \in 1 .. k : Upto(buf_data, k)[i] = buf_data[i]
    <3>1. /\ Upto(buf_data, k) \in Numbers
          /\ Len(Upto(buf_data, k)) = (IF 1 <= k THEN k - 1 + 1 ELSE 0)
          /\ \A i \in 1 .. k - 1 + 1 : Upto(buf_data, k)[i] = buf_data[1 + i - 1]
      BY <2>1, Typed, PieceIs DEF Upto
    <3>2. (IF 1 <= k THEN k - 1 + 1 ELSE 0) = k /\ k - 1 + 1 = k
      BY <1>3
    <3>3. \A i \in 1 .. k : 1 + i - 1 = i
      BY <1>3
    <3> QED BY <3>1, <3>2, <3>3
  <2>3. ASSUME NEW m \in Int, NEW q \in Int, m = t + 1, q = t + k
        PROVE  Upto(buf_data, k) = SubSeq(sent, m, q)
    <3>1. 1 <= m /\ m <= q + 1 /\ q <= Len(sent) /\ Len(Upto(buf_data, k)) = q - m + 1
      <4>1. k = q - m + 1 /\ 1 <= m /\ m <= q + 1 /\ q <= Len(sent)
        BY <2>1, <2>3
      <4> QED BY <2>2, <4>1
    <3>2. \A i \in 1 .. k : Upto(buf_data, k)[i] = sent[m + i - 1]
      <4>1. ASSUME NEW i \in 1 .. k PROVE Upto(buf_data, k)[i] = sent[m + i - 1]
        <5>1. /\ m + i - 1 = t + i
              /\ i \in 1 .. Len(buf_data)
          BY <2>1, <2>3
        <5> QED BY <1>3, <2>2, <5>1
      <4> QED BY <4>1
    <3>3. Len(Upto(buf_data, k)) = k
      BY <2>2
    <3> QED BY <2>2, <3>1, <3>2, <3>3, Typed, PieceFound
  <2> QED BY <2>1, <2>3
<1>8. SubSeq(sent, b, t) \o SubSeq(sent, t + 1, t + k) = SubSeq(sent, b, t + k)
  <2>1. /\ b \in Int /\ 1 <= b /\ b <= t + 1 /\ t <= t + k /\ t + k <= Len(sent)
        /\ t + k \in Int
    BY <1>2, <1>3, <1>5
  <2> QED BY <2>1, Typed, PiecesJoin
<1> QED BY <1>1, <1>6, <1>7, <1>8

\* What is left when k bytes have been looked at.
LEMMA Left ==
    ASSUME LinesTypeOK, InPipe, NEW k \in 0 .. Len(buf_data)
    PROVE  /\ From(buf_data, k + 1) \o pipe = From(sent, Taken + k + 1)
           /\ Len(From(buf_data, k + 1)) = Len(buf_data) - k
<1>1. PICK t \in Nat : t = Taken
  BY InPipeIs
<1>2. PICK n \in Nat : n = Len(sent)
  BY Typed
<1>3. PICK m \in Nat : m = Len(buf_data)
  BY Typed
<1>4. /\ t + m <= n /\ k \in Nat /\ k <= m
      /\ pipe = SubSeq(sent, t + m + 1, n)
      /\ \A i \in 1 .. m : sent[t + i] = buf_data[i]
  <2>1. Len(pipe) \in Nat
    BY Typed
  <2>2. t + m + Len(pipe) = n
    BY <1>1, <1>2, <1>3, InPipeIs
  <2>3. t + m <= n /\ k \in Nat /\ k <= m
    BY <1>3, <2>1, <2>2
  <2> QED BY <1>1, <1>2, <1>3, <2>3, InPipeIs DEF From
<1> DEFINE r == SubSeq(buf_data, k + 1, m)
<1>5. /\ r \in Numbers /\ Len(r) = m - k /\ \A i \in 1 .. m - k : r[i] = buf_data[k + i]
  <2>1. k + 1 \in Int /\ m \in Int /\ 1 <= k + 1 /\ m <= Len(buf_data)
    BY <1>3, <1>4
  <2>2. /\ r \in Numbers /\ Len(r) = (IF k + 1 <= m THEN m - (k + 1) + 1 ELSE 0)
        /\ \A i \in 1 .. m - (k + 1) + 1 : r[i] = buf_data[k + 1 + i - 1]
    BY <2>1, Typed, PieceIs
  <2>3. /\ (IF k + 1 <= m THEN m - (k + 1) + 1 ELSE 0) = m - k
        /\ m - (k + 1) + 1 = m - k
        /\ \A i \in 1 .. m - k : k + 1 + i - 1 = k + i
    BY <1>4
  <2> QED BY <2>2, <2>3
<1> HIDE DEF r
<1>6. ASSUME NEW a \in Int, NEW b \in Int, a = t + k + 1, b = t + m
      PROVE  r = SubSeq(sent, a, b)
  <2>1. 1 <= a /\ a <= b + 1 /\ b <= Len(sent) /\ Len(r) = b - a + 1
    BY <1>2, <1>4, <1>5, <1>6
  <2>2. \A i \in 1 .. m - k : r[i] = sent[a + i - 1]
    <3>1. ASSUME NEW i \in 1 .. m - k PROVE r[i] = sent[a + i - 1]
      <4>1. a + i - 1 = t + (k + i) /\ k + i \in 1 .. m
        BY <1>4, <1>6
      <4> QED BY <1>4, <1>5, <4>1
    <3> QED BY <3>1
  <2>3. \A i \in 1 .. Len(r) : r[i] = sent[a + i - 1]
    BY <1>5, <2>2
  <2>4. r \in Numbers /\ sent \in Numbers
    BY <1>5, Typed
  <2> QED BY <2>1, <2>3, <2>4, PieceFound
<1>7. SubSeq(sent, t + k + 1, t + m) \o SubSeq(sent, t + m + 1, n)
        = SubSeq(sent, t + k + 1, n)
  <2>1. /\ t + k + 1 \in Int /\ t + m \in Int /\ 1 <= t + k + 1
        /\ t + k + 1 <= t + m + 1 /\ t + m <= n /\ n <= Len(sent)
    BY <1>2, <1>4
  <2> QED BY <2>1, Typed, PiecesJoin
<1>8. r = SubSeq(sent, t + k + 1, t + m)
  BY <1>6, <1>4
<1>9. r = From(buf_data, k + 1)
  BY <1>3 DEF r, From
<1> QED BY <1>1, <1>2, <1>3, <1>4, <1>5, <1>7, <1>8, <1>9 DEF From

LEMMA ScanKept ==
    ASSUME LinesTypeOK, InPipe, Ended, Begun, Scan
    PROVE  InPipe' /\ Ended' /\ Begun'
<1> DEFINE f == FirstNewLine
<1>1. /\ UNCHANGED <<appended, fbuf, written, phase, pipe, hit_eof, sent>>
      /\ reading /\ buf_data # <<>> /\ ~hit_eof
      /\ f # 0 => /\ line' = line \o Upto(buf_data, f - 1)
                  /\ buf_data' = From(buf_data, f + 1)
                  /\ line_complete' = TRUE
                  /\ reading' = FALSE /\ lines' = Append(lines, line')
      /\ f = 0 => /\ line' = line \o buf_data /\ buf_data' = <<>>
                  /\ line_complete' = FALSE
                  /\ reading' = reading /\ lines' = lines
  BY DEF Scan, writer, InPipe
<1>2. /\ f \in 0 .. Len(buf_data)
      /\ f = 0 => \A i \in 1 .. Len(buf_data) : buf_data[i] \notin NewLines
      /\ f # 0 => /\ buf_data[f] \in NewLines
                  /\ \A i \in 1 .. f - 1 : buf_data[i] \notin NewLines
  BY Typed, FirstNewLineIs
<1> HIDE DEF f
<1>3. PICK t \in Nat : t = Taken
  BY InPipeIs
<1>4. PICK m \in Nat : m = Len(buf_data)
  BY Typed
<1>5. /\ m > 0 /\ t + m <= Len(sent) /\ \A i \in 1 .. m : sent[t + i] = buf_data[i]
  <2>1. m # 0
    BY <1>1, <1>4, Typed, EmptySeq DEF Numbers
  <2>2. Len(pipe) \in Nat /\ t + m + Len(pipe) = Len(sent)
    BY <1>3, <1>4, Typed, InPipeIs
  <2> QED BY <1>3, <1>4, <2>1, <2>2, InPipeIs
<1>6. \A x : NewLinesTo(x)' = NewLinesTo(x)
  BY <1>1 DEF NewLinesTo
<1>7. \A b, x : LineFrom(b, x)' <=> LineFrom(b, x)
  BY <1>1 DEF LineFrom
<1>8. Len(lines) = Cardinality(NewLinesTo(t)) /\ Len(lines) \in Nat
  <2>1. Len(lines) = Cardinality(NewLinesTo(t)) + 0
    BY <1>1, <1>3 DEF Ended
  <2>2. Cardinality(NewLinesTo(t)) \in Nat
    BY NewLinesCounted
  <2> QED BY <2>1, <2>2
<1>9. \A q \in NewLinesTo(t) : \A b \in 1 .. q :
        LineFrom(b, q) => lines[Cardinality(NewLinesTo(q))] = SubSeq(sent, b, q - 1)
  BY <1>3 DEF Ended
<1>10. ASSUME NEW k \in 0 .. m, k > 0, buf_data' = From(buf_data, k + 1),
              line_complete' => ~reading'
       PROVE  InPipe' /\ Taken' = t + k
  <2>1. /\ From(buf_data, k + 1) \o pipe = From(sent, t + k + 1)
        /\ Len(buf_data') = m - k
    BY <1>3, <1>4, <1>10, Left
  <2>2. Taken' = t + k
    <3>1. Len(sent) - Len(pipe) - m = t
      BY <1>3, <1>4 DEF Taken
    <3>2. Taken' = Len(sent) - Len(pipe) - (m - k)
      BY <1>1, <2>1 DEF Taken
    <3> QED BY <3>1, <3>2, Typed
  <2>3. (buf_data \o pipe)' = From(sent, Taken + 1)'
    BY <1>1, <1>10, <2>1, <2>2 DEF From
  <2> QED BY <1>1, <1>10, <2>2, <2>3 DEF InPipe
<1>11. CASE f = 0
  <2>1. buf_data' = From(buf_data, m + 1) /\ ~line_complete'
    BY <1>1, <1>4, <1>11, Typed, WholeAndNothing
  <2>2. InPipe' /\ Taken' = t + m
    BY <1>5, <1>10, <2>1
  <2>3. NewLinesTo(t + m) = NewLinesTo(t)
    <3>1. \A i \in 1 .. m : sent[t + i] \notin NewLines
      BY <1>2, <1>4, <1>5, <1>11
    <3>2. ASSUME NEW i \in t + 1 .. t + m PROVE sent[i] \notin NewLines
      <4>1. i - t \in 1 .. m /\ t + (i - t) = i
        OBVIOUS
      <4> QED BY <3>1, <4>1
    <3>3. /\ \A i \in t + 1 .. t + m - 1 : sent[i] \notin NewLines
          /\ sent[t + m] \notin NewLines
      BY <1>5, <3>2
    <3> QED BY <1>5, <3>3, NewLineAfter
  <2>4. Ended'
    BY <1>1, <1>6, <1>7, <1>8, <1>9, <1>11, <2>2, <2>3 DEF Ended
  <2>5. ASSUME NEW b \in 1 .. t + m + 1, LineFrom(b, t + m + 1)
        PROVE  SubSeq(sent, b, t + m) = line \o buf_data
    <3>1. SubSeq(sent, b, t + m) = line \o Upto(buf_data, m)
      <4>1. /\ m \in 0 .. Len(buf_data) /\ b \in 1 .. Taken + m + 1
            /\ LineFrom(b, Taken + m + 1) /\ \A i \in 1 .. m : buf_data[i] \notin NewLines
        BY <1>2, <1>3, <1>4, <1>11, <2>5
      <4>2. SubSeq(sent, b, Taken + m) = line \o Upto(buf_data, m)
        BY <1>1, <4>1, Scanned
      <4> QED BY <1>3, <4>2
    <3>2. Upto(buf_data, m) = buf_data
      BY <1>4, Typed, WholeAndNothing DEF Upto, From
    <3> QED BY <3>1, <3>2
  <2>6. Pending' = line \o buf_data /\ ~hit_eof'
    BY <1>1, <1>11 DEF Pending
  <2>7. Begun'
    BY <1>1, <1>7, <2>2, <2>5, <2>6 DEF Begun
  <2> QED BY <2>2, <2>4, <2>7
<1>12. CASE f # 0
  <2>1. PICK k \in Nat : f = k + 1 /\ k + 1 <= m
    <3>1. f - 1 \in Nat /\ f = (f - 1) + 1 /\ f <= m
      BY <1>2, <1>4, <1>12
    <3> QED BY <3>1
  <2>2. f \in 0 .. m /\ f > 0 /\ buf_data' = From(buf_data, f + 1) /\ ~reading'
        /\ line_complete'
    BY <1>1, <1>2, <1>4, <1>12
  <2>3. InPipe' /\ Taken' = t + f
    BY <1>10, <2>2
  <2>4. sent[t + f] \in NewLines
    BY <1>2, <1>5, <1>12, <2>2
  <2>5. /\ NewLinesTo(t + f) = NewLinesTo(t) \cup {t + f}
        /\ Cardinality(NewLinesTo(t + f)) = Len(lines) + 1
    <3>1. ASSUME NEW i \in t + 1 .. t + f - 1 PROVE sent[i] \notin NewLines
      <4>1. i - t \in 1 .. f - 1 /\ t + (i - t) = i /\ i - t \in 1 .. m
        BY <2>1
      <4> QED BY <1>2, <1>5, <1>12, <4>1
    <3>2. f \in Nat /\ f > 0 /\ \A i \in t + 1 .. t + f - 1 : sent[i] \notin NewLines
      BY <2>1, <3>1
    <3>3. /\ NewLinesTo(t + f) = NewLinesTo(t) \cup {t + f}
          /\ Cardinality(NewLinesTo(t + f)) = Cardinality(NewLinesTo(t)) + 1
      BY <2>4, <3>2, NewLineAfter
    <3> QED BY <1>8, <3>3
  <2>6. PICK n \in Nat : n = Len(lines)
    BY <1>8
  <2>7. /\ Len(lines') = n + 1 /\ lines'[n + 1] = line'
        /\ \A i \in 1 .. n : lines'[i] = lines[i]
    <3>1. line' \in Numbers
      <4>1. LinesTypeOK'
        BY TypesKept DEF LinesNext, ReaderNext
      <4> QED BY <4>1 DEF LinesTypeOK
    <3>2. lines' = Append(lines, line') /\ lines \in Seq(Numbers)
      BY <1>1, <1>12, Typed
    <3>3. /\ Len(lines') = Len(lines) + 1 /\ lines'[Len(lines) + 1] = line'
          /\ \A i \in 1 .. Len(lines) : lines'[i] = lines[i]
      BY <3>1, <3>2, AppendProperties
    <3> QED BY <2>6, <3>3
  <2>8. ASSUME NEW q \in NewLinesTo(t + f), NEW b \in 1 .. q, LineFrom(b, q)
        PROVE  lines'[Cardinality(NewLinesTo(q))] = SubSeq(sent, b, q - 1)
    <3>1. CASE q \in NewLinesTo(t)
      <4>1. Cardinality(NewLinesTo(q)) \in 1 .. n
        <5>1. q \in 0 .. t /\ q \in Nat
          BY <3>1 DEF NewLinesTo
        <5>2. /\ Cardinality(NewLinesTo(q)) <= n /\ Cardinality(NewLinesTo(q)) >= 1
              /\ Cardinality(NewLinesTo(q)) \in Nat
          BY <1>8, <2>6, <3>1, <5>1, NewLinesCounted
        <5> QED BY <5>2
      <4> QED BY <1>9, <2>7, <2>8, <3>1, <4>1
    <3>2. CASE q = t + f
      <4>1. b \in 1 .. t + k + 1 /\ t + k + 1 = q /\ q - 1 = t + k /\ k \in 0 .. m
        BY <2>1, <3>2
      <4>2. SubSeq(sent, b, t + k) = line \o Upto(buf_data, k)
        <5>1. \A i \in 1 .. k : buf_data[i] \notin NewLines
          <6>1. f - 1 = k
            BY <2>1
          <6> QED BY <1>2, <1>12, <6>1
        <5>2. LineFrom(b, t + k + 1)
          BY <2>8, <4>1
        <5> QED BY <1>1, <1>3, <1>4, <4>1, <5>1, <5>2, Scanned
      <4>3. line' = line \o Upto(buf_data, k)
        <5>1. f - 1 = k
          BY <2>1
        <5> QED BY <1>1, <1>12, <5>1
      <4> QED BY <2>5, <2>6, <2>7, <3>2, <4>1, <4>2, <4>3
    <3> QED BY <2>5, <2>8, <3>1, <3>2
  <2>9. Ended'
    <3>1. Len(lines') = Cardinality(NewLinesTo(t + f)) + 0
      BY <2>5, <2>6, <2>7
    <3> QED BY <1>1, <1>6, <1>7, <2>3, <2>8, <3>1 DEF Ended
  <2>10. ASSUME NEW b \in 1 .. t + f + 1, LineFrom(b, t + f + 1)
         PROVE  SubSeq(sent, b, t + f) = <<>>
    <3>1. \A q \in b .. t + f : sent[q] \notin NewLines
      <4>1. ASSUME NEW x, x = t + f + 1 PROVE \A q \in b .. x - 1 : sent[q] \notin NewLines
        BY <2>10, <4>1 DEF LineFrom
      <4> QED BY <2>1, <4>1
    <3>2. b = t + f + 1
      <4>1. CASE b <= t + f
        <5>1. t + f \in b .. t + f
          BY <2>1, <4>1
        <5> QED BY <2>4, <3>1, <5>1
      <4> QED BY <2>1, <4>1
    <3>3. /\ b \in Int /\ t + f \in Int /\ 1 <= b /\ t + f <= Len(sent) /\ ~(b <= t + f)
      BY <1>5, <2>1, <3>2, Typed
    <3>4. SubSeq(sent, b, t + f) \in Numbers /\ Len(SubSeq(sent, b, t + f)) = 0
      BY <3>3, Typed, PieceIs
    <3> QED BY <3>4, EmptySeq DEF Numbers
  <2>11. Begun'
    BY <1>1, <1>7, <2>2, <2>3, <2>10 DEF Begun, Pending
  <2> QED BY <2>3, <2>9, <2>11
<1> QED BY <1>11, <1>12

LEMMA BytesStep ==
    ASSUME LinesTypeOK, InPipe, Ended, Begun, [LinesNext]_linesVars
    PROVE  InPipe' /\ Ended' /\ Begun'
<1> USE DEF reader, writer
<1>0. LinesTypeOK'
  BY TypesKept
<1>1. ASSUME UNCHANGED <<sent, pipe, buf_data, lines, hit_eof>>, Pending' = Pending,
             hit_eof' => phase' = "gone" /\ ~reading',
             phase' = "gone" => written' = -1,
             reading' /\ line_complete' => line' = <<>>
      PROVE  InPipe' /\ Ended' /\ Begun'
  <2>1. Taken' = Taken /\ Ended' /\ Begun' /\ (buf_data \o pipe = From(sent, Taken + 1))'
    BY <1>0, <1>1, NothingMoves
  <2>2. Taken >= 0 /\ (hit_eof => Taken = Len(sent))
    BY DEF InPipe
  <2> QED BY <1>1, <2>1, <2>2 DEF InPipe
<1>2. ASSUME UNCHANGED <<sent, pipe, reader>>,
             phase = "gone" => phase' = "gone",
             phase' = "gone" => written' = -1
      PROVE  InPipe' /\ Ended' /\ Begun'
  BY <1>1, <1>2 DEF InPipe, Pending
<1>3. ASSUME NEW k \in 1 .. Chunk, AppendBytes(k) PROVE InPipe' /\ Ended' /\ Begun'
  BY <1>2, <1>3 DEF AppendBytes
<1>4. CASE Flush \/ WriteRefused
  BY <1>2, <1>4 DEF Flush, WriteRefused
<1>5. CASE Destroy \/ Destroyed \/ DestroyRefused
  BY <1>2, <1>5 DEF Destroy, Destroyed, DestroyRefused
<1>6. CASE ReadLine \/ FillRefused
  BY <1>1, <1>6 DEF ReadLine, FillRefused, InPipe, Pending
<1>7. CASE UNCHANGED linesVars
  BY <1>2, <1>7 DEF linesVars, InPipe
<1> QED
  BY <1>3, <1>4, <1>5, <1>6, <1>7, WriteKept, FillKept, FillEndKept, ScanKept
     DEF LinesNext, WriterNext, ReaderNext

LEMMA BytesInit == LinesInit => InPipe /\ Ended /\ Begun
<1> SUFFICES ASSUME LinesInit PROVE InPipe /\ Ended /\ Begun
  OBVIOUS
<1>1. <<>> \in Numbers /\ Len(<<>>) = 0 /\ <<>> \o <<>> = <<>>
  BY EmptySeq, ConcatEmptySeq DEF Numbers
<1>2. Taken = 0 /\ From(sent, 1) = <<>>
  <2>1. sent = <<>> /\ pipe = <<>> /\ buf_data = <<>>
    BY DEF LinesInit
  <2>2. Taken = 0
    <3>1. Len(sent) = 0 /\ Len(pipe) = 0 /\ Len(buf_data) = 0
      BY <1>1, <2>1
    <3> QED BY <3>1 DEF Taken
  <2> QED BY <1>1, <2>1, <2>2, WholeAndNothing
<1>3. InPipe
  BY <1>1, <1>2 DEF LinesInit, InPipe
<1>4. NewLinesTo(0) = {}
  BY DEF NewLinesTo
<1>5. Ended
  <2>1. /\ NewLinesTo(Taken) = {} /\ Cardinality(NewLinesTo(Taken)) = 0
        /\ Len(lines) = 0 /\ hit_eof = FALSE
    BY <1>1, <1>2, <1>4, FS_EmptySet DEF LinesInit
  <2> QED BY <2>1 DEF Ended
<1>6. SubSeq(sent, 1, 0) = <<>>
  BY <1>1, <1>2 DEF LinesInit, From
<1>7. Begun
  BY <1>2, <1>6 DEF LinesInit, Begun, Pending
<1> QED BY <1>3, <1>5, <1>7

\* Reads of any size, reads that would block in the middle of a line and reads
\* that fail lose no byte and repeat none: whatever the sizes of the reader's
\* buffer and the pipe, the lines that readLine has returned are those that were
\* sent, in order, and the rest is in the line, the buffer and the pipe.
THEOREM LinesKept == LinesSpec => []BytesKept
<1>1. LinesInit => BytesKept
  BY InitTyped, BytesInit, BytesKeptIs
<1>2. BytesKept /\ [LinesNext]_linesVars => BytesKept'
  <2>1. ASSUME BytesKept, [LinesNext]_linesVars PROVE BytesKept'
    <3>1. LinesTypeOK' /\ InPipe' /\ Ended' /\ Begun'
      BY <2>1, BytesKeptIs, TypesKept, BytesStep
    <3> QED BY <3>1 DEF BytesKept, Ended, Begun
  <2> QED BY <2>1
<1> QED BY <1>1, <1>2, PTL DEF LinesSpec

=================================================================================
