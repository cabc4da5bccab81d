--------------------------------- MODULE Lines ---------------------------------
(***************************************************************************)
(* Lines through a pipe: a program that appends to a FormatBuffer          *)
(* (src/fd/fmt.cpp), and another that reads with a LineReader              *)
(* (src/fd/line.cpp).                                                      *)
(*                                                                         *)
(* The two run at their own pace, and their descriptors do not block.  The *)
(* buffer is written with writeExact (see FdOps), one write at a time; the *)
(* reader takes any part of what is in the pipe, and keeps a line that is  *)
(* not complete.  Bytes are numbered 1, 2, ... as they are appended.       *)
(***************************************************************************)
EXTENDS Integers, FiniteSets, Sequences, SequencesExt

CONSTANTS
    Bytes,        \* how many bytes the program appends
    NewLines,     \* those that are '\n'
    Chunk,        \* bytes appended at a time, at most
    MaxBuf,       \* the buffer's `max'
    PipeSize,     \* bytes that the pipe holds
    ReadSize,     \* LineReader::buf_size
    MaxForgotten, \* bound on the flushes that fail half way
    Failing       \* whether read and write can fail ("read", "write")

ASSUME BytesAssumption == Bytes \in Nat /\ NewLines \subseteq 1 .. Bytes
ASSUME SizesAssumption ==
    /\ Chunk \in Nat \ {0} /\ MaxBuf \in Nat
    /\ PipeSize \in Nat \ {0} /\ ReadSize \in Nat \ {0}
ASSUME ForgottenAssumption == MaxForgotten \in Nat
ASSUME FailingAssumption == Failing \subseteq {"read", "write"}

VARIABLES
    appended,  \* bytes the program has appended
    fbuf,      \* FormatBuffer::buf
    written,   \* while writeExact runs, how much it has written; else -1
    phase,     \* of the FormatBuffer: "live", "dying" (its destructor
               \* flushes) or "gone", and with it the pipe's write end
    pipe,      \* bytes in the pipe
    buf_data, line, line_complete, hit_eof,   \* the LineReader's members
    reading,   \* readLine() is running
    lines,     \* history: the lines it has returned
    sent,      \* history: every byte that went into the pipe
    forgotten  \* history: flushes that failed and forgot what they had
               \* written, or, in the destructor, what they had not

writer == <<appended, fbuf, written, phase>>
reader == <<buf_data, line, line_complete, hit_eof, reading, lines>>
linesVars == <<writer, pipe, reader, sent, forgotten>>

Upto(s, n) == SubSeq(s, 1, n)
From(s, n) == SubSeq(s, n, Len(s))

LinesInit ==
    /\ appended = 0 /\ fbuf = <<>> /\ written = -1 /\ phase = "live"
    /\ pipe = <<>> /\ sent = <<>> /\ forgotten = 0
    /\ buf_data = <<>> /\ line = <<>> /\ line_complete = FALSE
    /\ hit_eof = FALSE /\ reading = FALSE /\ lines = <<>>

-----------------------------------------------------------------------------
(* FormatBuffer *)

\* append and appends: the bytes are there, and flush is called if the buffer is
\* full enough.
AppendBytes(k) ==
    /\ phase = "live" /\ written = -1
    /\ appended + k <= Bytes
    /\ appended' = appended + k
    /\ fbuf' = fbuf \o [i \in 1 .. k |-> appended + i]
    /\ written' = IF Len(fbuf') >= MaxBuf THEN 0 ELSE -1
    /\ UNCHANGED <<phase, pipe, reader, sent, forgotten>>

\* flush called by the program.
Flush ==
    /\ phase = "live" /\ written = -1 /\ fbuf # <<>>
    /\ written' = 0
    /\ UNCHANGED <<appended, fbuf, phase, pipe, reader, sent, forgotten>>

\* Fault: a flush that is done does not clear the buffer.
WriteKeeps ==
    /\ written >= 0
    /\ \E k \in 1 .. Len(fbuf) - written :
          LET some == SubSeq(fbuf, written + 1, written + k) IN
          /\ Len(pipe) + k <= PipeSize
          /\ pipe' = pipe \o some /\ sent' = sent \o some
          /\ written' = IF written + k = Len(fbuf) THEN -1 ELSE written + k
          /\ fbuf' = fbuf
    /\ UNCHANGED <<appended, phase, reader, forgotten>>

\* One write of writeExact; after the last the buffer is cleared.
Write ==
    /\ written >= 0
    /\ \E k \in 1 .. Len(fbuf) - written :
          LET some == SubSeq(fbuf, written + 1, written + k) IN
          /\ Len(pipe) + k <= PipeSize
          /\ pipe' = pipe \o some /\ sent' = sent \o some
          /\ IF written + k = Len(fbuf)
             THEN written' = -1 /\ fbuf' = <<>>
             ELSE written' = written + k /\ UNCHANGED fbuf
    /\ UNCHANGED <<appended, phase, reader, forgotten>>

\* A write would block, or fails: writeExact throws, and the buffer keeps
\* everything, written or not.
WriteRefused ==
    /\ phase = "live" /\ written >= 0
    /\ "write" \in Failing \/ Len(pipe) = PipeSize
    /\ written > 0 => forgotten < MaxForgotten
    /\ forgotten' = IF written > 0 THEN forgotten + 1 ELSE forgotten
    /\ written' = -1
    /\ UNCHANGED <<appended, fbuf, phase, pipe, reader, sent>>

\* The destructor flushes.
Destroy ==
    /\ phase = "live" /\ written = -1
    /\ phase' = "dying"
    /\ written' = IF fbuf # <<>> THEN 0 ELSE -1
    /\ UNCHANGED <<appended, fbuf, pipe, reader, sent, forgotten>>

\* The flush is done; the program closes its end of the pipe.
Destroyed ==
    /\ phase = "dying" /\ written = -1
    /\ phase' = "gone"
    /\ UNCHANGED <<appended, fbuf, written, pipe, reader, sent, forgotten>>

\* The flush throws out of the destructor, and the buffer goes all the same.
DestroyRefused ==
    /\ phase = "dying" /\ written >= 0
    /\ "write" \in Failing \/ Len(pipe) = PipeSize
    /\ forgotten < MaxForgotten /\ forgotten' = forgotten + 1
    /\ phase' = "gone" /\ fbuf' = <<>> /\ written' = -1
    /\ UNCHANGED <<appended, pipe, reader, sent>>

-----------------------------------------------------------------------------
(* LineReader::readLine *)

\* The call, which throws when the end was reached before.  A line that was
\* returned is cleared.
ReadLine ==
    /\ ~reading /\ ~hit_eof
    /\ reading' = TRUE
    /\ line' = IF line_complete THEN <<>> ELSE line
    /\ UNCHANGED <<writer, pipe, buf_data, line_complete, hit_eof, lines, sent, forgotten>>

\* The buffer is empty: read.
Fill ==
    /\ reading /\ buf_data = <<>>
    /\ \E k \in 1 .. Len(pipe) :
          k <= ReadSize /\ buf_data' = Upto(pipe, k) /\ pipe' = From(pipe, k + 1)
    /\ UNCHANGED <<writer, line, line_complete, hit_eof, reading, lines, sent, forgotten>>

\* There is nothing as yet: nullptr.  Or read throws.
FillRefused ==
    /\ reading /\ buf_data = <<>>
    /\ (pipe = <<>> /\ phase # "gone") \/ "read" \in Failing
    /\ reading' = FALSE
    /\ UNCHANGED <<writer, pipe, buf_data, line, line_complete, hit_eof, lines,
                   sent, forgotten>>

\* The end of the stream: what there is of a line is returned.
FillEnd ==
    /\ reading /\ buf_data = <<>> /\ pipe = <<>> /\ phase = "gone"
    /\ reading' = FALSE /\ hit_eof' = TRUE
    /\ lines' = Append(lines, line)
    /\ UNCHANGED <<writer, pipe, buf_data, line, line_complete, sent, forgotten>>

FirstNewLine ==
    SelectInSeq(buf_data, LAMBDA b : b \in NewLines)

\* Fault: line_complete stays as it was.  Fault: what is behind the newline is
\* dropped.
ScanKeepsComplete ==
    LET i == FirstNewLine IN
    /\ reading /\ buf_data # <<>>
    /\ IF i # 0
       THEN /\ line' = line \o Upto(buf_data, i - 1)
            /\ buf_data' = From(buf_data, i + 1)
            /\ line_complete' = TRUE
            /\ reading' = FALSE /\ lines' = Append(lines, line')
       ELSE /\ line' = line \o buf_data
            /\ buf_data' = <<>>
            /\ UNCHANGED <<line_complete, reading, lines>>
    /\ UNCHANGED <<writer, pipe, hit_eof, sent, forgotten>>

ScanDropsRest ==
    LET i == FirstNewLine IN
    /\ reading /\ buf_data # <<>>
    /\ line_complete' = (i # 0)
    /\ line' = line \o (IF i # 0 THEN Upto(buf_data, i - 1) ELSE buf_data)
    /\ buf_data' = <<>>
    /\ reading' = (i = 0)
    /\ lines' = IF i # 0 THEN Append(lines, line') ELSE lines
    /\ UNCHANGED <<writer, pipe, hit_eof, sent, forgotten>>

\* The bytes in the buffer up to a newline complete the line, which is returned;
\* without one they are added to it.
Scan ==
    LET i == FirstNewLine IN
    /\ reading /\ buf_data # <<>>
    /\ IF i # 0
       THEN /\ line' = line \o Upto(buf_data, i - 1)
            /\ buf_data' = From(buf_data, i + 1)
            /\ line_complete' = TRUE
            /\ reading' = FALSE /\ lines' = Append(lines, line')
       ELSE /\ line' = line \o buf_data
            /\ buf_data' = <<>>
            /\ line_complete' = FALSE
            /\ UNCHANGED <<reading, lines>>
    /\ UNCHANGED <<writer, pipe, hit_eof, sent, forgotten>>

WriterNext ==
    \/ \E k \in 1 .. Chunk : AppendBytes(k)
    \/ Flush \/ Write \/ WriteRefused \/ Destroy \/ Destroyed \/ DestroyRefused

ReaderNext == ReadLine \/ Fill \/ FillRefused \/ FillEnd \/ Scan

LinesNext == WriterNext \/ ReaderNext

LinesSpec == LinesInit /\ [][LinesNext]_linesVars

\* The reader calls readLine again and again, its calls go on, and a read that
\* is tried again and again when there is something to read at last succeeds.
Fairness ==
    /\ WF_linesVars(ReadLine) /\ WF_linesVars(Scan) /\ WF_linesVars(FillEnd)
    /\ WF_linesVars(FillRefused) /\ SF_linesVars(Fill)

FairSpec == LinesSpec /\ Fairness

-----------------------------------------------------------------------------
(* Properties *)

Numbers == Seq(1 .. Bytes)

\* The type of the state.
LinesTypeOK ==
    /\ appended \in 0 .. Bytes
    /\ written \in -1 .. Bytes /\ written < Len(fbuf) /\ Len(fbuf) <= appended
    /\ \A s \in {fbuf, pipe, buf_data, line, sent} : s \in Numbers
    /\ lines \in Seq(Numbers)
    /\ \A b \in {line_complete, hit_eof, reading} : b \in BOOLEAN
    /\ phase \in {"live", "dying", "gone"} /\ forgotten \in 0 .. MaxForgotten

\* The newlines among the first n bytes that were sent.
NewLinesTo(n) == {p \in 1 .. n : sent[p] \in NewLines}

\* A line begins at byte b, and does not end before byte p.
LineFrom(b, p) ==
    /\ b = 1 \/ sent[b - 1] \in NewLines
    /\ \A q \in b .. p - 1 : sent[q] \notin NewLines

\* How many bytes the reader has taken from the pipe and looked at.
Taken == Len(sent) - Len(pipe) - Len(buf_data)

\* What readLine has of a line that it has not returned.
Pending == IF line_complete THEN <<>> ELSE line

\* What the reader and the pipe have is the end of what was sent.
InPipe ==
    /\ Taken >= 0
    /\ buf_data \o pipe = From(sent, Taken + 1)
    /\ hit_eof => phase = "gone" /\ Taken = Len(sent) /\ ~reading
    /\ phase = "gone" => written = -1
    /\ reading /\ line_complete => line = <<>>

\* The lines that the reader returned are the pieces of what was sent between
\* one newline and the next, in order and each once, and the rest is pending or
\* was returned at the end of the stream: reads of any size, reads that would
\* block in the middle of a line, and failing reads lose or repeat nothing.
BytesKept ==
    /\ LinesTypeOK /\ InPipe
    /\ Len(lines) = Cardinality(NewLinesTo(Taken)) + (IF hit_eof THEN 1 ELSE 0)
    /\ \A p \in NewLinesTo(Taken) : \A b \in 1 .. p :
          LineFrom(b, p) => lines[Cardinality(NewLinesTo(p))] = SubSeq(sent, b, p - 1)
    /\ \A b \in 1 .. Taken + 1 :
          LineFrom(b, Taken + 1) =>
              SubSeq(sent, b, Taken) = IF hit_eof THEN Last(lines) ELSE Pending

\* Unless a flush has failed half way or in the destructor, everything appended
\* goes to the pipe once and in order, however the writes were cut up.
FlushedOnce ==
    forgotten > 0 \/ sent \o From(fbuf, IF written >= 0 THEN written + 1 ELSE 1)
                = [i \in 1 .. appended |-> i]

\* A line whose newline has been sent is returned, to a reader that keeps
\* calling.
LinesArrive ==
    \A n \in 1 .. Bytes :
        Cardinality(NewLinesTo(Len(sent))) >= n ~> Len(lines) >= n

=============================================================================
