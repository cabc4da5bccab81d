------------------------------- MODULE IoUring -------------------------------
(***************************************************************************)
(* The callback bookkeeping of stdplus::IoUring (src/io_uring.cpp).        *)
(*                                                                         *)
(* A program takes submission entries (SQEs) from the ring, names a        *)
(* CQEHandler for each in the entry's user_data, and submits them.  The    *)
(* kernel copies user_data when it consumes an entry and hands it back in  *)
(* the completion (CQE).  The ring keeps a vector `handlers' with one      *)
(* element per registration, so that it can cancel what is left when it    *)
(* is destroyed.  The ring has no lock: one thread calls it, but the       *)
(* kernel posts completions at any time, and a handler called by the ring  *)
(* calls the ring again.  `stack' holds the callbacks that are running.    *)
(***************************************************************************)
EXTENDS Integers, Sequences, FiniteSets

CONSTANTS
    Reqs,              \* identities of submission entries / their requests
    Handlers,          \* the program's CQEHandler objects
    NoHandler,         \* user_data 0
    NoReq,             \* "no entry", in the frame of a completion callback
    Entries,           \* size of the submission queue
    MaxDepth,          \* bound on nested callbacks
    QuietReplacement   \* a handler that is being replaced leaves alone the
                       \* entry it is replaced on and does not submit it

ASSUME ReqsAssumption == IsFiniteSet(Reqs) /\ NoReq \notin Reqs
ASSUME HandlersAssumption == NoHandler \notin Handlers
ASSUME BoundsAssumption == Entries \in Nat \ {0} /\ MaxDepth \in Nat \ {0}
ASSUME QuietAssumption == QuietReplacement \in BOOLEAN

VARIABLES
    handlers,   \* IoUring::handlers
    sq,         \* entries taken by getSQE the kernel has not consumed yet
    ud,         \* user_data in the memory of each entry
    tgt,        \* for a cancel entry, the user_data it looks for
    data,       \* user_data the kernel copied when it consumed the entry
    inflight,   \* requests the kernel is executing
    canceled,   \* those a cancel request has found
    cq,         \* completions posted and not yet marked seen
    processing, \* process() is running
    stack,      \* callbacks in progress, innermost last
    exitAt,     \* 0 while the ring lives, then ~IoUring's loop index
    want,       \* history: the handler last named for a request
    owed        \* history: registrations of a handler less calls to it

userVars == <<handlers, sq, ud, tgt, want>>
kernelVars == <<data, inflight, canceled>>
vars == <<handlers, sq, ud, tgt, data, inflight, canceled, cq,
          processing, stack, exitAt, want, owed>>

MaybeHandler == Handlers \cup {NoHandler}

\* One callback in progress: the handler that runs and, when setHandler runs
\* it, what setHandler has still to do (`sqe' gets `new').
Frame == [run : Handlers, sqe : Reqs \cup {NoReq}, new : MaybeHandler]

-----------------------------------------------------------------------------
(* Helpers *)

ElemsOf(s) == {s[i] : i \in DOMAIN s}

\* std::find: the first position of h, or one past the last.
Find(s, h) ==
    IF h \in ElemsOf(s)
    THEN CHOOSE i \in DOMAIN s : s[i] = h /\ \A j \in 1 .. i - 1 : s[j] # h
    ELSE Len(s) + 1

\* Fault: pop_back without the swap.
DropFromUnswapped(s, h) == SubSeq(s, 1, Len(s) - 1)

\* dropHandler's change to the vector: the last element moves into the place
\* of the one found, and the vector loses its last place.
DropFrom(s, h) ==
    SubSeq([s EXCEPT ![Find(s, h)] = s[Len(s)]], 1, Len(s) - 1)

\* Entries on which a setHandler is waiting for the old handler to return.
Replacing == {stack[i].sqe : i \in DOMAIN stack} \ {NoReq}

\* The thread is in the program's own code: outside the ring or in a callback.
UserTurn == exitAt = 0 /\ (stack # <<>> \/ ~processing)

\* The completion at the head is in the hands of a callback.
Delivering == processing /\ stack # <<>>

Outstanding == ElemsOf(sq) \cup inflight \cup ElemsOf(cq)

-----------------------------------------------------------------------------
(* Submission side *)

Init ==
    /\ handlers = <<>> /\ sq = <<>> /\ cq = <<>> /\ stack = <<>>
    /\ ud = [r \in Reqs |-> NoHandler]
    /\ tgt = [r \in Reqs |-> NoHandler]
    /\ data = [r \in Reqs |-> NoHandler]
    /\ want = [r \in Reqs |-> NoHandler]
    /\ owed = [h \in Handlers |-> 0]
    /\ inflight = {} /\ canceled = {}
    /\ processing = FALSE /\ exitAt = 0

\* getSQE and the io_uring_prep_* call that follows it: the entry is in the
\* submission queue at once, its user_data reset by the preparation.  With a
\* full queue getSQE throws and nothing changes.
TakeEntry(r, h) ==
    /\ r \notin Outstanding
    /\ Len(sq) < Entries
    /\ ud' = [ud EXCEPT ![r] = NoHandler]
    /\ want' = [want EXCEPT ![r] = NoHandler]
    /\ tgt' = [tgt EXCEPT ![r] = h]

GetSQE(r) ==
    /\ UserTurn
    /\ TakeEntry(r, NoHandler)
    /\ sq' = Append(sq, r)
    /\ UNCHANGED <<handlers, kernelVars, cq, processing, stack, exitAt, owed>>

\* What a registration of h adds to the calls the ring owes.
Owe(o, h) == IF h = NoHandler THEN o ELSE [o EXCEPT ![h] = @ + 1]
Called(o, h) == IF h = NoHandler THEN o ELSE [o EXCEPT ![h] = @ - 1]

Pushed(s, h) == IF h = NoHandler THEN s ELSE Append(s, h)

\* setHandler on an entry without a handler: dropHandler(nullptr) does nothing.
SetFirstHandler(r, h) ==
    /\ UserTurn
    /\ r \in ElemsOf(sq) /\ tgt[r] = NoHandler
    /\ ud[r] = NoHandler /\ h # NoHandler
    /\ QuietReplacement => r \notin Replacing
    /\ handlers' = Pushed(handlers, h)
    /\ ud' = [ud EXCEPT ![r] = h]
    /\ want' = [want EXCEPT ![r] = h]
    /\ owed' = Owe(owed, h)
    /\ UNCHANGED <<sq, tgt, kernelVars, cq, processing, stack, exitAt>>

\* Fault: the old handler is called, and not taken out of the vector.
ReplaceHandlerKeepsOld(r, h) ==
    /\ UserTurn
    /\ Len(stack) < MaxDepth
    /\ r \in ElemsOf(sq)
    /\ ud[r] # NoHandler /\ ud[r] # h
    /\ QuietReplacement => r \notin Replacing
    /\ stack' = Append(stack, [run |-> ud[r], sqe |-> r, new |-> h])
    /\ want' = [want EXCEPT ![r] = h]
    /\ owed' = Owe(Called(owed, ud[r]), h)
    /\ UNCHANGED <<handlers, sq, ud, tgt, kernelVars, cq, processing, exitAt>>

\* setHandler on an entry that has a handler already: it is dropped from the
\* vector and called with -ECANCELED before the entry is changed.
ReplaceHandler(r, h) ==
    /\ UserTurn
    /\ Len(stack) < MaxDepth
    /\ r \in ElemsOf(sq)
    /\ ud[r] # NoHandler /\ ud[r] # h
    /\ QuietReplacement => r \notin Replacing
    /\ handlers' = DropFrom(handlers, ud[r])
    /\ stack' = Append(stack, [run |-> ud[r], sqe |-> r, new |-> h])
    /\ want' = [want EXCEPT ![r] = h]
    /\ owed' = Owe(Called(owed, ud[r]), h)
    /\ UNCHANGED <<sq, ud, tgt, kernelVars, cq, processing, exitAt>>

\* io_uring_submit consumes the first n entries of q; user_data goes with them.
Consume(q, n) ==
    LET sent == {q[i] : i \in 1 .. n} IN
    /\ sq' = SubSeq(q, n + 1, Len(q))
    /\ inflight' = inflight \cup sent
    /\ data' = [r \in Reqs |-> IF r \in sent THEN ud'[r] ELSE data[r]]

\* submit(): the kernel may take fewer entries than there are.  When it takes
\* none submit throws and nothing changes.
Submit(n) ==
    /\ UserTurn
    /\ n \in 1 .. Len(sq)
    /\ QuietReplacement => Replacing = {}
    /\ UNCHANGED ud
    /\ Consume(sq, n)
    /\ UNCHANGED <<handlers, tgt, canceled, cq, processing, stack, exitAt,
                   want, owed>>

\* cancelHandler(h): an entry that asks the kernel to cancel a request whose
\* user_data is h, and submit.  When submit throws (n = 0) the entry stays
\* queued.
CancelHandler(h, r, n) ==
    /\ UserTurn
    /\ QuietReplacement => Replacing = {}
    /\ TakeEntry(r, h)
    /\ n \in 0 .. Len(sq) + 1
    /\ Consume(Append(sq, r), n)
    /\ UNCHANGED <<handlers, canceled, cq, processing, stack, exitAt, owed>>

-----------------------------------------------------------------------------
(* The kernel *)

Post(r) ==
    /\ inflight' = inflight \ {r}
    /\ cq' = Append(cq, r)

\* A request completes, by itself or because it was cancelled.
Complete(r) ==
    /\ r \in inflight /\ tgt[r] = NoHandler
    /\ Post(r)
    /\ canceled' = canceled \ {r}
    /\ UNCHANGED <<userVars, data, processing, stack, exitAt, owed>>

\* A cancel request finds one request with the user_data it looks for, or
\* none, and completes.
ExecCancel(c) ==
    LET found == {r \in inflight : tgt[r] = NoHandler /\ data[r] = tgt[c]} IN
    /\ c \in inflight /\ tgt[c] # NoHandler
    /\ \/ found = {} /\ UNCHANGED canceled
       \/ \E r \in found : canceled' = canceled \cup {r}
    /\ Post(c)
    /\ UNCHANGED <<userVars, data, processing, stack, exitAt, owed>>

-----------------------------------------------------------------------------
(* Completion side *)

\* Fault: a completion without a handler is skipped, and not marked seen.
ProcessNextSkips ==
    /\ exitAt = 0 /\ stack = <<>> /\ cq # <<>>
    /\ processing' = TRUE
    /\ LET h == data[Head(cq)] IN
       IF h = NoHandler
       THEN UNCHANGED <<handlers, stack, owed>>
       ELSE /\ handlers' = DropFrom(handlers, h)
            /\ stack' = <<[run |-> h, sqe |-> NoReq, new |-> NoHandler]>>
            /\ owed' = Called(owed, h)
    /\ UNCHANGED <<sq, ud, tgt, kernelVars, cq, exitAt, want>>

\* Fault: the handler is called, and stays in the vector.
ProcessNextKeeps ==
    /\ exitAt = 0 /\ stack = <<>> /\ cq # <<>>
    /\ processing' = TRUE
    /\ LET h == data[Head(cq)] IN
       IF h = NoHandler
       THEN cq' = Tail(cq) /\ UNCHANGED <<stack, owed>>
       ELSE /\ stack' = <<[run |-> h, sqe |-> NoReq, new |-> NoHandler]>>
            /\ owed' = Called(owed, h)
            /\ UNCHANGED cq
    /\ UNCHANGED <<handlers, sq, ud, tgt, kernelVars, exitAt, want>>

\* One round of process()'s loop, up to the call of the handler.  Without a
\* handler the round ends in the same step, with io_uring_cqe_seen.
ProcessNext ==
    /\ exitAt = 0 /\ stack = <<>> /\ cq # <<>>
    /\ processing' = TRUE
    /\ LET h == data[Head(cq)] IN
       IF h = NoHandler
       THEN /\ cq' = Tail(cq)
            /\ UNCHANGED <<handlers, stack, owed>>
       ELSE /\ handlers' = DropFrom(handlers, h)
            /\ stack' = <<[run |-> h, sqe |-> NoReq, new |-> NoHandler]>>
            /\ owed' = Called(owed, h)
            /\ UNCHANGED cq
    /\ UNCHANGED <<sq, ud, tgt, kernelVars, exitAt, want>>

\* process() finds no completion and returns.
ProcessReturn ==
    /\ processing /\ stack = <<>> /\ cq = <<>>
    /\ processing' = FALSE
    /\ UNCHANGED <<userVars, kernelVars, cq, stack, exitAt, owed>>

Top == stack[Len(stack)]
Popped == SubSeq(stack, 1, Len(stack) - 1)

\* A completion handler returns to process(), which marks the CQE seen.
CompletionReturn ==
    /\ exitAt = 0 /\ stack # <<>> /\ Top.sqe = NoReq
    /\ stack' = Popped
    /\ cq' = Tail(cq)
    /\ UNCHANGED <<userVars, kernelVars, processing, exitAt, owed>>

\* Fault: setHandler does not write the new handler to the entry.
ReplacementReturnUnset ==
    /\ exitAt = 0 /\ stack # <<>> /\ Top.sqe # NoReq
    /\ stack' = Popped
    /\ handlers' = Pushed(handlers, Top.new)
    /\ UNCHANGED <<sq, ud, tgt, kernelVars, cq, processing, exitAt, want, owed>>

\* A replaced handler returns to setHandler, which records the new one.
ReplacementReturn ==
    /\ exitAt = 0 /\ stack # <<>> /\ Top.sqe # NoReq
    /\ stack' = Popped
    /\ handlers' = Pushed(handlers, Top.new)
    /\ ud' = [ud EXCEPT ![Top.sqe] = Top.new]
    /\ UNCHANGED <<sq, tgt, kernelVars, cq, processing, exitAt, want, owed>>

\* ~IoUring: the queues are gone, and the loop over `handlers' starts.
Destroy ==
    /\ exitAt = 0 /\ stack = <<>> /\ ~processing
    /\ exitAt' = 1
    /\ sq' = <<>> /\ cq' = <<>> /\ inflight' = {} /\ canceled' = {}
    /\ UNCHANGED <<handlers, ud, tgt, data, processing, stack, want, owed>>

\* One round of the destructor's loop.
DestroyCall ==
    /\ exitAt \in 1 .. Len(handlers)
    /\ exitAt' = exitAt + 1
    /\ owed' = Called(owed, handlers[exitAt])
    /\ UNCHANGED <<userVars, kernelVars, cq, processing, stack>>

\* Nothing happens once the destructor is done.
Destroyed ==
    /\ exitAt > Len(handlers)
    /\ UNCHANGED vars

-----------------------------------------------------------------------------
KernelNext == \E r \in Reqs : Complete(r) \/ ExecCancel(r)

UserNext ==
    \/ \E r \in Reqs : GetSQE(r)
    \/ \E r \in Reqs, h \in MaybeHandler :
          SetFirstHandler(r, h) \/ ReplaceHandler(r, h)
    \/ \E n \in 1 .. Entries : Submit(n)
    \/ \E h \in Handlers, r \in Reqs, n \in 0 .. Entries :
          CancelHandler(h, r, n)
    \/ Destroy

RingNext ==
    \/ ProcessNext \/ ProcessReturn
    \/ CompletionReturn \/ ReplacementReturn
    \/ DestroyCall \/ Destroyed

Next == KernelNext \/ UserNext \/ RingNext

Spec == Init /\ [][Next]_vars

\* What the program and the kernel are relied on for: the event loop calls
\* process() when there are completions, the callback at each depth returns, the
\* kernel executes cancel requests and completes what they found.  An ordinary
\* request may take for ever.
Fairness ==
    /\ SF_vars(ProcessNext) /\ WF_vars(ProcessReturn)
    /\ \A d \in 1 .. MaxDepth :
          SF_vars(Len(stack) = d /\ (CompletionReturn \/ ReplacementReturn))
    /\ WF_vars(DestroyCall)
    /\ \A r \in Reqs : WF_vars(ExecCancel(r))
    /\ \A r \in Reqs : WF_vars(r \in canceled /\ Complete(r))

FairSpec == Spec /\ Fairness

-----------------------------------------------------------------------------
(* Properties *)

\* The type of the state.
TypeOK ==
    /\ handlers \in Seq(Handlers)
    /\ sq \in Seq(Reqs) /\ cq \in Seq(Reqs)
    /\ ud \in [Reqs -> MaybeHandler] /\ tgt \in [Reqs -> MaybeHandler]
    /\ data \in [Reqs -> MaybeHandler] /\ want \in [Reqs -> MaybeHandler]
    /\ inflight \subseteq Reqs /\ canceled \subseteq Reqs
    /\ processing \in BOOLEAN
    /\ stack \in Seq(Frame)
    /\ exitAt \in Nat
    /\ owed \in [Handlers -> Int]

Places(h) == {i \in DOMAIN handlers : handlers[i] = h}

\* The entries and requests that hold a registration of h.
Claims(h) ==
    LET queued == ElemsOf(sq) \ Replacing
        posted == ElemsOf(cq) \ (IF Delivering THEN {Head(cq)} ELSE {})
    IN  {r \in queued : ud[r] = h} \cup {r \in inflight \cup posted : data[r] = h}

\* The vector has exactly one element for each registration still open, with
\* one handler on any number of requests: setHandler, dropHandler and the
\* swap with the last element keep the two in step across callbacks.
HandlersMatch ==
    exitAt = 0 =>
        \A h \in Handlers : Cardinality(Places(h)) = Cardinality(Claims(h))

\* dropHandler (166-179) never looks for a handler that is not in the vector:
\* std::find would return end(), and the swap and pop_back would be undefined.
DropFindsHandler ==
    exitAt = 0 => \A h \in Handlers : Claims(h) # {} => h \in ElemsOf(handlers)

\* "The handler which will be run when the CQE comes back" (io_uring.hpp:92):
\* a completion, on its way or posted, carries the handler last set.
RunsHandlerSet ==
    \A r \in inflight \cup ElemsOf(cq) : data[r] = want[r]

\* Every registration is answered by exactly one call: what the ring owes is
\* what is in the vector plus what setHandler calls in progress will add, and
\* the destructor works off the rest (test io_uring.cpp:227).  The callback of
\* a completion adds nothing when it returns.
EachCalledOnce ==
    /\ \A h \in Handlers :
          owed[h] = Cardinality({i \in Places(h) : i >= exitAt})
                    + Cardinality({i \in DOMAIN stack : stack[i].new = h})
    /\ \A i \in DOMAIN stack : stack[i].sqe = NoReq => stack[i].new = NoHandler

-----------------------------------------------------------------------------
(* The inductive invariant *)

NoRepeat(s) == \A i, j \in DOMAIN s : s[i] = s[j] => i = j

\* An entry is in one queue only, and there once.
QueuesApart ==
    /\ NoRepeat(sq) /\ NoRepeat(cq)
    /\ inflight \cap (ElemsOf(sq) \cup ElemsOf(cq)) = {}
    /\ ElemsOf(sq) \cap ElemsOf(cq) = {}

\* The first callback under process() is a completion's, whose CQE is at the
\* head of the queue; every other one is setHandler's, each on an entry of its
\* own that is still queued.
FramesMatch ==
    /\ \A i \in DOMAIN stack : stack[i].sqe = NoReq <=> (i = 1 /\ processing)
    /\ \A i, j \in DOMAIN stack : stack[i].sqe = stack[j].sqe => i = j
    /\ Replacing \subseteq ElemsOf(sq)
    /\ Delivering => cq # <<>>
    /\ exitAt # 0 => stack = <<>> /\ ~processing

\* The handler last set on an entry is in its memory, or with the setHandler
\* that will put it there.
HandlerKept ==
    /\ \A r \in ElemsOf(sq) \ Replacing : ud[r] = want[r]
    /\ \A i \in DOMAIN stack :
          stack[i].sqe # NoReq => want[stack[i].sqe] = stack[i].new

\* With handlers that are quiet while they are replaced, the strengthening of
\* DropFindsHandler and RunsHandlerSet that every step preserves.
IInv ==
    /\ TypeOK
    /\ QueuesApart
    /\ FramesMatch
    /\ HandlersMatch
    /\ HandlerKept
    /\ RunsHandlerSet

-----------------------------------------------------------------------------
(* Liveness *)

\* A posted completion is eventually taken off the queue, whatever callbacks
\* do in between, unless the ring is destroyed.
CompletionsHandled ==
    \A r \in Reqs : r \in ElemsOf(cq) ~> r \notin ElemsOf(cq)

\* A cancel request that reaches the kernel gets the handler's request
\* completed and its handler run, even one that would never complete by
\* itself, unless another request of the same handler was there to find.
CancelAnswered ==
    \A c \in Reqs, r \in Reqs :
        (/\ c \in inflight /\ tgt[c] # NoHandler
         /\ r \in inflight /\ data[r] = tgt[c] /\ tgt[r] = NoHandler)
        ~> (\/ r \notin Outstanding
            \/ \E q \in Outstanding \ {r} : data[q] = data[r])

=============================================================================
