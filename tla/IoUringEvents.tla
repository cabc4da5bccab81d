---------------------------- MODULE IoUringEvents ----------------------------
(***************************************************************************)
(* How an event loop learns of completions: the event descriptor of        *)
(* stdplus::IoUring (getEventFd, process and processEvents of              *)
(* src/io_uring.cpp) against a kernel that posts a completion and signals  *)
(* the descriptor in two steps, at any time.                               *)
(*                                                                         *)
(* The descriptor is made on the first getEventFd, and only then does the  *)
(* kernel signal completions; the loop sleeps until it is readable, and    *)
(* calls processEvents.  What is abstracted: the handlers (see IoUring),   *)
(* and the value of the event counter, of which only "not zero" matters.   *)
(***************************************************************************)
EXTENDS Sequences, FiniteSets

CONSTANT Reqs    \* requests, with a handler that may submit others

ASSUME ReqsAssumption == IsFiniteSet(Reqs)

VARIABLES
    inflight,   \* requests the kernel is executing
    cq,         \* completions posted and not yet marked seen
    mustSignal, \* the kernel has posted, and has not signalled yet
    registered, \* the ring has an event descriptor (event_fd)
    readable,   \* its counter is not zero
    pc,         \* where the program's thread is
    inEvents,   \* process() was called by processEvents()
    early       \* history: requests posted before the descriptor was there

eventsVars == <<inflight, cq, mustSignal, registered, readable, pc, inEvents, early>>
kernelVars == <<inflight, cq, mustSignal, early>>

Posted == {cq[i] : i \in DOMAIN cq}

-----------------------------------------------------------------------------
EventsInit ==
    /\ inflight = {} /\ cq = <<>> /\ mustSignal = FALSE /\ early = {}
    /\ registered = FALSE /\ readable = FALSE
    /\ pc = "idle" /\ inEvents = FALSE

\* The program submits a request, from its own code or from a handler.
Submit(r) ==
    /\ pc \in {"idle", "callback"}
    /\ r \notin inflight \cup Posted
    /\ inflight' = inflight \cup {r}
    /\ UNCHANGED <<cq, mustSignal, registered, readable, pc, inEvents, early>>

\* The kernel posts a completion, and signals the descriptor there is by then.
Post(r) ==
    /\ r \in inflight
    /\ inflight' = inflight \ {r}
    /\ cq' = Append(cq, r)
    /\ mustSignal' = TRUE
    /\ early' = IF registered THEN early \ {r} ELSE early \cup {r}
    /\ UNCHANGED <<registered, readable, pc, inEvents>>

Signal ==
    /\ mustSignal
    /\ mustSignal' = FALSE
    /\ readable' = (readable \/ registered)
    /\ UNCHANGED <<inflight, cq, registered, pc, inEvents, early>>

\* getEventFd without a descriptor: it is created, and then registered with
\* the ring.  When that fails the new descriptor is closed and the call throws.
CreateEventFd(events) ==
    /\ pc = "idle" /\ ~registered
    /\ pc' = "creating" /\ inEvents' = events
    /\ UNCHANGED <<kernelVars, registered, readable>>

RegisterEventFd ==
    /\ pc = "creating"
    /\ \/ registered' = TRUE /\ pc' = IF inEvents THEN "read" ELSE "idle"
       \/ UNCHANGED registered /\ pc' = "idle"
    /\ UNCHANGED <<kernelVars, readable, inEvents>>

\* processEvents with a descriptor, called when the loop finds it readable or
\* on the program's own account.
ProcessEvents ==
    /\ pc = "idle" /\ registered
    /\ pc' = "read" /\ inEvents' = TRUE
    /\ UNCHANGED <<kernelVars, registered, readable>>

\* process() called directly.
Process ==
    /\ pc = "idle"
    /\ pc' = "process" /\ inEvents' = FALSE
    /\ UNCHANGED <<kernelVars, registered, readable>>

\* The read that controls processEvents' loop: it empties a counter that is
\* not zero, and ends the loop at zero.
ReadEventFd ==
    /\ pc = "read"
    /\ readable' = FALSE
    /\ pc' = IF readable THEN "process" ELSE "idle"
    /\ UNCHANGED <<kernelVars, registered, inEvents>>

\* One round of process(): the handler of the completion at the head runs, or
\* there is none and process() returns.
Peek ==
    /\ pc = "process"
    /\ pc' = IF cq # <<>> THEN "callback" ELSE IF inEvents THEN "read" ELSE "idle"
    /\ UNCHANGED <<kernelVars, registered, readable, inEvents>>

\* Fault: process() takes one completion at a time.
CallbackReturnOnce ==
    /\ pc = "callback"
    /\ cq' = Tail(cq)
    /\ pc' = IF inEvents THEN "read" ELSE "idle"
    /\ UNCHANGED <<inflight, mustSignal, registered, readable, inEvents, early>>

CallbackReturn ==
    /\ pc = "callback"
    /\ cq' = Tail(cq)
    /\ pc' = "process"
    /\ UNCHANGED <<inflight, mustSignal, registered, readable, inEvents, early>>

EventsNext ==
    \/ \E r \in Reqs : Submit(r) \/ Post(r)
    \/ Signal
    \/ \E events \in BOOLEAN : CreateEventFd(events)
    \/ RegisterEventFd \/ ProcessEvents \/ Process
    \/ ReadEventFd \/ Peek \/ CallbackReturn

EventsSpec == EventsInit /\ [][EventsNext]_eventsVars

\* The event loop calls processEvents whenever the descriptor is readable and
\* does not otherwise touch the queue; calls it has begun go on, and the kernel
\* signals what it has posted.
Fairness ==
    /\ WF_eventsVars(Signal)
    /\ SF_eventsVars(readable /\ ProcessEvents)
    /\ WF_eventsVars(RegisterEventFd) /\ WF_eventsVars(ReadEventFd)
    /\ WF_eventsVars(Peek) /\ WF_eventsVars(CallbackReturn)

FairSpec == EventsSpec /\ Fairness

-----------------------------------------------------------------------------
(* Properties *)

\* The type of the state.
EventsTypeOK ==
    /\ inflight \subseteq Reqs /\ early \subseteq Reqs
    /\ cq \in Seq(Reqs)
    /\ mustSignal \in BOOLEAN /\ registered \in BOOLEAN
    /\ readable \in BOOLEAN /\ inEvents \in BOOLEAN
    /\ pc \in {"idle", "creating", "read", "process", "callback"}

\* No wakeup is lost: while a completion posted since there is a descriptor is
\* on the queue, the descriptor is readable, or about to be, or the thread has
\* yet to look at the queue again.  processEvents must therefore empty the
\* counter before it empties the queue.
NoLostWakeup ==
    Posted \ early # {} =>
        readable \/ mustSignal \/ pc \in {"process", "callback"}

\* What makes NoLostWakeup inductive.
EventsInv ==
    /\ EventsTypeOK
    /\ NoLostWakeup
    /\ Posted \ early # {} => registered
    /\ pc = "callback" => cq # <<>>

\* Every completion posted since there is a descriptor has its handler run by
\* a loop that only ever waits for the descriptor.  Completions from before the
\* descriptor are not lost either, once another is posted: process() takes all
\* there are.
EventsHandled ==
    /\ \A r \in Reqs : (r \in Posted \ early) ~> (r \notin Posted)
    /\ \A r, q \in Reqs :
          (r \in Posted \cap early /\ q \in Posted \ early) ~> (r \notin Posted)

=============================================================================
