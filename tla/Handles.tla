------------------------------- MODULE Handles -------------------------------
(***************************************************************************)
(* The ownership protocol of stdplus::Managed and stdplus::Copyable        *)
(* (include/stdplus/handle/managed.hpp and copyable.hpp).              *)
(*                                                                         *)
(* A handle holds at most one value (`maybeT') and a context (`ctx', the    *)
(* extra data of the template), and passes the value with the context to   *)
(* drop when it gives the value up.  A copyable handle can make a second   *)
(* value of one it is shown, with ref.  A value is a resource: it is live  *)
(* from when it is acquired, for some context, until it is dropped.        *)
(*                                                                         *)
(* The callables are wrapped in Dropper and Reffer, whose noexcept asks    *)
(* whether naming the function can throw, which it never can: a drop or a  *)
(* ref that does throw ends the program.                                   *)
(***************************************************************************)
CONSTANTS
    Objs,       \* handles
    Copyables,  \* those of a Copyable type
    Vals,       \* values
    NoVal,      \* std::nullopt
    Ctxs,       \* contexts
    NoCtx,      \* the context of a value that is not live
    Throws      \* the calls, "drop" and "ref", that may throw

ASSUME ObjsAssumption == Copyables \subseteq Objs
ASSUME NoneAssumption == NoVal \notin Vals /\ NoCtx \notin Ctxs
ASSUME ThrowsAssumption == Throws \subseteq {"drop", "ref"}

VARIABLES
    maybeT, \* the value of each handle
    ctx,    \* its context
    live,   \* the context of each value, or NoCtx
    loose,  \* live values that the program holds by itself
    dead    \* std::terminate was called

vars == <<maybeT, ctx, live, loose, dead>>

Holds(o) == maybeT[o] # NoVal

\* maybeDrop: what is left of the live values when handle o has dropped its
\* value with context c.  Only with the context it was made for is it freed.
DropOwn(o, c) ==
    [v \in Vals |-> IF v = maybeT[o] /\ live[v] = c THEN NoCtx ELSE live[v]]

-----------------------------------------------------------------------------
Init ==
    /\ maybeT = [o \in Objs |-> NoVal]
    /\ ctx \in [Objs -> Ctxs]
    /\ live = [v \in Vals |-> NoCtx]
    /\ loose = {}
    /\ dead = FALSE

\* The program gets a value, or disposes of one it holds by itself.
Acquire(v, c) ==
    /\ ~dead /\ live[v] = NoCtx
    /\ live' = [live EXCEPT ![v] = c]
    /\ loose' = loose \cup {v}
    /\ UNCHANGED <<maybeT, ctx, dead>>

Dispose(v) ==
    /\ ~dead /\ v \in loose
    /\ live' = [live EXCEPT ![v] = NoCtx]
    /\ loose' = loose \ {v}
    /\ UNCHANGED <<maybeT, ctx, dead>>

\* The owning constructors: an object that holds nothing begins anew, with a
\* value of the program's and its context, or with the context alone.
Construct(o, v) ==
    /\ ~dead /\ ~Holds(o) /\ v \in loose
    /\ maybeT' = [maybeT EXCEPT ![o] = v]
    /\ ctx' = [ctx EXCEPT ![o] = live[v]]
    /\ loose' = loose \ {v}
    /\ UNCHANGED <<live, dead>>

ConstructEmpty(o, c) ==
    /\ ~dead /\ ~Holds(o)
    /\ ctx' = [ctx EXCEPT ![o] = c]
    /\ UNCHANGED <<maybeT, live, loose, dead>>

\* reset(T&&): the handle drops its own value and takes v, which the caller
\* has for the handle's context.
ResetTo(o, v) ==
    /\ ~dead /\ v \in loose /\ live[v] = ctx[o]
    /\ live' = DropOwn(o, ctx[o])
    /\ maybeT' = [maybeT EXCEPT ![o] = v]
    /\ loose' = loose \ {v}
    /\ UNCHANGED <<ctx, dead>>

\* reset(), and the destructor.
Reset(o) ==
    /\ ~dead /\ Holds(o)
    /\ live' = DropOwn(o, ctx[o])
    /\ maybeT' = [maybeT EXCEPT ![o] = NoVal]
    /\ UNCHANGED <<ctx, loose, dead>>

\* release and maybe_release: the value is the caller's.  (On an empty handle
\* release throws, and nothing changes.)
Release(o) ==
    /\ ~dead /\ Holds(o)
    /\ loose' = loose \cup {maybeT[o]}
    /\ maybeT' = [maybeT EXCEPT ![o] = NoVal]
    /\ UNCHANGED <<ctx, live, dead>>

\* Move construction of o from p, and move assignment.  The value that is
\* given up goes with the context it had: the assignment to `ctx' comes after.
MoveConstruct(o, p) ==
    /\ ~dead /\ o # p /\ ~Holds(o)
    /\ maybeT' = [maybeT EXCEPT ![o] = maybeT[p], ![p] = NoVal]
    /\ ctx' = [ctx EXCEPT ![o] = ctx[p]]
    /\ UNCHANGED <<live, loose, dead>>

\* Fault: the context comes first.  Fault: the context stays.
MoveAssignContextFirst(o, p) ==
    /\ ~dead /\ o # p
    /\ live' = DropOwn(o, ctx[p])
    /\ maybeT' = [maybeT EXCEPT ![o] = maybeT[p], ![p] = NoVal]
    /\ ctx' = [ctx EXCEPT ![o] = ctx[p]]
    /\ UNCHANGED <<loose, dead>>

MoveAssignValueOnly(o, p) ==
    /\ ~dead /\ o # p
    /\ live' = DropOwn(o, ctx[o])
    /\ maybeT' = [maybeT EXCEPT ![o] = maybeT[p], ![p] = NoVal]
    /\ UNCHANGED <<ctx, loose, dead>>

MoveAssign(o, p) ==
    /\ ~dead /\ o # p
    /\ live' = DropOwn(o, ctx[o])
    /\ maybeT' = [maybeT EXCEPT ![o] = maybeT[p], ![p] = NoVal]
    /\ ctx' = [ctx EXCEPT ![o] = ctx[p]]
    /\ UNCHANGED <<loose, dead>>

\* ref gives a value that is not live at the time, for context c, and handle o
\* takes it.  With ReferFirst the handle drops its own value afterwards, with
\* DropFirst it has done so already.
ReferFirst(o, c) ==
    \E v \in Vals :
        /\ live[v] = NoCtx
        /\ live' = [DropOwn(o, ctx[o]) EXCEPT ![v] = c]
        /\ maybeT' = [maybeT EXCEPT ![o] = v]

DropFirst(o, c) ==
    \E v \in Vals :
        /\ DropOwn(o, ctx[o])[v] = NoCtx
        /\ live' = [DropOwn(o, ctx[o]) EXCEPT ![v] = c]
        /\ maybeT' = [maybeT EXCEPT ![o] = v]

\* The copy constructor, and the constructors and reset from a constant value,
\* which may be another handle's or the program's, of the same context.  (A copy
\* of an empty handle is ConstructEmpty.)
CopyConstruct(o, p) ==
    /\ ~dead /\ o # p /\ {o, p} \subseteq Copyables /\ ~Holds(o) /\ Holds(p)
    /\ ctx' = [ctx EXCEPT ![o] = ctx[p]]
    /\ ReferFirst(o, ctx[p])
    /\ UNCHANGED <<loose, dead>>

ResetCopy(o, v) ==
    /\ ~dead /\ o \in Copyables /\ live[v] = ctx[o]
    /\ ReferFirst(o, ctx[o])
    /\ UNCHANGED <<ctx, loose, dead>>

\* Copy assignment: the handle's value goes first, with its own context, then
\* the context is copied, and then the other's value is referred to.
CopyAssign(o, p) ==
    /\ ~dead /\ o # p /\ {o, p} \subseteq Copyables
    /\ ctx' = [ctx EXCEPT ![o] = ctx[p]]
    /\ IF Holds(p)
       THEN DropFirst(o, ctx[p])
       ELSE live' = DropOwn(o, ctx[o]) /\ maybeT' = [maybeT EXCEPT ![o] = NoVal]
    /\ UNCHANGED <<loose, dead>>

\* A drop or a ref throws.
Terminate ==
    /\ ~dead
    /\ \/ "drop" \in Throws /\ \E o \in Objs : Holds(o)
       \/ "ref" \in Throws /\ Copyables # {} /\ \E v \in Vals : live[v] # NoCtx
    /\ dead' = TRUE
    /\ UNCHANGED <<maybeT, ctx, live, loose>>

Next ==
    \/ \E v \in Vals, c \in Ctxs : Acquire(v, c)
    \/ \E v \in Vals : Dispose(v)
    \/ \E o \in Objs, v \in Vals :
          Construct(o, v) \/ ResetTo(o, v) \/ ResetCopy(o, v)
    \/ \E o \in Objs, c \in Ctxs : ConstructEmpty(o, c)
    \/ \E o \in Objs : Reset(o) \/ Release(o)
    \/ \E o, p \in Objs :
          \/ MoveConstruct(o, p) \/ MoveAssign(o, p)
          \/ CopyConstruct(o, p) \/ CopyAssign(o, p)
    \/ Terminate

Spec == Init /\ [][Next]_vars

-----------------------------------------------------------------------------
(* Properties *)

\* The type of the state.
TypeOK ==
    /\ maybeT \in [Objs -> Vals \cup {NoVal}]
    /\ ctx \in [Objs -> Ctxs]
    /\ live \in [Vals -> Ctxs \cup {NoCtx}]
    /\ loose \subseteq Vals
    /\ dead \in BOOLEAN

\* Every live value has exactly one owner, a handle or the program, and what
\* is owned is live: no value is lost, dropped twice or used after it was
\* dropped, through moves, copies, resets and releases in any order.
OwnedOnce ==
    /\ \A v \in Vals : live[v] # NoCtx =>
          v \in loose \/ \E o \in Objs : maybeT[o] = v
    /\ \A v \in loose : live[v] # NoCtx /\ \A o \in Objs : maybeT[o] # v
    /\ \A o \in Objs : Holds(o) => live[maybeT[o]] # NoCtx
    /\ \A o, p \in Objs : Holds(o) /\ maybeT[o] = maybeT[p] => o = p

\* A handle's context is the one its value was made for, so that drop and ref
\* are called with the data that belongs to the value (the ring of a
\* FileHandle, for one).
OwnContext == \A o \in Objs : Holds(o) => live[maybeT[o]] = ctx[o]

IInv == TypeOK /\ OwnedOnce /\ OwnContext

=============================================================================
