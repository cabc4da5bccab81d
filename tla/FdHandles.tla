------------------------------ MODULE FdHandles ------------------------------
(***************************************************************************)
(* Descriptors that belong to handles: stdplus::ManagedFd and DupableFd    *)
(* (src/fd/managed.cpp, src/fd/dupable.cpp), the handles of Handles.tla    *)
(* instantiated with close and fcntl(F_DUPFD_CLOEXEC), over    *)
(* the descriptor table of the process.                                    *)
(*                                                                         *)
(* The kernel gives the lowest free number to open and to socket, and the  *)
(* lowest that is not below the original to a duplicate: a number that was *)
(* closed soon stands for another file.                                    *)
(***************************************************************************)
EXTENDS Integers, FiniteSetsExt

CONSTANTS
    Objs,       \* ManagedFd and DupableFd objects
    Dupables,   \* those that are DupableFd
    Files,      \* open file descriptions
    NoFile,     \* the file of a free descriptor
    MaxFd,      \* the highest descriptor the process may have
    Closed,     \* std::nullopt
    CloseFails  \* whether close can fail

ASSUME DupablesAssumption == Dupables \subseteq Objs
ASSUME NumbersAssumption == MaxFd \in Nat /\ Closed \notin 0 .. MaxFd
ASSUME NoFileAssumption == NoFile \notin Files
ASSUME CloseFailsAssumption == CloseFails \in BOOLEAN

VARIABLES
    file,    \* the descriptor table
    cloexec, \* descriptors with FD_CLOEXEC
    handle,  \* the descriptor of each object
    raw,     \* open descriptors that the program holds as an int
    want,    \* history: the file each object was last given
    ended    \* the call that made the program call std::terminate, or "no"

vars == <<file, cloexec, handle, raw, want, ended>>

Fds == 0 .. MaxFd
Running == ended = "no"
Open(f) == file[f] # NoFile
FreeFrom(tab, low) == {f \in Fds : f >= low /\ tab[f] = NoFile}

\* drop: the descriptor table once object o has closed its descriptor.
Dropped(o) == [f \in Fds |-> IF f = handle[o] THEN NoFile ELSE file[f]]

-----------------------------------------------------------------------------
Init ==
    /\ file = [f \in Fds |-> NoFile]
    /\ cloexec = {}
    /\ handle = [o \in Objs |-> Closed]
    /\ raw = {}
    /\ want = [o \in Objs |-> NoFile]
    /\ ended = "no"

\* A system call gives the program a descriptor of its own.
SysOpen(a) ==
    /\ Running /\ FreeFrom(file, 0) # {}
    /\ LET f == Min(FreeFrom(file, 0)) IN
          /\ file' = [file EXCEPT ![f] = a]
          /\ cloexec' = cloexec \ {f}
          /\ raw' = raw \cup {f}
    /\ UNCHANGED <<handle, want, ended>>

SysClose(f) ==
    /\ Running /\ f \in raw
    /\ file' = [file EXCEPT ![f] = NoFile]
    /\ raw' = raw \ {f}
    /\ UNCHANGED <<cloexec, handle, want, ended>>

\* The constructors from int&&, for open, socket and accept too: the object
\* owns f, and then makes it close-on-exec.
Adopt(o, f) ==
    /\ Running /\ handle[o] = Closed /\ f \in raw
    /\ handle' = [handle EXCEPT ![o] = f]
    /\ want' = [want EXCEPT ![o] = file[f]]
    /\ raw' = raw \ {f}
    /\ cloexec' = cloexec \cup {f}
    /\ UNCHANGED <<file, ended>>

\* Fault: a handle that takes a duplicate forgets the descriptor it had.
RefLeaks(o, f, before) ==
    /\ FreeFrom(file, f) # {}
    /\ LET d == Min(FreeFrom(file, f)) IN
          /\ file' = [file EXCEPT ![d] = file[f]]
          /\ cloexec' = cloexec \cup {d}
          /\ handle' = [handle EXCEPT ![o] = d]
    /\ want' = [want EXCEPT ![o] = file[f]]
    /\ UNCHANGED <<raw, ended>>

\* ref: a duplicate of f goes to object o.  Its own descriptor has been dropped
\* already (in the table `before'), or is dropped afterwards.  The duplicate
\* fails when no number from f on is free, and then ref throws where nothing
\* may.
Ref(o, f, before) ==
    /\ \/ /\ FreeFrom(before, f) # {}
          /\ LET d == Min(FreeFrom(before, f)) IN
                /\ file' = [Dropped(o) EXCEPT ![d] = file[f]]
                /\ cloexec' = cloexec \cup {d}
                /\ handle' = [handle EXCEPT ![o] = d]
          /\ want' = [want EXCEPT ![o] = file[f]]
          /\ ended' = ended
       \/ /\ FreeFrom(before, f) = {}
          /\ ended' = "dup"
          /\ UNCHANGED <<file, cloexec, handle, want>>
    /\ UNCHANGED raw

\* DupableFd(const int&): the program keeps f.
DupRaw(o, f) ==
    /\ Running /\ o \in Dupables /\ handle[o] = Closed /\ f \in raw
    /\ Ref(o, f, file)

\* The copy constructors of both types take a DupableFd.
CopyConstruct(o, p) ==
    /\ Running /\ o # p /\ p \in Dupables
    /\ handle[o] = Closed /\ handle[p] # Closed
    /\ Ref(o, handle[p], file)

\* Copy assignment.  A DupableFd drops its own descriptor and then duplicates
\* the other; a ManagedFd has a temporary made first, and takes it over.
CopyAssign(o, p) ==
    /\ Running /\ o # p /\ p \in Dupables /\ handle[p] # Closed
    /\ Ref(o, handle[p], IF o \in Dupables THEN Dropped(o) ELSE file)

\* Fault: the source keeps the number.
MoveCopies(o, p) ==
    /\ Running /\ o # p /\ (o \in Dupables => p \in Dupables)
    /\ file' = Dropped(o)
    /\ handle' = [handle EXCEPT ![o] = handle[p]]
    /\ want' = [want EXCEPT ![o] = want[p]]
    /\ UNCHANGED <<cloexec, raw, ended>>

\* Moves, from the same type or from a DupableFd to a ManagedFd; the empty
\* handle's own descriptor is none, so construction is the same as assignment.
Move(o, p) ==
    /\ Running /\ o # p /\ (o \in Dupables => p \in Dupables)
    /\ file' = Dropped(o)
    /\ handle' = [handle EXCEPT ![o] = handle[p], ![p] = Closed]
    /\ want' = [want EXCEPT ![o] = want[p]]
    /\ UNCHANGED <<cloexec, raw, ended>>

\* The destructor, and the assignment from an empty object.
Drop(o) ==
    /\ Running /\ handle[o] # Closed
    /\ file' = Dropped(o)
    /\ handle' = [handle EXCEPT ![o] = Closed]
    /\ UNCHANGED <<cloexec, raw, want, ended>>

Release(o) ==
    /\ Running /\ handle[o] # Closed
    /\ raw' = raw \cup {handle[o]}
    /\ handle' = [handle EXCEPT ![o] = Closed]
    /\ UNCHANGED <<file, cloexec, want, ended>>

\* close fails in a drop, for an error of the file, with the same end.
CloseFailure(o) ==
    /\ CloseFails /\ Running /\ handle[o] # Closed
    /\ ended' = "drop"
    /\ UNCHANGED <<file, cloexec, handle, raw, want>>

Next ==
    \/ \E a \in Files : SysOpen(a)
    \/ \E f \in Fds : SysClose(f)
    \/ \E o \in Objs, f \in Fds : Adopt(o, f) \/ DupRaw(o, f)
    \/ \E o, p \in Objs : CopyConstruct(o, p) \/ CopyAssign(o, p) \/ Move(o, p)
    \/ \E o \in Objs : Drop(o) \/ Release(o) \/ CloseFailure(o)

Spec == Init /\ [][Next]_vars

-----------------------------------------------------------------------------
(* Properties *)

\* The type of the state.
TypeOK ==
    /\ file \in [Fds -> Files \cup {NoFile}]
    /\ cloexec \subseteq Fds
    /\ handle \in [Objs -> Fds \cup {Closed}]
    /\ raw \subseteq Fds
    /\ want \in [Objs -> Files \cup {NoFile}]
    /\ ended \in {"no", "dup", "drop"}

\* Every open descriptor has one owner, an object or the program, and what they
\* own is open.
FdsOwned ==
    /\ \A f \in Fds : Open(f) => f \in raw \/ \E o \in Objs : handle[o] = f
    /\ \A f \in raw : Open(f) /\ \A o \in Objs : handle[o] # f
    /\ \A o \in Objs : handle[o] # Closed => Open(handle[o])
    /\ \A o, p \in Objs : handle[o] # Closed /\ handle[o] = handle[p] => o = p

\* An object's descriptor is its own and refers to the file the object was given,
\* adopted or copied, whatever numbers other objects closed and the kernel gave
\* away again, and never reaches another program image.  (What the object holds
\* follows from who owns the numbers, and is not preserved without it.)
HandleKeepsFile ==
    /\ TypeOK
    /\ FdsOwned
    /\ \A o \in Objs :
          handle[o] # Closed =>
              /\ file[handle[o]] = want[o]
              /\ handle[o] \in cloexec

\* Descriptor handles are the handles of Handles.tla, with the open numbers for
\* the live values: what they own is owned once, and is never lost or closed
\* twice.  A ManagedFd that copies a DupableFd counts as copyable here.
Owner == INSTANCE Handles WITH
    Copyables <- Objs, Vals <- Fds, NoVal <- Closed,
    Ctxs <- {"process"}, NoCtx <- "none",
    Throws <- {"drop", "ref"},
    maybeT <- handle, ctx <- [o \in Objs |-> "process"],
    live <- [f \in Fds |-> IF Open(f) THEN "process" ELSE "none"],
    loose <- raw, dead <- ~Running

ImplementsHandles == Owner!Spec

=============================================================================
