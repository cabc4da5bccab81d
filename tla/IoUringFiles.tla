---------------------------- MODULE IoUringFiles ----------------------------
(***************************************************************************)
(* The table of registered files of stdplus::IoUring (src/io_uring.cpp):   *)
(* registerFile, reserveFiles, and the FileHandle that gives a slot back.  *)
(*                                                                         *)
(* The ring keeps the table by descriptor number in `files', with the      *)
(* number of slots in use in `filesAllocated'; the kernel keeps its own    *)
(* table of open files.  A slot can be updated in place, but a table that  *)
(* is to grow is unregistered and registered anew, from the numbers.       *)
(* Slots count from 1 here and from 0 in the code.                         *)
(***************************************************************************)
EXTENDS Integers, Sequences, FiniteSets

CONSTANTS
    Fds,        \* descriptor numbers
    OpenFiles,  \* what a descriptor can stand for
    Holders,    \* the program's FileHandle objects
    None,       \* -1 in `files'
    NoFile,     \* an empty slot of the kernel, or a closed descriptor
    MinSize,    \* smallest table: 7 in the code
    MaxSize,    \* bound on the table
    MaxReserve, \* bound on the argument of reserveFiles
    Fails       \* kernel calls that may fail for reasons of their own

ASSUME NamesAssumption == None \notin Fds /\ NoFile \notin OpenFiles
ASSUME HoldersAssumption == IsFiniteSet(Holders)
ASSUME SizesAssumption ==
    MinSize \in Nat \ {0} /\ MaxSize \in Nat /\ MaxReserve \in Nat
ASSUME FailsAssumption == Fails \subseteq {"update", "register"}

VARIABLES
    open,           \* the process's descriptors
    files,          \* IoUring::files
    filesAllocated, \* IoUring::filesAllocated
    ktab,           \* the kernel's table; <<>> when none is registered
    handle,         \* slot of each FileHandle, 0 when it is empty
    given,          \* history: the file each FileHandle was made for
    trouble,        \* history: a kernel call failed, or the program closed a
                    \* descriptor that the table lists
    dead            \* std::terminate was called

ring == <<files, filesAllocated>>
vars == <<open, files, filesAllocated, ktab, handle, given, trouble, dead>>

FreeSlots(t) == {s \in DOMAIN t : t[s] = None}
UsedSlots(t) == DOMAIN t \ FreeSlots(t)

LargerOf(m, n) == IF m >= n THEN m ELSE n

Resized(n) == [s \in 1 .. n |-> IF s <= Len(files) THEN files[s] ELSE None]

-----------------------------------------------------------------------------
Init ==
    /\ open = [f \in Fds |-> NoFile]
    /\ files = <<>> /\ filesAllocated = 0 /\ ktab = <<>>
    /\ handle = [h \in Holders |-> 0] /\ given = [h \in Holders |-> NoFile]
    /\ trouble = FALSE /\ dead = FALSE

\* The program opens and closes descriptors; numbers are reused.
OpenFd(f, x) ==
    /\ open[f] = NoFile
    /\ open' = [open EXCEPT ![f] = x]
    /\ UNCHANGED <<ring, ktab, handle, given, trouble, dead>>

CloseFd(f) ==
    /\ open[f] # NoFile
    /\ open' = [open EXCEPT ![f] = NoFile]
    /\ trouble' = (trouble \/ \E s \in DOMAIN files : files[s] = f)
    /\ UNCHANGED <<ring, ktab, handle, given, dead>>

\* Fault: nothing is counted down.
SetFileCountsUp(t, s, f) ==
    /\ files' = [t EXCEPT ![s] = f]
    /\ filesAllocated' =
          IF t[s] = None /\ f # None THEN filesAllocated + 1 ELSE filesAllocated

\* setFile on table t, as it keeps the count.
SetFile(t, s, f) ==
    /\ files' = [t EXCEPT ![s] = f]
    /\ filesAllocated' =
          IF t[s] = None /\ f # None THEN filesAllocated + 1
          ELSE IF t[s] # None /\ f = None THEN filesAllocated - 1
          ELSE filesAllocated

\* io_uring_register_files_update of one slot with file x.  There must be a
\* table, and the call can fail for lack of memory.
UpdateDone(s, x) ==
    /\ s \in DOMAIN ktab
    /\ ktab' = [ktab EXCEPT ![s] = x]
    /\ UNCHANGED trouble

UpdateFailed(s) ==
    /\ s \notin DOMAIN ktab \/ "update" \in Fails
    /\ trouble' = (trouble \/ s \in DOMAIN ktab)
    /\ UNCHANGED ktab

\* io_uring_unregister_files and io_uring_register_files of the numbers in
\* files': one that is closed fails the call, and then there is no table.
TableDone ==
    /\ \A s \in UsedSlots(files') : open[files'[s]] # NoFile
    /\ ktab' = [s \in DOMAIN files' |->
                  IF files'[s] = None THEN NoFile ELSE open[files'[s]]]
    /\ UNCHANGED trouble

TableFailed ==
    /\ \/ "register" \in Fails
       \/ \E s \in UsedSlots(files') : open[files'[s]] = NoFile
    /\ ktab' = <<>> /\ trouble' = TRUE

\* The FileHandle that registerFile returns.
Hold(h, s, f) ==
    /\ handle' = [handle EXCEPT ![h] = s]
    /\ given' = [given EXCEPT ![h] = open[f]]

\* registerFile with a free slot: the first one.  When the kernel refuses, the
\* call throws, with the slot already changed.
RegisterFree(h, f) ==
    /\ ~dead /\ handle[h] = 0 /\ open[f] # NoFile
    /\ \E s \in FreeSlots(files) :
          /\ \A t \in FreeSlots(files) : s <= t
          /\ SetFile(files, s, f)
          /\ \/ UpdateDone(s, open[f]) /\ Hold(h, s, f)
             \/ UpdateFailed(s) /\ UNCHANGED <<handle, given>>
    /\ UNCHANGED <<open, dead>>

\* Fault: the handle is for the slot after the file's.
RegisterGrowNext(h, f) ==
    LET n == LargerOf(MinSize, 2 * Len(files) + 1)
        s == Len(files) + 1
    IN  /\ ~dead /\ handle[h] = 0 /\ open[f] # NoFile
        /\ FreeSlots(files) = {} /\ n <= MaxSize
        /\ SetFile(Resized(n), s, f)
        /\ \/ TableDone /\ Hold(h, s + 1, f)
           \/ TableFailed /\ UNCHANGED <<handle, given>>
        /\ UNCHANGED <<open, dead>>

\* registerFile with a full table: it grows, and is registered anew.
RegisterGrow(h, f) ==
    LET n == LargerOf(MinSize, 2 * Len(files) + 1)
        s == Len(files) + 1
    IN  /\ ~dead /\ handle[h] = 0 /\ open[f] # NoFile
        /\ FreeSlots(files) = {} /\ n <= MaxSize
        /\ SetFile(Resized(n), s, f)
        /\ \/ TableDone /\ Hold(h, s, f)
           \/ TableFailed /\ UNCHANGED <<handle, given>>
        /\ UNCHANGED <<open, dead>>

\* Fault: the larger table is not registered.  Fault: the slots in use are
\* forgotten.
ReserveUnregistered(num) ==
    LET n == LargerOf(MinSize, num + filesAllocated) IN
    /\ ~dead
    /\ Len(files) < n /\ n <= MaxSize
    /\ files' = Resized(n)
    /\ ktab' = <<>>
    /\ UNCHANGED <<open, filesAllocated, handle, given, trouble, dead>>

ReserveTotal(num) ==
    LET n == LargerOf(MinSize, num) IN
    /\ ~dead
    /\ Len(files) < n /\ n <= MaxSize
    /\ files' = Resized(n)
    /\ TableDone \/ TableFailed
    /\ UNCHANGED <<open, filesAllocated, handle, given, dead>>

\* reserveFiles(num), when the table is too small for it.
Reserve(num) ==
    LET n == LargerOf(MinSize, num + filesAllocated) IN
    /\ ~dead
    /\ Len(files) < n /\ n <= MaxSize
    /\ files' = Resized(n)
    /\ TableDone \/ TableFailed
    /\ UNCHANGED <<open, filesAllocated, handle, given, dead>>

\* Fault: the slot stays in use.
DropKeepsSlot(h) ==
    LET s == handle[h] IN
    /\ ~dead /\ s # 0
    /\ handle' = [handle EXCEPT ![h] = 0]
    /\ given' = [given EXCEPT ![h] = NoFile]
    /\ UpdateDone(s, NoFile)
    /\ UNCHANGED <<open, ring, dead>>

\* FileHandle::drop by the destructor.  It throws when the kernel refuses, and
\* Managed's Dropper is noexcept.
Drop(h) ==
    LET s == handle[h] IN
    /\ ~dead /\ s # 0
    /\ SetFile(files, s, None)
    /\ handle' = [handle EXCEPT ![h] = 0]
    /\ given' = [given EXCEPT ![h] = NoFile]
    /\ \/ UpdateDone(s, NoFile) /\ UNCHANGED dead
       \/ UpdateFailed(s) /\ dead' = TRUE
    /\ UNCHANGED open

\* Fault: the source keeps its slot.
MoveCopies(a, b) ==
    /\ ~dead /\ handle[a] # 0 /\ handle[b] = 0
    /\ handle' = [handle EXCEPT ![b] = handle[a]]
    /\ given' = [given EXCEPT ![b] = given[a]]
    /\ UNCHANGED <<open, ring, ktab, trouble, dead>>

\* Move assignment of a FileHandle to an empty one: the slot changes hands.
\* (To one that holds a slot: Drop, then this.)
Move(a, b) ==
    /\ ~dead /\ handle[a] # 0 /\ handle[b] = 0
    /\ handle' = [handle EXCEPT ![a] = 0, ![b] = handle[a]]
    /\ given' = [given EXCEPT ![a] = NoFile, ![b] = given[a]]
    /\ UNCHANGED <<open, ring, ktab, trouble, dead>>

Next ==
    \/ \E f \in Fds, x \in OpenFiles : OpenFd(f, x)
    \/ \E f \in Fds : CloseFd(f)
    \/ \E h \in Holders, f \in Fds : RegisterFree(h, f) \/ RegisterGrow(h, f)
    \/ \E num \in 0 .. MaxReserve : Reserve(num)
    \/ \E h \in Holders : Drop(h)
    \/ \E a, b \in Holders : Move(a, b)

Spec == Init /\ [][Next]_vars

-----------------------------------------------------------------------------
(* Properties *)

\* The type of the state.
TypeOK ==
    /\ open \in [Fds -> OpenFiles \cup {NoFile}]
    /\ files \in Seq(Fds \cup {None})
    /\ filesAllocated \in Int
    /\ ktab \in Seq(OpenFiles \cup {NoFile})
    /\ handle \in [Holders -> Nat]
    /\ given \in [Holders -> OpenFiles \cup {NoFile}]
    /\ trouble \in BOOLEAN /\ dead \in BOOLEAN

\* No two handles share a slot, and the slot of a handle is in use, whatever
\* calls of the kernel failed: otherwise dropping one handle would unregister
\* the file of another.
HandlesDistinct ==
    /\ \A h \in Holders : handle[h] # 0 =>
          handle[h] \in DOMAIN files /\ files[handle[h]] # None
    /\ \A g, h \in Holders : handle[g] = handle[h] /\ handle[g] # 0 => g = h

\* In a state of the right type, filesAllocated counts the slots in use, whatever
\* calls failed and however often they did; reserveFiles relies on it.
AllocatedCount ==
    /\ TypeOK
    /\ filesAllocated = Cardinality(UsedSlots(files))

\* While the kernel refuses nothing, no slot is lost: each one in use belongs to
\* a handle, which will free it ("re-used if invalidated",
\* test/io_uring.cpp:245).
SlotsOwned ==
    trouble \/ \A s \in UsedSlots(files) : \E h \in Holders : handle[h] = s

Keeps(h) == handle[h] \in DOMAIN ktab /\ ktab[handle[h]] = given[h]

\* What the kernel has is what it would have if the numbers in `files' were
\* registered now.
TableCurrent ==
    /\ DOMAIN ktab = DOMAIN files
    /\ \A s \in UsedSlots(files) : open[files[s]] # NoFile
    /\ \A s \in DOMAIN files :
          ktab[s] = IF files[s] = None THEN NoFile ELSE open[files[s]]

\* A handle's slot stands for the same file until it is dropped, however often
\* the table is registered anew, while the descriptors it lists stay open: the
\* table of the kernel and that of the ring never get out of step.
HandleKeepsFile ==
    trouble \/ (TableCurrent /\ \A h \in Holders : handle[h] # 0 => Keeps(h))

\* Dropping a handle does not end the program, while the kernel refuses nothing.
NeverTerminates == dead => trouble

\* After reserveFiles(num) returns, num descriptors can be registered without
\* registering the table anew ("Reserves an additional number of file
\* descriptor slots", io_uring.hpp:60).
ReserveEnough ==
    [][\A num \in 0 .. MaxReserve :
          Reserve(num) => Cardinality(FreeSlots(files')) >= num]_vars

\* What every step preserves, and the invariants above follow from: none of them
\* is inductive alone, since a slot is given back by its handle and counted when
\* it was in use, and a table that is registered anew is made of the numbers.
IInv ==
    /\ AllocatedCount
    /\ HandlesDistinct
    /\ SlotsOwned
    /\ HandleKeepsFile
    /\ NeverTerminates

=============================================================================
