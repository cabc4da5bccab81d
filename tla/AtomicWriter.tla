----------------------------- MODULE AtomicWriter -----------------------------
(***************************************************************************)
(* stdplus::fd::AtomicWriter (src/fd/atomic.cpp): a file is written    *)
(* under a temporary name and renamed over its target.                     *)
(*                                                                         *)
(* Several writers work at a time, each in a thread of its own, and their  *)
(* commits interleave system call by system call.  Any call may fail, the  *)
(* process may be killed and the machine may lose power, after which the   *)
(* program starts again.  A file system keeps its directories and modes on *)
(* disk as of some earlier time (Flush), in order, as a journal does; the  *)
(* content of a file is safe only when it was synced.                      *)
(***************************************************************************)
EXTENDS Integers, FiniteSets, Functions

CONSTANTS
    Writers,    \* AtomicWriter objects
    Targets,    \* their file names
    Names,      \* temporary names, which mkstemp picks and may pick again
    CrossNames, \* those on another file system than the targets
    Inodes,     \* files
    NoName,     \* the empty name
    NoFile,     \* the file of a name that does not exist
    Fails       \* the calls that may fail: fsync, fchmod, close, rename,
                \* copy, remove

ASSUME CrossAssumption == CrossNames \subseteq Names
ASSUME NoneAssumption == NoName \notin Names /\ NoFile \notin Inodes
ASSUME FailsAssumption ==
    Fails \subseteq {"fsync", "fchmod", "close", "rename", "copy", "remove"}

VARIABLES
    pc,      \* what each writer does: "none", "ready", or a call of commit
    tmpname, \* its temporary name
    filename,\* its target
    fd,      \* the file it has open, or NoFile
    out,     \* the target that its commit is copying to, or NoFile
    tmp,     \* the files of the temporary names
    target,  \* the files of the targets
    full,    \* files with everything the program wants in them
    synced,  \* files whose content is on disk
    public,  \* files with the mode the program asked for
    disk,    \* tmp, target and public as they are on disk
    copied,  \* history: files that were made by copying
    given    \* history: files whose writer is gone and did not clean up

objs == <<pc, tmpname, filename, fd, out>>
files == <<tmp, target, full, synced, public, disk>>
ghosts == <<copied, given>>
vars == <<objs, files, ghosts>>

Steps == {"fsync", "fchmod", "close", "rename", "copy", "copying"}
OnDisk == [tmp |-> tmp, target |-> target, public |-> public]
Unused(i) ==
    i \notin Range(tmp) \cup Range(target) \cup Range(fd) \cup Range(out)
               \cup Range(disk.tmp) \cup Range(disk.target)

-----------------------------------------------------------------------------
Init ==
    /\ pc = [w \in Writers |-> "none"]
    /\ tmpname = [w \in Writers |-> NoName]
    /\ filename \in {[w \in Writers |-> t] : t \in Targets}
    /\ fd = [w \in Writers |-> NoFile]
    /\ out = [w \in Writers |-> NoFile]
    /\ tmp = [n \in Names |-> NoFile]
    /\ target \in {f \in [Targets -> Inodes \cup {NoFile}] :
                     \A t, u \in Targets : f[t] = f[u] => t = u \/ f[t] = NoFile}
    /\ full = Range(target) \ {NoFile} /\ synced = full /\ public = full
    /\ disk = OnDisk
    /\ copied = {} /\ given = {}

\* The constructor, with mktemp.
Create(w, n, t, i) ==
    /\ pc[w] = "none" /\ tmp[n] = NoFile /\ Unused(i)
    /\ pc' = [pc EXCEPT ![w] = "ready"]
    /\ tmpname' = [tmpname EXCEPT ![w] = n]
    /\ filename' = [filename EXCEPT ![w] = t]
    /\ fd' = [fd EXCEPT ![w] = i]
    /\ tmp' = [tmp EXCEPT ![n] = i]
    /\ full' = full \ {i} /\ synced' = synced \ {i} /\ public' = public \ {i}
    /\ copied' = copied \ {i} /\ given' = given \ {i}
    /\ UNCHANGED <<out, target, disk>>

\* The program writes what it has to write.
WriteAll(w) ==
    /\ pc[w] = "ready" /\ fd[w] # NoFile
    /\ full' = full \cup {fd[w]}
    /\ UNCHANGED <<objs, tmp, target, synced, public, disk, ghosts>>

\* The process ends with its writers (std::terminate, or killed), which leave
\* the temporary files they have.
ProcessEnds ==
    /\ pc' = [w \in Writers |-> "none"]
    /\ tmpname' = [w \in Writers |-> NoName]
    /\ fd' = [w \in Writers |-> NoFile]
    /\ out' = [w \in Writers |-> NoFile]
    /\ given' = given \cup (Range(tmp) \ {NoFile})
    /\ UNCHANGED <<filename, files, copied>>

\* cleanup, and what the writer goes on with.  It closes and removes only what
\* has a name; that the remove fails is ignored, and that the close fails ends
\* the program.
Cleanup(w, next) ==
    LET n == tmpname[w] IN
    \/ /\ pc' = [pc EXCEPT ![w] = next]
       /\ tmpname' = [tmpname EXCEPT ![w] = NoName]
       /\ fd' = [fd EXCEPT ![w] = NoFile]
       /\ out' = [out EXCEPT ![w] = NoFile]
       /\ \/ /\ tmp' = [m \in Names |-> IF m = n THEN NoFile ELSE tmp[m]]
             /\ UNCHANGED given
          \/ /\ "remove" \in Fails /\ n # NoName
             /\ given' = given \cup {tmp[n]}
             /\ UNCHANGED tmp
       /\ UNCHANGED <<filename, target, full, synced, public, disk, copied>>
    \/ /\ "close" \in Fails /\ fd[w] # NoFile
       /\ ProcessEnds

\* Fault: the destructor leaves the members to their own destructors.
DestroyMembers(w) ==
    /\ pc[w] = "ready"
    /\ pc' = [pc EXCEPT ![w] = "none"]
    /\ tmpname' = [tmpname EXCEPT ![w] = NoName]
    /\ fd' = [fd EXCEPT ![w] = NoFile]
    /\ UNCHANGED <<filename, out, files, ghosts>>

Destroy(w) ==
    /\ pc[w] = "ready"
    /\ Cleanup(w, "none")

\* Fault: the source keeps the name, and cleans up twice.
MoveConstructKeepsName(w, v) ==
    /\ pc[w] = "none" /\ pc[v] = "ready"
    /\ pc' = [pc EXCEPT ![w] = "ready"]
    /\ tmpname' = [tmpname EXCEPT ![w] = tmpname[v]]
    /\ filename' = [filename EXCEPT ![w] = filename[v]]
    /\ fd' = [fd EXCEPT ![w] = fd[v], ![v] = NoFile]
    /\ UNCHANGED <<out, files, ghosts>>

\* The moves.  Assignment closes the descriptor that the writer has, and forgets
\* the name that goes with it.
MoveConstruct(w, v) ==
    /\ pc[w] = "none" /\ pc[v] = "ready"
    /\ pc' = [pc EXCEPT ![w] = "ready"]
    /\ tmpname' = [tmpname EXCEPT ![w] = tmpname[v], ![v] = NoName]
    /\ filename' = [filename EXCEPT ![w] = filename[v]]
    /\ fd' = [fd EXCEPT ![w] = fd[v], ![v] = NoFile]
    /\ UNCHANGED <<out, files, ghosts>>

MoveAssign(w, v) ==
    /\ w # v /\ pc[w] = "ready" /\ pc[v] = "ready"
    /\ \/ /\ tmpname' = [tmpname EXCEPT ![w] = tmpname[v], ![v] = NoName]
          /\ filename' = [filename EXCEPT ![w] = filename[v]]
          /\ fd' = [fd EXCEPT ![w] = fd[v], ![v] = NoFile]
          /\ given' = IF tmpname[w] = NoName THEN given ELSE given \cup {tmp[tmpname[w]]}
          /\ UNCHANGED <<pc, out, files, copied>>
       \/ /\ "close" \in Fails /\ fd[w] # NoFile
          /\ ProcessEnds

-----------------------------------------------------------------------------
(* commit, one system call at a time *)

\* Fault: commit does not sync.
CommitUnsynced(w) ==
    /\ pc[w] = "ready" /\ fd[w] \in full
    /\ pc' = [pc EXCEPT ![w] = "fchmod"]
    /\ UNCHANGED <<tmpname, filename, fd, out, files, ghosts>>

\* The program commits what it has written; a writer that has nothing open, since
\* it committed or was moved from, throws out of get.
Commit(w) ==
    /\ pc[w] = "ready"
    /\ \/ /\ fd[w] \in full
          /\ pc' = [pc EXCEPT ![w] = "fsync"]
          /\ UNCHANGED <<tmpname, filename, fd, out, files, ghosts>>
       \/ /\ fd[w] = NoFile
          /\ Cleanup(w, "ready")

Advance(w, step) == pc' = [pc EXCEPT ![w] = step]

\* A call of commit throws: catch (...) cleans up.
Throw(w, call) ==
    /\ call \in Fails
    /\ pc[w] = call \/ (pc[w] = "copying" /\ call = "copy")
    /\ Cleanup(w, "ready")

Fsync(w) ==
    /\ pc[w] = "fsync" /\ Advance(w, "fchmod")
    /\ synced' = synced \cup {fd[w]}
    /\ UNCHANGED <<tmpname, filename, fd, out, tmp, target, full, public, disk, ghosts>>

Fchmod(w) ==
    /\ pc[w] = "fchmod" /\ Advance(w, "close")
    /\ public' = public \cup {fd[w]}
    /\ UNCHANGED <<tmpname, filename, fd, out, tmp, target, full, synced, disk, ghosts>>

Close(w) ==
    /\ pc[w] = "close"
    /\ \/ /\ Advance(w, "rename")
          /\ fd' = [fd EXCEPT ![w] = NoFile]
          /\ UNCHANGED <<tmpname, filename, out, files, ghosts>>
       \/ /\ "close" \in Fails
          /\ ProcessEnds

Rename(w, allow_copy) ==
    LET n == tmpname[w] IN
    /\ pc[w] = "rename"
    /\ \/ /\ n \notin CrossNames /\ Advance(w, "ready")
          /\ target' = [target EXCEPT ![filename[w]] = tmp[n]]
          /\ tmp' = [tmp EXCEPT ![n] = NoFile]
          /\ tmpname' = [tmpname EXCEPT ![w] = NoName]
          /\ UNCHANGED <<filename, fd, out, full, synced, public, disk, ghosts>>
       \/ /\ n \in CrossNames /\ allow_copy /\ Advance(w, "copy")
          /\ UNCHANGED <<tmpname, filename, fd, out, files, ghosts>>
       \/ /\ n \in CrossNames /\ ~allow_copy
          /\ Cleanup(w, "ready")

\* Fault: copy_options::overwrite_existing.
CopyStartOver(w, i) ==
    /\ pc[w] = "copy" /\ Unused(i)
    /\ pc' = [pc EXCEPT ![w] = "copying"]
    /\ target' = [target EXCEPT ![filename[w]] = i]
    /\ out' = [out EXCEPT ![w] = i]
    /\ full' = full \ {i} /\ synced' = synced \ {i}
    /\ public' = public \cup {i}
    /\ copied' = copied \cup {i}
    /\ given' = given \ {i}
    /\ UNCHANGED <<tmpname, filename, fd, tmp, disk>>

\* std::filesystem::copy makes the target, which must not exist, and then fills
\* it.  The temporary file stays for the destructor.
CopyStart(w, i) ==
    /\ pc[w] = "copy"
    /\ IF target[filename[w]] # NoFile
       THEN Cleanup(w, "ready")
       ELSE /\ Unused(i) /\ Advance(w, "copying")
            /\ target' = [target EXCEPT ![filename[w]] = i]
            /\ out' = [out EXCEPT ![w] = i]
            /\ full' = full \ {i} /\ synced' = synced \ {i}
            /\ public' = public \cup {i}
            /\ copied' = copied \cup {i}
            /\ given' = given \ {i}
            /\ UNCHANGED <<tmpname, filename, fd, tmp, disk>>

CopyFill(w) ==
    /\ pc[w] = "copying" /\ Advance(w, "ready")
    /\ full' = full \cup {out[w]}
    /\ out' = [out EXCEPT ![w] = NoFile]
    /\ UNCHANGED <<tmpname, filename, fd, tmp, target, synced, public, disk, ghosts>>

-----------------------------------------------------------------------------
(* The world outside *)

Flush ==
    /\ disk' = OnDisk
    /\ UNCHANGED <<objs, tmp, target, full, synced, public, ghosts>>

Killed == ProcessEnds

PowerLoss ==
    /\ pc' = [w \in Writers |-> "none"]
    /\ tmpname' = [w \in Writers |-> NoName]
    /\ fd' = [w \in Writers |-> NoFile]
    /\ out' = [w \in Writers |-> NoFile]
    /\ tmp' = disk.tmp /\ target' = disk.target /\ public' = disk.public
    /\ \E kept \in SUBSET (full \ synced) : full' = (full \cap synced) \cup kept
    /\ synced' = full'
    /\ given' = given \cup (Range(disk.tmp) \ {NoFile})
    /\ UNCHANGED <<filename, disk, copied>>

Next ==
    \/ \E w \in Writers, n \in Names, t \in Targets, i \in Inodes : Create(w, n, t, i)
    \/ \E w \in Writers :
          \/ WriteAll(w) \/ Destroy(w) \/ Commit(w)
          \/ \E v \in Writers : MoveConstruct(w, v) \/ MoveAssign(w, v)
          \/ \E call \in {"fsync", "fchmod", "rename", "copy"} : Throw(w, call)
          \/ Fsync(w) \/ Fchmod(w) \/ Close(w)
          \/ \E allow_copy \in BOOLEAN : Rename(w, allow_copy)
          \/ \E i \in Inodes : CopyStart(w, i)
          \/ CopyFill(w)
    \/ Flush \/ Killed \/ PowerLoss

Spec == Init /\ [][Next]_vars

-----------------------------------------------------------------------------
(* Properties *)

\* The type of the state.
TypeOK ==
    /\ pc \in [Writers -> Steps \cup {"none", "ready"}]
    /\ tmpname \in [Writers -> Names \cup {NoName}]
    /\ filename \in [Writers -> Targets]
    /\ fd \in [Writers -> Inodes \cup {NoFile}]
    /\ out \in [Writers -> Inodes \cup {NoFile}]
    /\ tmp \in [Names -> Inodes \cup {NoFile}]
    /\ target \in [Targets -> Inodes \cup {NoFile}]
    /\ \A s \in {full, synced, public, copied, given} : s \subseteq Inodes
    /\ disk \in [tmp : [Names -> Inodes \cup {NoFile}],
                 target : [Targets -> Inodes \cup {NoFile}],
                 public : SUBSET Inodes]

\* What each call of a commit relies on: a file is full from the first of them,
\* and synced, public and the writer's when it is renamed.
CommitInOrder ==
    \A w \in Writers :
        /\ pc[w] \in {"fsync", "fchmod", "close"} => fd[w] \in full
        /\ pc[w] \in {"fchmod", "close"} => fd[w] \in synced
        /\ pc[w] = "close" => fd[w] \in public
        /\ pc[w] = "rename" =>
              /\ fd[w] = NoFile /\ tmpname[w] # NoName
              /\ tmp[tmpname[w]] \in full \cap synced \cap public
        /\ pc[w] = "copying" => out[w] # NoFile

\* Whoever opens a target, at any time, also after the machine lost power, finds
\* the whole content and the right mode of some commit, or nothing.  Only a file
\* that was made by copying may be found in part.  For this to outlive a loss of
\* power it is so on disk, and what is there is synced.
TargetWhole ==
    /\ CommitInOrder
    /\ \A t \in Targets :
          /\ target[t] \notin {NoFile} \cup copied =>
                target[t] \in full \cap synced \cap public
          /\ disk.target[t] \notin {NoFile} \cup copied =>
                disk.target[t] \in full \cap synced \cap disk.public

\* A whole target stays until another whole file takes its place: a commit that
\* falls back to copying does not touch what is there.
ReplacedWhole ==
    [][\A t \in Targets :
          target[t] \in full => target'[t] \in full' \/ target' = disk.target]_vars

\* A temporary file is its writer's alone, although names are given out again:
\* nobody else removes or renames it, and what a writer writes to has a name.
OwnTmp ==
    /\ TypeOK
    /\ \A w \in Writers :
          /\ pc[w] = "none" => tmpname[w] = NoName
          /\ fd[w] # NoFile => tmpname[w] # NoName /\ tmp[tmpname[w]] = fd[w]
          /\ tmpname[w] # NoName =>
                /\ tmp[tmpname[w]] # NoFile
                /\ \A v \in Writers : tmpname[v] = tmpname[w] => v = w

\* No temporary file is left behind, but by a process that ended, by a remove
\* that failed, and by an assignment to a writer that had one.
NoStale ==
    \A n \in Names :
        tmp[n] \notin {NoFile} \cup given => \E w \in Writers : tmpname[w] = n

\* Together they are kept by every step.
IInv == OwnTmp /\ TargetWhole /\ NoStale

=============================================================================
