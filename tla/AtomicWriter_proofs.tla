------------------------- MODULE AtomicWriter_proofs -------------------------
(***************************************************************************)
(* Proofs that AtomicWriter replaces its target whole or not at all and    *)
(* cleans up after itself, for any writers, targets, names and files and   *)
(* any calls that fail.                                                    *)
(***************************************************************************)
EXTENDS AtomicWriter, TLAPS

-----------------------------------------------------------------------------
(* What the actions have in common *)

\* mkstemp and the copy make files that nothing refers to yet.
LEMMA UnusedIsNew ==
    ASSUME TypeOK, NEW i \in Inodes, Unused(i)
    PROVE  /\ \A n \in Names : tmp[n] # i /\ disk.tmp[n] # i
           /\ \A t \in Targets : target[t] # i /\ disk.target[t] # i
           /\ \A w \in Writers : fd[w] # i /\ out[w] # i
BY DEF TypeOK, Unused, Range

LEMMA RangeOfTmp ==
    ASSUME TypeOK
    PROVE  /\ \A n \in Names : tmp[n] \in Range(tmp) /\ disk.tmp[n] \in Range(disk.tmp)
           /\ Range(tmp) \ {NoFile} \subseteq Inodes
           /\ Range(disk.tmp) \ {NoFile} \subseteq Inodes
BY DEF TypeOK, Range

\* Only what a writer has in its hands can fall to anybody: a process that ends
\* leaves all there is, and targets stay as they are.
LEMMA ProcessEndsStep ==
    ASSUME IInv, ProcessEnds
    PROVE  IInv'
<1>1. TypeOK
  BY DEF IInv, OwnTmp
<1>2. \A w \in Writers : pc'[w] = "none" /\ tmpname'[w] = NoName /\ fd'[w] = NoFile
  BY DEF ProcessEnds
<1>3. UNCHANGED <<filename, tmp, target, full, synced, public, disk, copied>>
  BY DEF ProcessEnds, files
<1>4. \A n \in Names : tmp[n] # NoFile => tmp[n] \in given'
  BY <1>1, RangeOfTmp DEF ProcessEnds
<1>5. TypeOK'
  <2>1. given' \subseteq Inodes
    BY <1>1, RangeOfTmp DEF ProcessEnds, TypeOK
  <2> QED BY <1>1, <1>3, <2>1 DEF ProcessEnds, TypeOK
<1>6. OwnTmp'
  BY <1>2, <1>5 DEF OwnTmp
<1>7. TargetWhole'
  BY <1>2, <1>3 DEF IInv, TargetWhole, CommitInOrder
<1>8. NoStale'
  BY <1>3, <1>4 DEF NoStale
<1> QED BY <1>6, <1>7, <1>8 DEF IInv

\* A writer that cleans up touches no temporary file but its own, and none is
\* left but one that could not be removed.
LEMMA CleanupStep ==
    ASSUME IInv, NEW w \in Writers, NEW next \in {"none", "ready"}, Cleanup(w, next)
    PROVE  IInv'
<1> DEFINE n == tmpname[w]
<1>1. TypeOK
  BY DEF IInv, OwnTmp
<1>2. CASE ProcessEnds
  BY <1>2, ProcessEndsStep
<1>3. CASE /\ pc' = [pc EXCEPT ![w] = next]
           /\ tmpname' = [tmpname EXCEPT ![w] = NoName]
           /\ fd' = [fd EXCEPT ![w] = NoFile]
           /\ out' = [out EXCEPT ![w] = NoFile]
           /\ \/ /\ tmp' = [m \in Names |-> IF m = n THEN NoFile ELSE tmp[m]]
                 /\ UNCHANGED given
              \/ /\ n # NoName
                 /\ given' = given \cup {tmp[n]}
                 /\ UNCHANGED tmp
           /\ UNCHANGED <<filename, target, full, synced, public, disk, copied>>
  <2>1. \A v \in Writers :
           /\ pc'[v] = IF v = w THEN next ELSE pc[v]
           /\ tmpname'[v] = IF v = w THEN NoName ELSE tmpname[v]
           /\ fd'[v] = IF v = w THEN NoFile ELSE fd[v]
           /\ out'[v] = IF v = w THEN NoFile ELSE out[v]
    BY <1>1, <1>3 DEF TypeOK
  <2>2. \A v \in Writers : v # w /\ tmpname[v] # NoName => tmpname[v] # n
    BY DEF IInv, OwnTmp
  <2>3. \A m \in Names : tmp'[m] = tmp[m] \/ (m = n /\ tmp'[m] = NoFile)
    BY <1>3
  <2>4. \A v \in Writers : v # w /\ tmpname[v] # NoName =>
           tmp'[tmpname[v]] = tmp[tmpname[v]]
    BY <1>1, <2>2, <2>3 DEF TypeOK
  <2>5. n # NoName => n \in Names /\ tmp[n] \in Inodes
    BY <1>1 DEF IInv, OwnTmp, TypeOK
  <2>6. TypeOK'
    <3>1. tmp' \in [Names -> Inodes \cup {NoFile}]
      BY <1>1, <1>3 DEF TypeOK
    <3>2. given' \subseteq Inodes
      BY <1>1, <1>3, <2>5 DEF TypeOK
    <3>3. pc' \in [Writers -> Steps \cup {"none", "ready"}]
      BY <1>1, <1>3 DEF TypeOK
    <3> QED BY <1>1, <1>3, <3>1, <3>2, <3>3 DEF TypeOK
  <2>7. OwnTmp'
    BY <2>1, <2>4, <2>6 DEF IInv, OwnTmp
  <2>8. TargetWhole'
    <3>1. CommitInOrder'
      BY <1>3, <2>1, <2>4 DEF IInv, TargetWhole, CommitInOrder
    <3> QED BY <1>3, <3>1 DEF IInv, TargetWhole
  <2>9. NoStale'
    <3> SUFFICES ASSUME NEW m \in Names, tmp'[m] \notin {NoFile} \cup given'
                 PROVE  \E v \in Writers : tmpname'[v] = m
      BY DEF NoStale
    <3>1. m # n /\ tmp'[m] = tmp[m] /\ tmp[m] \notin {NoFile} \cup given
      BY <1>3, <2>3
    <3>2. PICK v \in Writers : tmpname[v] = m
      BY <3>1 DEF IInv, NoStale
    <3> QED BY <2>1, <3>1, <3>2
  <2> QED BY <2>7, <2>8, <2>9 DEF IInv
<1> QED BY <1>2, <1>3 DEF Cleanup

-----------------------------------------------------------------------------
(* The steps *)

LEMMA InitHolds == Init => IInv
<1> SUFFICES ASSUME Init PROVE IInv
  OBVIOUS
<1>1. /\ target \in [Targets -> Inodes \cup {NoFile}]
      /\ full = Range(target) \ {NoFile} /\ synced = full /\ public = full
      /\ disk = OnDisk
  BY DEF Init
<1>2. full \subseteq Inodes /\ \A t \in Targets : target[t] # NoFile => target[t] \in full
  BY <1>1 DEF Range
<1>3. disk.tmp = tmp /\ disk.target = target /\ disk.public = public
  BY <1>1 DEF OnDisk
<1>4. TypeOK
  <2>1. /\ pc \in [Writers -> Steps \cup {"none", "ready"}]
        /\ tmpname \in [Writers -> Names \cup {NoName}]
        /\ filename \in [Writers -> Targets]
        /\ tmp \in [Names -> Inodes \cup {NoFile}]
    BY DEF Init
  <2>2. \A s \in {full, synced, public, copied, given} : s \subseteq Inodes
    BY <1>1, <1>2 DEF Init
  <2>3. disk \in [tmp : [Names -> Inodes \cup {NoFile}],
                  target : [Targets -> Inodes \cup {NoFile}],
                  public : SUBSET Inodes]
    BY <1>1, <2>1, <2>2 DEF OnDisk
  <2> QED BY <1>1, <2>1, <2>2, <2>3 DEF Init, TypeOK
<1>5. OwnTmp
  BY <1>4 DEF Init, OwnTmp
<1>6. TargetWhole
  BY <1>1, <1>2, <1>3 DEF Init, TargetWhole, CommitInOrder
<1>7. NoStale
  BY DEF Init, NoStale
<1> QED BY <1>5, <1>6, <1>7 DEF IInv

LEMMA CreateStep ==
    ASSUME IInv, NEW w \in Writers, NEW n \in Names, NEW t \in Targets,
           NEW i \in Inodes, Create(w, n, t, i)
    PROVE  IInv'
<1>1. TypeOK /\ Unused(i) /\ pc[w] = "none" /\ tmp[n] = NoFile
  BY DEF IInv, OwnTmp, Create
<1>2. /\ \A m \in Names : tmp[m] # i
      /\ \A u \in Targets : target[u] # i /\ disk.target[u] # i
      /\ \A v \in Writers : fd[v] # i
  BY <1>1, UnusedIsNew
<1>3. \A v \in Writers :
         /\ pc'[v] = IF v = w THEN "ready" ELSE pc[v]
         /\ tmpname'[v] = IF v = w THEN n ELSE tmpname[v]
         /\ fd'[v] = IF v = w THEN i ELSE fd[v]
  BY <1>1 DEF Create, TypeOK
<1>4. \A m \in Names : tmp'[m] = IF m = n THEN i ELSE tmp[m]
  BY <1>1 DEF Create, TypeOK
<1>5. /\ full' = full \ {i} /\ synced' = synced \ {i} /\ public' = public \ {i}
      /\ copied' = copied \ {i} /\ given' = given \ {i}
      /\ UNCHANGED <<out, target, disk>>
  BY DEF Create
<1>6. i # NoFile /\ n # NoName
  BY NoneAssumption
<1>7. \A v \in Writers : tmpname[v] # NoName => tmpname[v] \in Names \ {n}
  BY <1>1 DEF IInv, OwnTmp, TypeOK
<1>8. TypeOK'
  <2>1. /\ pc' \in [Writers -> Steps \cup {"none", "ready"}]
        /\ tmpname' \in [Writers -> Names \cup {NoName}]
        /\ filename' \in [Writers -> Targets]
        /\ fd' \in [Writers -> Inodes \cup {NoFile}]
        /\ tmp' \in [Names -> Inodes \cup {NoFile}]
    BY <1>1 DEF Create, TypeOK
  <2>2. \A s \in {full', synced', public', copied', given'} : s \subseteq Inodes
    BY <1>1, <1>5 DEF TypeOK
  <2> QED BY <1>1, <1>5, <2>1, <2>2 DEF TypeOK
<1>9. OwnTmp'
  BY <1>1, <1>3, <1>4, <1>6, <1>7, <1>8 DEF IInv, OwnTmp
<1>10. TargetWhole'
  <2>1. CommitInOrder'
    BY <1>1, <1>2, <1>3, <1>4, <1>5, <1>7 DEF IInv, TargetWhole, CommitInOrder
  <2> QED BY <1>2, <1>5, <2>1 DEF IInv, TargetWhole
<1>11. NoStale'
  <2> SUFFICES ASSUME NEW m \in Names, tmp'[m] \notin {NoFile} \cup given'
               PROVE  \E v \in Writers : tmpname'[v] = m
    BY DEF NoStale
  <2>1. CASE m = n
    BY <1>3, <2>1
  <2>2. CASE m # n
    <3>1. tmp[m] \notin {NoFile} \cup given
      BY <1>2, <1>4, <1>5, <2>2
    <3>2. PICK v \in Writers : tmpname[v] = m
      BY <3>1 DEF IInv, NoStale
    <3>3. v # w
      BY <1>1, <3>2, NoneAssumption DEF IInv, OwnTmp
    <3> QED BY <1>3, <3>2, <3>3
  <2> QED BY <2>1, <2>2
<1> QED BY <1>9, <1>10, <1>11 DEF IInv

\* The steps of a writer that concern its file only: the file gains something,
\* and the writer goes on to what may follow.
LEMMA FileGains ==
    ASSUME IInv, NEW w \in Writers,
           UNCHANGED <<tmpname, filename, fd, out, tmp, target, disk, copied, given>>,
           pc' \in [Writers -> Steps \cup {"none", "ready"}],
           \A v \in Writers : v # w => pc'[v] = pc[v],
           pc'[w] = "none" => pc[w] = "none",
           \A s \in {full', synced', public'} : s \subseteq Inodes,
           full \subseteq full', synced \subseteq synced', public \subseteq public',
           CommitInOrder'
    PROVE  IInv'
<1>1. TypeOK'
  BY DEF IInv, OwnTmp, TypeOK
<1>2. OwnTmp'
  BY <1>1 DEF IInv, OwnTmp
<1>3. TargetWhole'
  BY DEF IInv, TargetWhole
<1>4. NoStale'
  BY DEF IInv, NoStale
<1> QED BY <1>2, <1>3, <1>4 DEF IInv

LEMMA WriteAllStep ==
    ASSUME IInv, NEW w \in Writers, WriteAll(w)
    PROVE  IInv'
<1>1. TypeOK /\ fd[w] \in Inodes
  BY DEF IInv, OwnTmp, TypeOK, WriteAll
<1>2. /\ full' = full \cup {fd[w]}
      /\ UNCHANGED <<objs, tmp, target, synced, public, disk, ghosts>>
  BY DEF WriteAll
<1>3. CommitInOrder'
  BY <1>2 DEF IInv, TargetWhole, CommitInOrder, objs
<1> QED BY <1>1, <1>2, <1>3, FileGains DEF objs, ghosts, TypeOK

LEMMA FsyncStep ==
    ASSUME IInv, NEW w \in Writers, Fsync(w)
    PROVE  IInv'
<1>1. TypeOK /\ pc[w] = "fsync" /\ fd[w] \in full
  BY DEF IInv, OwnTmp, TargetWhole, CommitInOrder, Fsync
<1>2. /\ pc' = [pc EXCEPT ![w] = "fchmod"] /\ synced' = synced \cup {fd[w]}
      /\ UNCHANGED <<tmpname, filename, fd, out, tmp, target, full, public, disk, ghosts>>
  BY DEF Fsync, Advance
<1>3. \A v \in Writers : pc'[v] = IF v = w THEN "fchmod" ELSE pc[v]
  BY <1>1, <1>2 DEF TypeOK
<1>4. pc' \in [Writers -> Steps \cup {"none", "ready"}]
  BY <1>1, <1>2 DEF TypeOK, Steps
<1>5. CommitInOrder'
  BY <1>1, <1>2, <1>3 DEF IInv, TargetWhole, CommitInOrder
<1> QED BY <1>1, <1>2, <1>3, <1>4, <1>5, FileGains DEF ghosts, TypeOK

LEMMA FchmodStep ==
    ASSUME IInv, NEW w \in Writers, Fchmod(w)
    PROVE  IInv'
<1>1. TypeOK /\ pc[w] = "fchmod" /\ fd[w] \in full /\ fd[w] \in synced
  BY DEF IInv, OwnTmp, TargetWhole, CommitInOrder, Fchmod
<1>2. /\ pc' = [pc EXCEPT ![w] = "close"] /\ public' = public \cup {fd[w]}
      /\ UNCHANGED <<tmpname, filename, fd, out, tmp, target, full, synced, disk, ghosts>>
  BY DEF Fchmod, Advance
<1>3. \A v \in Writers : pc'[v] = IF v = w THEN "close" ELSE pc[v]
  BY <1>1, <1>2 DEF TypeOK
<1>4. pc' \in [Writers -> Steps \cup {"none", "ready"}]
  BY <1>1, <1>2 DEF TypeOK, Steps
<1>5. CommitInOrder'
  BY <1>1, <1>2, <1>3 DEF IInv, TargetWhole, CommitInOrder
<1> QED BY <1>1, <1>2, <1>3, <1>4, <1>5, FileGains DEF ghosts, TypeOK

\* What the writer had open is closed, and its name stands for a file that is
\* full, synced and public.
LEMMA CloseStep ==
    ASSUME IInv, NEW w \in Writers, Close(w)
    PROVE  IInv'
<1>1. CASE ProcessEnds
  BY <1>1, ProcessEndsStep
<1>2. CASE /\ pc[w] = "close" /\ pc' = [pc EXCEPT ![w] = "rename"]
           /\ fd' = [fd EXCEPT ![w] = NoFile]
           /\ UNCHANGED <<tmpname, filename, out, files, ghosts>>
  <2>1. TypeOK /\ fd[w] \in full \cap synced \cap public
    BY <1>2 DEF IInv, OwnTmp, TargetWhole, CommitInOrder
  <2>2. fd[w] # NoFile
    BY <2>1, NoneAssumption DEF TypeOK
  <2>3. \A v \in Writers : /\ pc'[v] = IF v = w THEN "rename" ELSE pc[v]
                           /\ fd'[v] = IF v = w THEN NoFile ELSE fd[v]
    BY <1>2, <2>1 DEF TypeOK
  <2>4. TypeOK'
    <3>1. pc' \in [Writers -> Steps \cup {"none", "ready"}]
      BY <1>2, <2>1 DEF TypeOK, Steps
    <3> QED BY <1>2, <2>1, <3>1 DEF TypeOK, files, ghosts
  <2>5. OwnTmp'
    BY <1>2, <2>3, <2>4 DEF IInv, OwnTmp, files
  <2>6. TargetWhole'
    <3>1. CommitInOrder'
      BY <1>2, <2>1, <2>2, <2>3
         DEF IInv, OwnTmp, TargetWhole, CommitInOrder, files
    <3> QED BY <1>2, <3>1 DEF IInv, TargetWhole, files, ghosts
  <2>7. NoStale'
    BY <1>2 DEF IInv, NoStale, files, ghosts
  <2> QED BY <2>5, <2>6, <2>7 DEF IInv
<1> QED BY <1>1, <1>2 DEF Close, Advance

\* A move hands on the temporary file; an assignment gives up the one that the
\* destination had.
LEMMA MoveConstructStep ==
    ASSUME IInv, NEW w \in Writers, NEW v \in Writers, MoveConstruct(w, v)
    PROVE  IInv'
<1>1. TypeOK /\ pc[w] = "none" /\ pc[v] = "ready" /\ tmpname[w] = NoName /\ fd[w] = NoFile
  BY DEF IInv, OwnTmp, MoveConstruct
<1>2. /\ pc' = [pc EXCEPT ![w] = "ready"]
      /\ tmpname' = [tmpname EXCEPT ![w] = tmpname[v], ![v] = NoName]
      /\ filename' = [filename EXCEPT ![w] = filename[v]]
      /\ fd' = [fd EXCEPT ![w] = fd[v], ![v] = NoFile]
      /\ UNCHANGED <<out, files, ghosts>>
  BY DEF MoveConstruct
<1>3. \A u \in Writers :
         /\ pc'[u] = IF u = w THEN "ready" ELSE pc[u]
         /\ tmpname'[u] = IF u = w THEN tmpname[v]
                           ELSE IF u = v THEN NoName ELSE tmpname[u]
         /\ fd'[u] = IF u = w THEN fd[v] ELSE IF u = v THEN NoFile ELSE fd[u]
  BY <1>1, <1>2 DEF TypeOK
<1>4. TypeOK'
  <2>1. pc' \in [Writers -> Steps \cup {"none", "ready"}]
    BY <1>1, <1>2 DEF TypeOK
  <2> QED BY <1>1, <1>2, <2>1 DEF TypeOK, files, ghosts
<1>5. OwnTmp'
  <2>1. tmp' = tmp
    BY <1>2 DEF files
  <2>2. ASSUME NEW u \in Writers
        PROVE  /\ pc'[u] = "none" => tmpname'[u] = NoName
               /\ fd'[u] # NoFile => tmpname'[u] # NoName /\ tmp'[tmpname'[u]] = fd'[u]
               /\ tmpname'[u] # NoName => tmp'[tmpname'[u]] # NoFile
    BY <1>1, <1>3, <2>1 DEF IInv, OwnTmp
  <2>3. ASSUME NEW u \in Writers, tmpname'[u] # NoName, NEW x \in Writers,
               tmpname'[x] = tmpname'[u]
        PROVE  x = u
    BY <1>1, <1>3, <2>3 DEF IInv, OwnTmp
  <2> QED BY <1>4, <2>2, <2>3 DEF OwnTmp
<1>6. TargetWhole'
  <2>1. /\ UNCHANGED <<out, tmp, full, synced, public>>
        /\ \A u \in Writers : u = w \/ u = v => pc'[u] = "ready"
        /\ \A u \in Writers : u # w /\ u # v => UNCHANGED <<pc[u], tmpname[u], fd[u]>>
    BY <1>1, <1>2, <1>3 DEF files
  <2>2. CommitInOrder'
    BY <2>1 DEF IInv, TargetWhole, CommitInOrder
  <2> QED BY <1>2, <2>2 DEF IInv, TargetWhole, files, ghosts
<1>7. NoStale'
  <2> SUFFICES ASSUME NEW m \in Names, tmp[m] \notin {NoFile} \cup given
               PROVE  \E u \in Writers : tmpname'[u] = m
    BY <1>2 DEF NoStale, files, ghosts
  <2>1. PICK u \in Writers : tmpname[u] = m
    BY DEF IInv, NoStale
  <2>2. u # w
    BY <1>1, <2>1, NoneAssumption
  <2> QED BY <1>3, <2>1, <2>2
<1> QED BY <1>5, <1>6, <1>7 DEF IInv

LEMMA MoveAssignStep ==
    ASSUME IInv, NEW w \in Writers, NEW v \in Writers, MoveAssign(w, v)
    PROVE  IInv'
<1>1. CASE ProcessEnds
  BY <1>1, ProcessEndsStep
<1>2. CASE /\ tmpname' = [tmpname EXCEPT ![w] = tmpname[v], ![v] = NoName]
           /\ filename' = [filename EXCEPT ![w] = filename[v]]
           /\ fd' = [fd EXCEPT ![w] = fd[v], ![v] = NoFile]
           /\ given' = IF tmpname[w] = NoName THEN given
                       ELSE given \cup {tmp[tmpname[w]]}
           /\ UNCHANGED <<pc, out, files, copied>>
  <2>1. TypeOK /\ w # v /\ pc[w] = "ready" /\ pc[v] = "ready"
    BY DEF IInv, OwnTmp, MoveAssign
  <2>2. \A u \in Writers :
           /\ tmpname'[u] = IF u = w THEN tmpname[v]
                             ELSE IF u = v THEN NoName ELSE tmpname[u]
           /\ fd'[u] = IF u = w THEN fd[v] ELSE IF u = v THEN NoFile ELSE fd[u]
    BY <1>2, <2>1 DEF TypeOK
  <2>3. given \subseteq given' /\ given' \subseteq Inodes
    BY <1>2, <2>1 DEF IInv, OwnTmp, TypeOK
  <2>4. TypeOK'
    BY <1>2, <2>1, <2>3 DEF TypeOK, files
  <2>5. OwnTmp'
    <3>1. tmp' = tmp /\ pc' = pc
      BY <1>2 DEF files
    <3>2. ASSUME NEW u \in Writers
          PROVE  /\ pc'[u] = "none" => tmpname'[u] = NoName
                 /\ fd'[u] # NoFile => tmpname'[u] # NoName /\ tmp'[tmpname'[u]] = fd'[u]
                 /\ tmpname'[u] # NoName => tmp'[tmpname'[u]] # NoFile
      BY <2>1, <2>2, <3>1 DEF IInv, OwnTmp
    <3>3. ASSUME NEW u \in Writers, tmpname'[u] # NoName, NEW x \in Writers,
                 tmpname'[x] = tmpname'[u]
          PROVE  x = u
      BY <2>1, <2>2, <3>3 DEF IInv, OwnTmp
    <3> QED BY <2>4, <3>2, <3>3 DEF OwnTmp
  <2>6. TargetWhole'
    <3>1. /\ UNCHANGED <<pc, out, tmp, full, synced, public>>
          /\ \A u \in Writers : u # w /\ u # v => UNCHANGED <<tmpname[u], fd[u]>>
      BY <1>2, <2>2 DEF files
    <3>2. CommitInOrder'
      BY <2>1, <3>1 DEF IInv, TargetWhole, CommitInOrder
    <3> QED BY <1>2, <3>2 DEF IInv, TargetWhole, files
  <2>7. NoStale'
    <3> SUFFICES ASSUME NEW m \in Names, tmp[m] \notin {NoFile} \cup given'
                 PROVE  \E u \in Writers : tmpname'[u] = m
      BY <1>2 DEF NoStale, files
    <3>1. PICK u \in Writers : tmpname[u] = m
      BY <2>3 DEF IInv, NoStale
    <3>2. u # w
      BY <1>2, <3>1, NoneAssumption
    <3> QED BY <2>2, <3>1, <3>2
  <2> QED BY <2>5, <2>6, <2>7 DEF IInv
<1> QED BY <1>1, <1>2 DEF MoveAssign

\* A writer that only goes on changes nothing.
LEMMA CommitStep ==
    ASSUME IInv, NEW w \in Writers, Commit(w)
    PROVE  IInv'
<1>1. CASE Cleanup(w, "ready")
  BY <1>1, CleanupStep
<1>2. CASE /\ pc[w] = "ready" /\ fd[w] \in full
           /\ pc' = [pc EXCEPT ![w] = "fsync"]
           /\ UNCHANGED <<tmpname, filename, fd, out, files, ghosts>>
  <2>1. TypeOK
    BY DEF IInv, OwnTmp
  <2>2. \A v \in Writers : pc'[v] = IF v = w THEN "fsync" ELSE pc[v]
    BY <1>2, <2>1 DEF TypeOK
  <2>3. pc' \in [Writers -> Steps \cup {"none", "ready"}]
    BY <1>2, <2>1 DEF TypeOK, Steps
  <2>4. CommitInOrder'
    BY <1>2, <2>2 DEF IInv, TargetWhole, CommitInOrder, files
  <2> QED BY <1>2, <2>1, <2>2, <2>3, <2>4, FileGains DEF files, ghosts, TypeOK
<1> QED BY <1>1, <1>2 DEF Commit

\* The target becomes the writer's file, which is whole, and its name is gone.
LEMMA RenameStep ==
    ASSUME IInv, NEW w \in Writers, NEW allow_copy \in BOOLEAN,
           Rename(w, allow_copy)
    PROVE  IInv'
<1> DEFINE n == tmpname[w]
<1>1. TypeOK /\ pc[w] = "rename" /\ n \in Names
      /\ tmp[n] \in full \cap synced \cap public
  BY DEF IInv, OwnTmp, TargetWhole, CommitInOrder, Rename, TypeOK
<1>2. CASE Cleanup(w, "ready")
  BY <1>2, CleanupStep
<1>3. CASE /\ pc' = [pc EXCEPT ![w] = "copy"]
           /\ UNCHANGED <<tmpname, filename, fd, out, files, ghosts>>
  <2>1. \A v \in Writers : pc'[v] = IF v = w THEN "copy" ELSE pc[v]
    BY <1>1, <1>3 DEF TypeOK
  <2>2. pc' \in [Writers -> Steps \cup {"none", "ready"}]
    BY <1>1, <1>3 DEF TypeOK, Steps
  <2>3. CommitInOrder'
    BY <1>3, <2>1 DEF IInv, TargetWhole, CommitInOrder, files
  <2> QED BY <1>1, <1>3, <2>1, <2>2, <2>3, FileGains DEF files, ghosts, TypeOK
<1>4. CASE /\ pc' = [pc EXCEPT ![w] = "ready"]
           /\ target' = [target EXCEPT ![filename[w]] = tmp[n]]
           /\ tmp' = [tmp EXCEPT ![n] = NoFile]
           /\ tmpname' = [tmpname EXCEPT ![w] = NoName]
           /\ UNCHANGED <<filename, fd, out, full, synced, public, disk, ghosts>>
  <2>1. \A v \in Writers : /\ pc'[v] = IF v = w THEN "ready" ELSE pc[v]
                           /\ tmpname'[v] = IF v = w THEN NoName ELSE tmpname[v]
    BY <1>1, <1>4 DEF TypeOK
  <2>2. \A m \in Names : tmp'[m] = IF m = n THEN NoFile ELSE tmp[m]
    BY <1>1, <1>4 DEF TypeOK
  <2>3. \A t \in Targets : target'[t] = target[t] \/ target'[t] = tmp[n]
    BY <1>1, <1>4 DEF TypeOK
  <2>4. \A v \in Writers : v # w /\ tmpname[v] # NoName =>
           tmpname[v] \in Names \ {n}
    BY <1>1 DEF IInv, OwnTmp, TypeOK
  <2>5. TypeOK'
    <3>1. pc' \in [Writers -> Steps \cup {"none", "ready"}]
      BY <1>1, <1>4 DEF TypeOK
    <3> QED BY <1>1, <1>4, <3>1 DEF TypeOK, ghosts
  <2>6. fd[w] = NoFile
    BY <1>1 DEF IInv, TargetWhole, CommitInOrder
  <2>7. OwnTmp'
    <3>1. ASSUME NEW u \in Writers
          PROVE  /\ pc'[u] = "none" => tmpname'[u] = NoName
                 /\ fd'[u] # NoFile => tmpname'[u] # NoName /\ tmp'[tmpname'[u]] = fd'[u]
                 /\ tmpname'[u] # NoName => tmp'[tmpname'[u]] # NoFile
      BY <1>4, <2>1, <2>2, <2>4, <2>6 DEF IInv, OwnTmp
    <3>2. ASSUME NEW u \in Writers, tmpname'[u] # NoName, NEW x \in Writers,
                 tmpname'[x] = tmpname'[u]
          PROVE  x = u
      BY <2>1, <3>2 DEF IInv, OwnTmp
    <3> QED BY <2>5, <3>1, <3>2 DEF OwnTmp
  <2>8. TargetWhole'
    <3>1. CommitInOrder'
      BY <1>4, <2>1, <2>2, <2>4 DEF IInv, TargetWhole, CommitInOrder
    <3> QED BY <1>1, <1>4, <2>3, <3>1 DEF IInv, TargetWhole, ghosts
  <2>9. NoStale'
    <3> SUFFICES ASSUME NEW m \in Names, tmp'[m] \notin {NoFile} \cup given
                 PROVE  \E v \in Writers : tmpname'[v] = m
      BY <1>4 DEF NoStale, ghosts
    <3>1. m # n /\ tmp[m] \notin {NoFile} \cup given
      BY <2>2
    <3>2. PICK v \in Writers : tmpname[v] = m
      BY <3>1 DEF IInv, NoStale
    <3> QED BY <2>1, <3>1, <3>2
  <2> QED BY <2>7, <2>8, <2>9 DEF IInv
<1> QED BY <1>2, <1>3, <1>4 DEF Rename, Advance

\* A copy goes where there is no target.
LEMMA CopyStartStep ==
    ASSUME IInv, NEW w \in Writers, NEW i \in Inodes, CopyStart(w, i)
    PROVE  IInv'
<1>1. CASE target[filename[w]] # NoFile
  BY <1>1, CleanupStep DEF CopyStart
<1>2. CASE target[filename[w]] = NoFile
  <2>1. /\ pc[w] = "copy" /\ pc' = [pc EXCEPT ![w] = "copying"]
        /\ target' = [target EXCEPT ![filename[w]] = i]
        /\ out' = [out EXCEPT ![w] = i]
        /\ full' = full \ {i} /\ synced' = synced \ {i}
        /\ public' = public \cup {i} /\ copied' = copied \cup {i}
        /\ given' = given \ {i}
        /\ UNCHANGED <<tmpname, filename, fd, tmp, disk>>
    BY <1>2 DEF CopyStart, Advance
  <2>2. TypeOK /\ Unused(i) /\ i # NoFile
    BY <1>2, NoneAssumption DEF IInv, OwnTmp, CopyStart
  <2>3. /\ \A m \in Names : tmp[m] # i
        /\ \A u \in Targets : target[u] # i /\ disk.target[u] # i
        /\ \A v \in Writers : fd[v] # i
    BY <2>2, UnusedIsNew
  <2>4. \A v \in Writers : /\ pc'[v] = IF v = w THEN "copying" ELSE pc[v]
                           /\ out'[v] = IF v = w THEN i ELSE out[v]
    BY <2>1, <2>2 DEF TypeOK
  <2>5. \A t \in Targets : target'[t] = target[t] \/ target'[t] = i
    BY <2>1, <2>2 DEF TypeOK
  <2>6. \A v \in Writers : tmpname[v] # NoName => tmp[tmpname[v]] # i
    BY <2>2, <2>3 DEF TypeOK
  <2>7. TypeOK'
    <3>1. pc' \in [Writers -> Steps \cup {"none", "ready"}]
      BY <2>1, <2>2 DEF TypeOK, Steps
    <3>2. \A s \in {full', synced', public', copied', given'} : s \subseteq Inodes
      BY <2>1, <2>2 DEF TypeOK
    <3> QED BY <2>1, <2>2, <3>1, <3>2 DEF TypeOK
  <2>8. OwnTmp'
    BY <2>1, <2>4, <2>7 DEF IInv, OwnTmp
  <2>9. TargetWhole'
    <3>1. CommitInOrder'
      BY <2>1, <2>2, <2>3, <2>4, <2>6 DEF IInv, TargetWhole, CommitInOrder
    <3> QED BY <2>1, <2>3, <2>5, <3>1 DEF IInv, TargetWhole
  <2>10. NoStale'
    BY <2>1, <2>3 DEF IInv, NoStale
  <2> QED BY <2>8, <2>9, <2>10 DEF IInv
<1> QED BY <1>1, <1>2

LEMMA CopyFillStep ==
    ASSUME IInv, NEW w \in Writers, CopyFill(w)
    PROVE  IInv'
<1>1. TypeOK /\ pc[w] = "copying" /\ out[w] \in Inodes
  BY DEF IInv, OwnTmp, TargetWhole, CommitInOrder, CopyFill, TypeOK
<1>2. /\ pc' = [pc EXCEPT ![w] = "ready"] /\ full' = full \cup {out[w]}
      /\ out' = [out EXCEPT ![w] = NoFile]
      /\ UNCHANGED <<tmpname, filename, fd, tmp, target, synced, public, disk, ghosts>>
  BY DEF CopyFill, Advance
<1>3. \A v \in Writers : /\ pc'[v] = IF v = w THEN "ready" ELSE pc[v]
                         /\ out'[v] = IF v = w THEN NoFile ELSE out[v]
  BY <1>1, <1>2 DEF TypeOK
<1>4. TypeOK'
  <2>1. pc' \in [Writers -> Steps \cup {"none", "ready"}]
    BY <1>1, <1>2 DEF TypeOK
  <2>2. \A s \in {full', synced', public', copied', given'} : s \subseteq Inodes
    BY <1>1, <1>2 DEF TypeOK, ghosts
  <2> QED BY <1>1, <1>2, <2>1, <2>2 DEF TypeOK, ghosts
<1>5. OwnTmp'
  BY <1>2, <1>3, <1>4 DEF IInv, OwnTmp
<1>6. TargetWhole'
  <2>1. CommitInOrder'
    BY <1>2, <1>3 DEF IInv, TargetWhole, CommitInOrder
  <2> QED BY <1>2, <2>1 DEF IInv, TargetWhole, ghosts
<1>7. NoStale'
  BY <1>2 DEF IInv, NoStale, ghosts
<1> QED BY <1>5, <1>6, <1>7 DEF IInv

LEMMA FlushStep ==
    ASSUME IInv, Flush
    PROVE  IInv'
<1>1. TypeOK
  BY DEF IInv, OwnTmp
<1>2. /\ disk'.tmp = tmp /\ disk'.target = target /\ disk'.public = public
      /\ UNCHANGED <<objs, tmp, target, full, synced, public, ghosts>>
  BY DEF Flush, OnDisk
<1>3. TypeOK'
  <2>1. disk' \in [tmp : [Names -> Inodes \cup {NoFile}],
                   target : [Targets -> Inodes \cup {NoFile}],
                   public : SUBSET Inodes]
    BY <1>1 DEF Flush, OnDisk, TypeOK
  <2> QED BY <1>1, <1>2, <2>1 DEF TypeOK, objs, ghosts
<1>4. OwnTmp'
  BY <1>2, <1>3 DEF IInv, OwnTmp, objs
<1>5. TargetWhole'
  <2>1. CommitInOrder'
    BY <1>2 DEF IInv, TargetWhole, CommitInOrder, objs
  <2> QED BY <1>2, <2>1 DEF IInv, TargetWhole, ghosts
<1>6. NoStale'
  BY <1>2 DEF IInv, NoStale, objs, ghosts
<1> QED BY <1>4, <1>5, <1>6 DEF IInv

\* What is on disk is whole because it was synced before its name got there.
LEMMA PowerLossStep ==
    ASSUME IInv, PowerLoss
    PROVE  IInv'
<1>1. TypeOK
  BY DEF IInv, OwnTmp
<1>2. \A w \in Writers : pc'[w] = "none" /\ tmpname'[w] = NoName /\ fd'[w] = NoFile
  BY DEF PowerLoss
<1>3. /\ tmp' = disk.tmp /\ target' = disk.target /\ public' = disk.public
      /\ UNCHANGED <<filename, disk, copied>>
  BY DEF PowerLoss
<1>4. full \cap synced \subseteq full' /\ full' \subseteq full /\ synced' = full'
  BY DEF PowerLoss
<1>5. \A n \in Names : tmp'[n] # NoFile => tmp'[n] \in given'
  BY <1>1, <1>3, RangeOfTmp DEF PowerLoss
<1>6. TypeOK'
  <2>1. given' \subseteq Inodes
    BY <1>1, RangeOfTmp DEF PowerLoss, TypeOK
  <2>2. \A s \in {full', synced', public', copied', given'} : s \subseteq Inodes
    BY <1>1, <1>3, <1>4, <2>1 DEF TypeOK
  <2>3. /\ pc' \in [Writers -> Steps \cup {"none", "ready"}]
        /\ tmpname' \in [Writers -> Names \cup {NoName}]
        /\ fd' \in [Writers -> Inodes \cup {NoFile}]
        /\ out' \in [Writers -> Inodes \cup {NoFile}]
    BY DEF PowerLoss
  <2> QED BY <1>1, <1>3, <2>2, <2>3 DEF TypeOK
<1>7. OwnTmp'
  BY <1>2, <1>6 DEF OwnTmp
<1>8. TargetWhole'
  <2>1. CommitInOrder'
    BY <1>2 DEF CommitInOrder
  <2> QED BY <1>3, <1>4, <2>1 DEF IInv, TargetWhole
<1>9. NoStale'
  BY <1>5 DEF NoStale
<1> QED BY <1>7, <1>8, <1>9 DEF IInv

LEMMA NextStep == IInv /\ [Next]_vars => IInv'
<1> SUFFICES ASSUME IInv, [Next]_vars PROVE IInv'
  OBVIOUS
<1>1. ASSUME NEW w \in Writers, NEW n \in Names, NEW t \in Targets,
             NEW i \in Inodes, Create(w, n, t, i)
      PROVE  IInv'
  BY <1>1, CreateStep
<1>2. ASSUME NEW w \in Writers, WriteAll(w) PROVE IInv'
  BY <1>2, WriteAllStep
<1>3. ASSUME NEW w \in Writers, Destroy(w) PROVE IInv'
  BY <1>3, CleanupStep DEF Destroy
<1>4. ASSUME NEW w \in Writers, Commit(w) PROVE IInv'
  BY <1>4, CommitStep
<1>5. ASSUME NEW w \in Writers, NEW v \in Writers,
             MoveConstruct(w, v) \/ MoveAssign(w, v)
      PROVE  IInv'
  BY <1>5, MoveConstructStep, MoveAssignStep
<1>6. ASSUME NEW w \in Writers, NEW call, Throw(w, call) PROVE IInv'
  BY <1>6, CleanupStep DEF Throw
<1>7. ASSUME NEW w \in Writers, Fsync(w) \/ Fchmod(w) \/ Close(w) PROVE IInv'
  BY <1>7, FsyncStep, FchmodStep, CloseStep
<1>8. ASSUME NEW w \in Writers, NEW allow_copy \in BOOLEAN, Rename(w, allow_copy)
      PROVE  IInv'
  BY <1>8, RenameStep
<1>9. ASSUME NEW w \in Writers, NEW i \in Inodes, CopyStart(w, i) PROVE IInv'
  BY <1>9, CopyStartStep
<1>10. ASSUME NEW w \in Writers, CopyFill(w) PROVE IInv'
  BY <1>10, CopyFillStep
<1>11. CASE Flush \/ Killed \/ PowerLoss
  BY <1>11, FlushStep, ProcessEndsStep, PowerLossStep DEF Killed
<1>12. CASE UNCHANGED vars
  BY <1>12 DEF vars, objs, files, ghosts, IInv, OwnTmp, TypeOK, TargetWhole,
     CommitInOrder, NoStale
<1> QED BY <1>1, <1>2, <1>3, <1>4, <1>5, <1>6, <1>7, <1>8, <1>9, <1>10, <1>11,
           <1>12 DEF Next

-----------------------------------------------------------------------------
(* What happens to a target *)

\* A file that is full stays so, unless nothing refers to it.
LEMMA FullStays ==
    ASSUME TypeOK, [Next]_vars, ~PowerLoss,
           NEW t \in Targets, target[t] \in full
    PROVE  target[t] \in full'
<1>1. target[t] \in Inodes
  BY DEF TypeOK
<1>2. ASSUME NEW i \in Inodes, Unused(i) PROVE target[t] # i
  BY <1>2, UnusedIsNew
<1>3. ASSUME NEW w \in Writers, NEW next, Cleanup(w, next) PROVE full' = full
  BY <1>3 DEF Cleanup, ProcessEnds, files
<1>4. ASSUME NEW w \in Writers, NEW n \in Names, NEW u \in Targets,
             NEW i \in Inodes, Create(w, n, u, i)
      PROVE  target[t] \in full'
  BY <1>2, <1>4 DEF Create
<1>5. ASSUME NEW w \in Writers, NEW i \in Inodes, CopyStart(w, i)
      PROVE  target[t] \in full'
  BY <1>2, <1>3, <1>5 DEF CopyStart
<1>6. ASSUME NEW w \in Writers,
             \/ WriteAll(w) \/ Destroy(w) \/ Commit(w)
             \/ \E call : Throw(w, call)
             \/ \E allow_copy \in BOOLEAN : Rename(w, allow_copy)
             \/ CopyFill(w)
      PROVE  target[t] \in full'
  BY <1>3, <1>6 DEF WriteAll, Destroy, Commit, Throw, Rename, CopyFill, files
<1>7. ASSUME NEW w \in Writers,
             \/ \E v \in Writers : MoveConstruct(w, v) \/ MoveAssign(w, v)
             \/ Fsync(w) \/ Fchmod(w) \/ Close(w)
      PROVE  full' = full
  BY <1>7 DEF MoveConstruct, MoveAssign, Fsync, Fchmod, Close, ProcessEnds, files
<1>8. CASE Flush \/ Killed \/ UNCHANGED vars
  BY <1>8 DEF Flush, Killed, ProcessEnds, vars, files
<1> QED BY <1>4, <1>5, <1>6, <1>7, <1>8 DEF Next

\* Nothing but a rename, a copy and a loss of power changes a target, a rename
\* puts a full file there, and a copy is made where there is none.
LEMMA TargetChanges ==
    ASSUME IInv, [Next]_vars, ~PowerLoss, NEW t \in Targets, target[t] \in full
    PROVE  target'[t] \in {target[t]} \cup full'
<1>1. TypeOK /\ target[t] # NoFile
  BY NoneAssumption DEF IInv, OwnTmp, TypeOK
<1>2. ASSUME NEW w \in Writers, NEW next, Cleanup(w, next) PROVE target' = target
  BY <1>2 DEF Cleanup, ProcessEnds, files
<1>3. ASSUME NEW w \in Writers, NEW allow_copy \in BOOLEAN, Rename(w, allow_copy)
      PROVE  target'[t] \in {target[t]} \cup full'
  <2>1. CASE target' = target
    BY <2>1
  <2>2. CASE /\ target' = [target EXCEPT ![filename[w]] = tmp[tmpname[w]]]
             /\ full' = full
    <3>1. tmp[tmpname[w]] \in full
      BY <1>3 DEF Rename, IInv, TargetWhole, CommitInOrder
    <3> QED BY <1>1, <2>2, <3>1 DEF TypeOK
  <2> QED BY <1>2, <1>3, <2>1, <2>2 DEF Rename, files
<1>4. ASSUME NEW w \in Writers, NEW i \in Inodes, CopyStart(w, i)
      PROVE  target'[t] = target[t]
  BY <1>1, <1>2, <1>4 DEF CopyStart, TypeOK
<1>5. ASSUME NEW w \in Writers,
             \/ WriteAll(w) \/ Destroy(w) \/ Commit(w)
             \/ \E call : Throw(w, call)
             \/ CopyFill(w)
      PROVE  target' = target
  BY <1>2, <1>5 DEF WriteAll, Destroy, Commit, Throw, CopyFill, files
<1>6. ASSUME NEW w \in Writers,
             \/ \E n \in Names, u \in Targets, i \in Inodes : Create(w, n, u, i)
             \/ \E v \in Writers : MoveConstruct(w, v) \/ MoveAssign(w, v)
             \/ Fsync(w) \/ Fchmod(w) \/ Close(w)
      PROVE  target' = target
  BY <1>6 DEF Create, MoveConstruct, MoveAssign, Fsync, Fchmod, Close,
              ProcessEnds, files
<1>7. CASE Flush \/ Killed \/ UNCHANGED vars
  BY <1>7 DEF Flush, Killed, ProcessEnds, vars, files
<1> QED BY <1>3, <1>4, <1>5, <1>6, <1>7 DEF Next

-----------------------------------------------------------------------------
(* The theorems *)

LEMMA Invariance == Spec => []IInv
<1> QED BY InitHolds, NextStep, PTL DEF Spec

\* A target is the whole content of some commit with its mode, or nothing, at any
\* time and after any loss of power, unless it was made by copying.
THEOREM WholeOrNothing == Spec => []TargetWhole
<1>1. IInv => TargetWhole
  BY DEF IInv
<1> QED BY <1>1, Invariance, PTL

\* A temporary file is its writer's alone.
THEOREM TemporaryIsOwn == Spec => []OwnTmp
<1>1. IInv => OwnTmp
  BY DEF IInv
<1> QED BY <1>1, Invariance, PTL

\* Writers leave no temporary file, but where a process ended, a remove failed or
\* a writer was assigned to.
THEOREM NothingLeft == Spec => []NoStale
<1>1. IInv => NoStale
  BY DEF IInv
<1> QED BY <1>1, Invariance, PTL

\* A whole target stays until another whole file takes its place.
THEOREM WholeStays == Spec => ReplacedWhole
<1>1. IInv /\ [Next]_vars =>
         [\A t \in Targets :
             target[t] \in full => target'[t] \in full' \/ target' = disk.target]_vars
  <2> SUFFICES ASSUME IInv, [Next]_vars, NEW t \in Targets, target[t] \in full
               PROVE  target'[t] \in full' \/ target' = disk.target
    OBVIOUS
  <2>1. CASE PowerLoss
    BY <2>1 DEF PowerLoss
  <2>2. CASE ~PowerLoss
    BY <2>2, FullStays, TargetChanges DEF IInv, OwnTmp
  <2> QED BY <2>1, <2>2
<1> QED BY <1>1, Invariance, PTL DEF Spec, ReplacedWhole

=============================================================================
