--------------------------- MODULE IoUringRing_proofs ---------------------------
(***************************************************************************)
(* Proofs about what a ring keeps besides its requests: the table of       *)
(* registered files, for tables of any size, any descriptors, handles and  *)
(* failures of the kernel, and the event descriptor, for any number of     *)
(* requests.                                                               *)
(***************************************************************************)
EXTENDS
    IoUringFiles, IoUringEvents, FiniteSetTheorems, SequenceTheorems, TLAPS

Entries == Fds \cup {None}

-----------------------------------------------------------------------------
(* What the operators on tables do *)

\* The slots in use are finitely many.
LEMMA UsedFinite ==
    ASSUME NEW t \in Seq(Entries)
    PROVE  /\ DOMAIN t = 1 .. Len(t) /\ Len(t) \in Nat
           /\ IsFiniteSet(DOMAIN t) /\ Cardinality(DOMAIN t) = Len(t)
           /\ IsFiniteSet(UsedSlots(t)) /\ Cardinality(UsedSlots(t)) \in Nat
<1>1. DOMAIN t = 1 .. Len(t) /\ Len(t) \in Nat
  BY LenProperties
<1>2. IsFiniteSet(DOMAIN t) /\ Cardinality(DOMAIN t) = Len(t)
  BY <1>1, FS_Interval
<1>3. UsedSlots(t) \in SUBSET DOMAIN t
  BY DEF UsedSlots
<1>4. IsFiniteSet(UsedSlots(t))
  BY <1>2, <1>3, FS_Subset
<1> QED BY <1>1, <1>2, <1>4, FS_CardinalityType

\* setFile changes one slot, and keeps the count.
LEMMA SetFileCounts ==
    ASSUME NEW t \in Seq(Entries), NEW s \in DOMAIN t, NEW f \in Entries,
           SetFile(t, s, f), filesAllocated = Cardinality(UsedSlots(t))
    PROVE  /\ files' \in Seq(Entries) /\ DOMAIN files' = DOMAIN t
           /\ \A i \in DOMAIN t : files'[i] = IF i = s THEN f ELSE t[i]
           /\ UsedSlots(files') = IF f = None THEN UsedSlots(t) \ {s}
                                  ELSE UsedSlots(t) \cup {s}
           /\ filesAllocated' \in Int
           /\ filesAllocated' = Cardinality(UsedSlots(files'))
<1>1. files' = [t EXCEPT ![s] = f]
  BY DEF SetFile
<1>2. s \in 1 .. Len(t)
  BY UsedFinite
<1>3. files' \in Seq(Entries) /\ DOMAIN files' = DOMAIN t
  BY <1>1, <1>2, ExceptSeq
<1>4. \A i \in DOMAIN t : files'[i] = IF i = s THEN f ELSE t[i]
  BY <1>1
<1>5. UsedSlots(files') = IF f = None THEN UsedSlots(t) \ {s}
                          ELSE UsedSlots(t) \cup {s}
  BY <1>3, <1>4 DEF UsedSlots, FreeSlots
<1>6. s \in UsedSlots(t) <=> t[s] # None
  BY DEF UsedSlots, FreeSlots
<1>7. IsFiniteSet(UsedSlots(t)) /\ Cardinality(UsedSlots(t)) \in Nat
  BY UsedFinite
<1>8. filesAllocated' \in Int /\ filesAllocated' = Cardinality(UsedSlots(files'))
  <2>1. CASE f = None
    <3>1. filesAllocated' = IF s \in UsedSlots(t) THEN filesAllocated - 1
                            ELSE filesAllocated
      BY <1>6, <2>1 DEF SetFile
    <3>2. Cardinality(UsedSlots(t) \ {s}) =
             IF s \in UsedSlots(t) THEN Cardinality(UsedSlots(t)) - 1
             ELSE Cardinality(UsedSlots(t))
      BY <1>7, FS_RemoveElement
    <3> QED BY <1>5, <1>7, <2>1, <3>1, <3>2
  <2>2. CASE f # None
    <3>1. filesAllocated' = IF s \in UsedSlots(t) THEN filesAllocated
                            ELSE filesAllocated + 1
      BY <1>6, <2>2 DEF SetFile
    <3>2. Cardinality(UsedSlots(t) \cup {s}) =
             IF s \in UsedSlots(t) THEN Cardinality(UsedSlots(t))
             ELSE Cardinality(UsedSlots(t)) + 1
      BY <1>7, FS_AddElement
    <3> QED BY <1>5, <1>7, <2>2, <3>1, <3>2
  <2> QED BY <2>1, <2>2
<1> QED BY <1>3, <1>4, <1>5, <1>8

\* A larger table has the same slots in use, and the others are free.
LEMMA ResizedKeeps ==
    ASSUME files \in Seq(Entries), NEW n \in Nat, Len(files) <= n
    PROVE  /\ Resized(n) \in Seq(Entries)
           /\ DOMAIN Resized(n) = 1 .. n /\ Len(Resized(n)) = n
           /\ \A s \in 1 .. n :
                 Resized(n)[s] = IF s \in DOMAIN files THEN files[s] ELSE None
           /\ UsedSlots(Resized(n)) = UsedSlots(files)
<1>1. DOMAIN files = 1 .. Len(files) /\ Len(files) \in Nat
  BY LenProperties
<1>2. \A s \in 1 .. n : s <= Len(files) => files[s] \in Entries
  BY <1>1, ElementOfSeq
<1>3. DOMAIN Resized(n) = 1 .. n
  BY DEF Resized
<1>4. \A s \in 1 .. n :
          Resized(n)[s] = IF s \in DOMAIN files THEN files[s] ELSE None
  BY <1>1 DEF Resized
<1>5. Resized(n) \in [1 .. n -> Entries]
  BY <1>2 DEF Resized, Entries
<1>6. Resized(n) \in Seq(Entries) /\ Len(Resized(n)) = n
  BY <1>3, <1>5
<1>7. UsedSlots(Resized(n)) = UsedSlots(files)
  BY <1>1, <1>3, <1>4 DEF UsedSlots, FreeSlots
<1> QED BY <1>3, <1>4, <1>6, <1>7

Opened == OpenFiles \cup {NoFile}

\* A table that was registered lists what the numbers stand for.
LEMMA TableMade ==
    ASSUME open \in [Fds -> Opened], files' \in Seq(Entries), open' = open, TableDone
    PROVE  ktab' \in Seq(Opened) /\ TableCurrent'
<1>1. DOMAIN files' = 1 .. Len(files') /\ Len(files') \in Nat
  BY LenProperties
<1>2. \A s \in DOMAIN files' : files'[s] # None => files'[s] \in Fds
  BY <1>1, ElementOfSeq DEF Entries
<1>3. DOMAIN ktab' = DOMAIN files'
  BY DEF TableDone
<1>4. \A s \in DOMAIN files' :
         ktab'[s] = IF files'[s] = None THEN NoFile ELSE open[files'[s]]
  BY DEF TableDone
<1>5. ktab' \in [1 .. Len(files') -> Opened]
  <2>1. \A s \in 1 .. Len(files') :
           (IF files'[s] = None THEN NoFile ELSE open[files'[s]]) \in Opened
    BY <1>1, <1>2 DEF Opened
  <2> QED BY <1>1, <2>1 DEF TableDone
<1>6. ktab' \in Seq(Opened)
  BY <1>1, <1>5
<1>7. TableCurrent'
  <2>1. \A s \in UsedSlots(files') : open[files'[s]] # NoFile
    BY DEF TableDone
  <2> QED BY <1>3, <1>4, <2>1 DEF TableCurrent, UsedSlots, FreeSlots
<1> QED BY <1>6, <1>7

\* An update of the kernel's table changes one slot.
LEMMA UpdateMade ==
    ASSUME ktab \in Seq(Opened), NEW s, NEW x \in Opened, UpdateDone(s, x)
    PROVE  /\ s \in DOMAIN ktab
           /\ ktab' \in Seq(Opened) /\ DOMAIN ktab' = DOMAIN ktab
           /\ \A i \in DOMAIN ktab : ktab'[i] = IF i = s THEN x ELSE ktab[i]
<1>1. s \in 1 .. Len(ktab) /\ ktab' = [ktab EXCEPT ![s] = x]
  BY LenProperties DEF UpdateDone
<1>2. ktab' \in Seq(Opened)
  BY <1>1, ExceptSeq
<1> QED BY <1>1, <1>2 DEF UpdateDone

-----------------------------------------------------------------------------
(* The inductive invariant *)

LEMMA InitHolds == Init => IInv
<1> SUFFICES ASSUME Init PROVE IInv
  OBVIOUS
<1> USE DEF Init
<1>1. files \in Seq(Entries) /\ ktab \in Seq(OpenFiles \cup {NoFile})
  BY EmptySeq
<1>2. DOMAIN files = {} /\ DOMAIN ktab = {}
  OBVIOUS
<1>3. UsedSlots(files) = {}
  BY <1>2 DEF UsedSlots
<1>4. AllocatedCount
  <2>1. TypeOK
    <3>1. files \in Seq(Fds \cup {None})
      BY <1>1 DEF Entries
    <3>2. trouble \in BOOLEAN /\ dead \in BOOLEAN
      OBVIOUS
    <3>3. /\ open \in [Fds -> OpenFiles \cup {NoFile}]
          /\ handle \in [Holders -> Nat]
          /\ given \in [Holders -> OpenFiles \cup {NoFile}]
      OBVIOUS
    <3> QED BY <1>1, <3>1, <3>2, <3>3 DEF TypeOK
  <2> QED BY <1>3, <2>1, FS_EmptySet DEF AllocatedCount
<1>5. HandlesDistinct /\ NeverTerminates
  BY DEF HandlesDistinct, NeverTerminates
<1>6. SlotsOwned /\ HandleKeepsFile
  <2>1. TableCurrent
    BY <1>2, <1>3 DEF TableCurrent
  <2>2. \A h \in Holders : handle[h] = 0
    OBVIOUS
  <2> QED BY <1>3, <2>1, <2>2 DEF SlotsOwned, HandleKeepsFile
<1> QED BY <1>4, <1>5, <1>6 DEF IInv

\* The program opens a descriptor, whose number is in no slot.
LEMMA OpenFdStep ==
    ASSUME IInv, NEW f \in Fds, NEW x \in OpenFiles, OpenFd(f, x)
    PROVE  IInv'
<1> USE DEF OpenFd, ring, IInv
<1>1. AllocatedCount' /\ HandlesDistinct' /\ SlotsOwned' /\ NeverTerminates'
  BY DEF AllocatedCount, TypeOK, HandlesDistinct, SlotsOwned, NeverTerminates,
         UsedSlots, FreeSlots
<1>2. ASSUME ~trouble PROVE TableCurrent'
  <2>1. TableCurrent
    BY <1>2 DEF HandleKeepsFile
  <2>2. open \in [Fds -> OpenFiles \cup {NoFile}] /\ files \in Seq(Entries)
    BY DEF AllocatedCount, TypeOK, Entries
  <2>3. \A s \in UsedSlots(files) : files[s] \in Fds /\ files[s] # f
    BY <2>1, <2>2, ElementOfSeq, LenProperties
    DEF TableCurrent, UsedSlots, FreeSlots, Entries
  <2>4. \A s \in UsedSlots(files) : open'[files[s]] = open[files[s]]
    BY <2>2, <2>3
  <2> QED BY <2>1, <2>4 DEF TableCurrent, UsedSlots, FreeSlots
<1>3. HandleKeepsFile'
  BY <1>2 DEF HandleKeepsFile, Keeps
<1> QED BY <1>1, <1>3

\* It closes one: the table is out of step only if it is in a slot.
LEMMA CloseFdStep ==
    ASSUME IInv, NEW f \in Fds, CloseFd(f)
    PROVE  IInv'
<1> USE DEF CloseFd, ring, IInv
<1>1. AllocatedCount' /\ HandlesDistinct' /\ SlotsOwned' /\ NeverTerminates'
  <2>1. trouble' \in BOOLEAN /\ (trouble => trouble')
    BY DEF AllocatedCount, TypeOK
  <2> QED BY <2>1 DEF AllocatedCount, TypeOK, HandlesDistinct, SlotsOwned,
             NeverTerminates, UsedSlots, FreeSlots
<1>2. ASSUME ~trouble' PROVE ~trouble /\ TableCurrent'
  <2>1. TableCurrent /\ \A s \in DOMAIN files : files[s] # f
    BY <1>2 DEF HandleKeepsFile
  <2>2. open \in [Fds -> OpenFiles \cup {NoFile}] /\ files \in Seq(Entries)
    BY DEF AllocatedCount, TypeOK, Entries
  <2>3. \A s \in UsedSlots(files) : files[s] \in Fds
    BY <2>2, ElementOfSeq, LenProperties DEF UsedSlots, FreeSlots, Entries
  <2>4. \A s \in UsedSlots(files) : open'[files[s]] = open[files[s]]
    BY <2>1, <2>2, <2>3 DEF UsedSlots
  <2> QED BY <1>2, <2>1, <2>4 DEF TableCurrent, UsedSlots, FreeSlots
<1>3. HandleKeepsFile'
  BY <1>2 DEF HandleKeepsFile, Keeps
<1> QED BY <1>1, <1>3

\* A FileHandle changes hands.
LEMMA MoveStep ==
    ASSUME IInv, NEW a \in Holders, NEW b \in Holders, Move(a, b)
    PROVE  IInv'
<1> USE DEF Move, ring, IInv
<1>1. handle \in [Holders -> Nat] /\ given \in [Holders -> OpenFiles \cup {NoFile}]
  BY DEF AllocatedCount, TypeOK
<1>2. a # b
  OBVIOUS
<1>3. \A h \in Holders :
          /\ handle'[h] = IF h = a THEN 0 ELSE IF h = b THEN handle[a] ELSE handle[h]
          /\ given'[h] = IF h = a THEN NoFile ELSE IF h = b THEN given[a] ELSE given[h]
  BY <1>1, <1>2
<1>4. AllocatedCount'
  BY <1>1 DEF AllocatedCount, TypeOK, UsedSlots, FreeSlots
<1>5. HandlesDistinct'
  <2>1. files' = files
    OBVIOUS
  <2>2. ASSUME NEW h \in Holders, handle'[h] # 0
        PROVE  handle'[h] \in DOMAIN files /\ files[handle'[h]] # None
    <3>1. CASE h = b
      <4>1. handle'[h] = handle[a]
        BY <1>2, <1>3, <3>1
      <4> QED BY <4>1 DEF HandlesDistinct
    <3>2. CASE h # b
      <4>1. handle'[h] = handle[h]
        BY <1>3, <2>2, <3>2
      <4> QED BY <2>2, <4>1 DEF HandlesDistinct
    <3> QED BY <3>1, <3>2
  <2>3. ASSUME NEW g \in Holders, NEW h \in Holders,
               handle'[g] = handle'[h], handle'[g] # 0
        PROVE  g = h
    <3>1. CASE g = b /\ h # b
      BY <1>3, <2>3, <3>1 DEF HandlesDistinct
    <3>2. CASE g # b /\ h = b
      BY <1>3, <2>3, <3>2 DEF HandlesDistinct
    <3>3. CASE g # b /\ h # b
      BY <1>3, <2>3, <3>3 DEF HandlesDistinct
    <3> QED BY <3>1, <3>2, <3>3
  <2> QED BY <2>1, <2>2, <2>3 DEF HandlesDistinct
<1>6. SlotsOwned'
  <2>1. ASSUME NEW s \in UsedSlots(files), NEW g \in Holders, handle[g] = s
        PROVE  \E h \in Holders : handle'[h] = s
    <3>1. CASE g = a
      BY <1>3, <1>2, <2>1, <3>1
    <3>2. CASE g = b
      <4>1. s # 0
        <5>1. DOMAIN files = 1 .. Len(files)
          BY LenProperties DEF AllocatedCount, TypeOK
        <5> QED BY <5>1 DEF UsedSlots
      <4> QED BY <2>1, <3>2, <4>1
    <3>3. CASE g # a /\ g # b
      BY <1>3, <2>1, <3>3
    <3> QED BY <3>1, <3>2, <3>3
  <2> QED BY <2>1 DEF SlotsOwned, UsedSlots, FreeSlots
<1>7. HandleKeepsFile'
  <2>1. UNCHANGED <<open, files, ktab, trouble>>
    OBVIOUS
  <2>2. TableCurrent => TableCurrent'
    BY <2>1 DEF TableCurrent, UsedSlots, FreeSlots
  <2>3. ASSUME NEW h \in Holders, handle'[h] # 0,
               \A g \in Holders : handle[g] # 0 => Keeps(g)
        PROVE  Keeps(h)'
    <3>1. CASE h = b
      <4>1. handle'[h] = handle[a] /\ given'[h] = given[a] /\ Keeps(a)
        BY <1>2, <1>3, <2>3, <3>1
      <4> QED BY <2>1, <4>1 DEF Keeps
    <3>2. CASE h # b
      <4>1. handle'[h] = handle[h] /\ given'[h] = given[h] /\ Keeps(h)
        BY <1>3, <2>3, <3>2
      <4> QED BY <2>1, <4>1 DEF Keeps
    <3> QED BY <3>1, <3>2
  <2>4. CASE trouble
    BY <2>1, <2>4 DEF HandleKeepsFile
  <2>5. CASE ~trouble
    BY <2>2, <2>3, <2>5 DEF HandleKeepsFile
  <2> QED BY <2>4, <2>5
<1> QED BY <1>4, <1>5, <1>6, <1>7 DEF NeverTerminates

\* reserveFiles: the slots in use stay where they are.
LEMMA ReserveStep ==
    ASSUME IInv, NEW num \in 0 .. MaxReserve, Reserve(num)
    PROVE  IInv'
<1> DEFINE n == LargerOf(MinSize, num + filesAllocated)
<1>1. TypeOK /\ files \in Seq(Entries)
  BY DEF IInv, AllocatedCount, TypeOK, Entries
<1>2. n \in Nat /\ Len(files) <= n /\ files' = Resized(n)
  <2>1. filesAllocated \in Nat
    BY <1>1, UsedFinite DEF IInv, AllocatedCount
  <2>2. num + filesAllocated \in Nat
    BY <2>1, SizesAssumption
  <2>3. n \in Nat
    BY <2>2, SizesAssumption DEF LargerOf
  <2>4. Len(files) \in Nat
    BY <1>1, LenProperties
  <2> QED BY <2>3, <2>4 DEF Reserve
<1>3. /\ files' \in Seq(Entries) /\ DOMAIN files \subseteq DOMAIN files'
      /\ \A s \in DOMAIN files : files'[s] = files[s]
      /\ UsedSlots(files') = UsedSlots(files)
  <2>1. DOMAIN files = 1 .. Len(files) /\ Len(files) \in Nat
    BY <1>1, LenProperties
  <2> HIDE DEF n
  <2>2. /\ files' \in Seq(Entries) /\ DOMAIN files' = 1 .. n
        /\ \A s \in 1 .. n :
              files'[s] = IF s \in DOMAIN files THEN files[s] ELSE None
        /\ UsedSlots(files') = UsedSlots(files)
    BY <1>1, <1>2, ResizedKeeps
  <2> QED BY <1>2, <2>1, <2>2
<1> HIDE DEF n
<1>4. UNCHANGED <<open, filesAllocated, handle, given, dead>>
  BY DEF Reserve
<1>5. /\ ktab' \in Seq(Opened)
      /\ \/ trouble' = trouble /\ TableCurrent'
         \/ trouble' = TRUE
  <2>1. CASE TableDone
    <3>1. open \in [Fds -> Opened]
      BY <1>1 DEF TypeOK, Opened
    <3>2. trouble' = trouble
      BY <2>1 DEF TableDone
    <3> QED BY <1>3, <1>4, <2>1, <3>1, <3>2, TableMade
  <2>2. CASE TableFailed
    BY <2>2, EmptySeq DEF TableFailed
  <2> QED BY <2>1, <2>2 DEF Reserve
<1>6. AllocatedCount'
  <2>1. TypeOK'
    BY <1>1, <1>3, <1>4, <1>5 DEF TypeOK, Entries, Opened
  <2>2. filesAllocated' = Cardinality(UsedSlots(files'))
    BY <1>3, <1>4 DEF IInv, AllocatedCount
  <2> QED BY <2>1, <2>2 DEF AllocatedCount
<1>7. HandlesDistinct'
  BY <1>3, <1>4 DEF IInv, HandlesDistinct
<1>8. SlotsOwned'
  BY <1>3, <1>4, <1>5 DEF IInv, SlotsOwned
<1>9. HandleKeepsFile'
  <2> SUFFICES ASSUME ~trouble' PROVE TableCurrent' /\ \A h \in Holders : handle'[h] # 0 => Keeps(h)'
    BY DEF HandleKeepsFile
  <2>1. TableCurrent' /\ ~trouble
    BY <1>5
  <2>2. ASSUME NEW h \in Holders, handle'[h] # 0 PROVE Keeps(h)'
    <3>1. Keeps(h) /\ TableCurrent
      BY <1>4, <2>1, <2>2 DEF IInv, HandleKeepsFile
    <3>2. handle[h] \in DOMAIN files /\ files[handle[h]] # None
      BY <1>4, <2>2 DEF IInv, HandlesDistinct
    <3>3. given[h] = open[files[handle[h]]]
      BY <3>1, <3>2 DEF Keeps, TableCurrent
    <3>4. handle[h] \in DOMAIN files' /\ files'[handle[h]] = files[handle[h]]
      BY <1>3, <3>2
    <3>5. DOMAIN ktab' = DOMAIN files' /\ ktab'[handle[h]] = open[files[handle[h]]]
      BY <1>4, <2>1, <3>2, <3>4 DEF TableCurrent
    <3> QED BY <1>4, <3>3, <3>4, <3>5 DEF Keeps
  <2> QED BY <2>1, <2>2
<1>10. NeverTerminates'
  <2>1. dead' = dead /\ (trouble' = trouble \/ trouble' = TRUE)
    BY <1>4, <1>5
  <2> QED BY <2>1, Zenon DEF IInv, NeverTerminates
<1> QED BY <1>6, <1>7, <1>8, <1>9, <1>10 DEF IInv

-----------------------------------------------------------------------------
(* registerFile puts a descriptor into a free slot s of table t, which is the *)
(* table of the ring or a larger one.                                         *)

Extends(t) ==
    /\ t \in Seq(Entries)
    /\ DOMAIN files \subseteq DOMAIN t
    /\ \A i \in DOMAIN files : t[i] = files[i]
    /\ UsedSlots(t) = UsedSlots(files)

\* What the slot changes in the ring, whatever becomes of the kernel's table.
LEMMA SlotTaken ==
    ASSUME IInv, NEW t, Extends(t), NEW s \in DOMAIN t, t[s] = None,
           NEW f \in Fds, SetFile(t, s, f)
    PROVE  /\ files' \in Seq(Entries) /\ DOMAIN files \subseteq DOMAIN files'
           /\ s \in DOMAIN files' /\ files'[s] = f /\ s \in Nat \ {0}
           /\ \A i \in UsedSlots(files) : i # s /\ files'[i] = files[i]
           /\ UsedSlots(files') = UsedSlots(files) \cup {s}
           /\ filesAllocated' \in Int
           /\ filesAllocated' = Cardinality(UsedSlots(files'))
<1>1. t \in Seq(Entries) /\ f \in Entries /\ f # None
  BY NamesAssumption DEF Extends, Entries
<1>2. filesAllocated = Cardinality(UsedSlots(t))
  BY DEF Extends, IInv, AllocatedCount
<1>3. /\ files' \in Seq(Entries) /\ DOMAIN files' = DOMAIN t
      /\ \A i \in DOMAIN t : files'[i] = IF i = s THEN f ELSE t[i]
      /\ UsedSlots(files') = UsedSlots(t) \cup {s}
      /\ filesAllocated' \in Int
      /\ filesAllocated' = Cardinality(UsedSlots(files'))
  BY <1>1, <1>2, SetFileCounts
<1>4. s \in Nat \ {0}
  BY <1>1, UsedFinite
<1>5. \A i \in UsedSlots(files) : i \in DOMAIN files /\ files[i] # None
  BY DEF UsedSlots, FreeSlots
<1> QED BY <1>3, <1>4, <1>5 DEF Extends

\* The kernel takes the slot, and the caller gets its handle.
LEMMA RegisterMade ==
    ASSUME IInv, NEW t, Extends(t), NEW s \in DOMAIN t, t[s] = None,
           NEW f \in Fds, open[f] # NoFile, SetFile(t, s, f),
           NEW h \in Holders, handle[h] = 0, Hold(h, s, f),
           UNCHANGED <<open, trouble, dead>>,
           ktab' \in Seq(Opened), ~trouble => TableCurrent'
    PROVE  IInv'
<1>1. /\ files' \in Seq(Entries) /\ DOMAIN files \subseteq DOMAIN files'
      /\ s \in DOMAIN files' /\ files'[s] = f /\ s \in Nat \ {0}
      /\ \A i \in UsedSlots(files) : i # s /\ files'[i] = files[i]
      /\ UsedSlots(files') = UsedSlots(files) \cup {s}
      /\ filesAllocated' \in Int
      /\ filesAllocated' = Cardinality(UsedSlots(files'))
  BY SlotTaken
<1>2. TypeOK /\ f # None
  BY NamesAssumption DEF IInv, AllocatedCount
<1>3. \A g \in Holders :
         /\ handle'[g] = IF g = h THEN s ELSE handle[g]
         /\ given'[g] = IF g = h THEN open[f] ELSE given[g]
  BY <1>2 DEF Hold, TypeOK
<1>4. \A g \in Holders : handle[g] # 0 => handle[g] \in UsedSlots(files)
  BY DEF IInv, HandlesDistinct, UsedSlots, FreeSlots
<1>5. AllocatedCount'
  <2>1. handle' \in [Holders -> Nat] /\ given' \in [Holders -> Opened]
    BY <1>1, <1>2 DEF TypeOK, Hold, Opened
  <2> QED BY <1>1, <1>2, <2>1 DEF AllocatedCount, TypeOK, Entries, Opened
<1>6. HandlesDistinct'
  <2>1. ASSUME NEW g \in Holders, handle'[g] # 0
        PROVE  handle'[g] \in DOMAIN files' /\ files'[handle'[g]] # None
    <3>1. CASE g = h
      BY <1>1, <1>2, <1>3, <3>1
    <3>2. CASE g # h
      <4>1. handle'[g] = handle[g] /\ handle[g] # 0
        BY <1>3, <2>1, <3>2
      <4> QED BY <1>1, <1>4, <4>1 DEF IInv, HandlesDistinct
    <3> QED BY <3>1, <3>2
  <2>2. ASSUME NEW g \in Holders, NEW k \in Holders,
               handle'[g] = handle'[k], handle'[g] # 0
        PROVE  g = k
    <3>1. CASE g = h \/ k = h
      BY <1>1, <1>3, <1>4, <2>2, <3>1
    <3>2. CASE g # h /\ k # h
      BY <1>3, <2>2, <3>2 DEF IInv, HandlesDistinct
    <3> QED BY <3>1, <3>2
  <2> QED BY <2>1, <2>2 DEF HandlesDistinct
<1>7. SlotsOwned'
  <2> SUFFICES ASSUME ~trouble, NEW i \in UsedSlots(files')
               PROVE  \E g \in Holders : handle'[g] = i
    BY DEF SlotsOwned
  <2>1. CASE i = s
    BY <1>3, <2>1
  <2>2. CASE i # s
    <3>1. PICK g \in Holders : handle[g] = i
      BY <1>1, <2>2 DEF IInv, SlotsOwned
    <3>2. i # 0
      BY <1>1, <2>2, UsedFinite, <1>2 DEF TypeOK, Entries, UsedSlots
    <3> QED BY <1>3, <3>1, <3>2
  <2> QED BY <2>1, <2>2
<1>8. HandleKeepsFile'
  <2> SUFFICES ASSUME ~trouble
               PROVE  TableCurrent' /\ \A g \in Holders : handle'[g] # 0 => Keeps(g)'
    BY DEF HandleKeepsFile
  <2>1. TableCurrent' /\ TableCurrent
    BY DEF IInv, HandleKeepsFile
  <2>2. ASSUME NEW g \in Holders, handle'[g] # 0 PROVE Keeps(g)'
    <3>1. CASE g = h
      <4>1. handle'[g] = s /\ given'[g] = open[f]
        BY <1>3, <3>1
      <4>2. s \in DOMAIN ktab' /\ ktab'[s] = open[f]
        BY <1>1, <1>2, <2>1 DEF TableCurrent
      <4> QED BY <4>1, <4>2 DEF Keeps
    <3>2. CASE g # h
      <4>1. handle'[g] = handle[g] /\ given'[g] = given[g] /\ handle[g] # 0
        BY <1>3, <2>2, <3>2
      <4>2. handle[g] \in UsedSlots(files) /\ Keeps(g)
        BY <1>4, <4>1 DEF IInv, HandleKeepsFile
      <4>3. handle[g] \in DOMAIN files /\ files[handle[g]] # None
        BY <4>2 DEF UsedSlots, FreeSlots
      <4>4. given[g] = open[files[handle[g]]]
        BY <2>1, <4>2, <4>3 DEF Keeps, TableCurrent
      <4>5. handle[g] \in DOMAIN files' /\ files'[handle[g]] = files[handle[g]]
        BY <1>1, <4>2, <4>3
      <4>6. handle[g] \in DOMAIN ktab' /\ ktab'[handle[g]] = open[files[handle[g]]]
        BY <2>1, <4>3, <4>5 DEF TableCurrent
      <4> QED BY <4>1, <4>4, <4>6 DEF Keeps
    <3> QED BY <3>1, <3>2
  <2> QED BY <2>1, <2>2
<1>9. NeverTerminates'
  BY DEF IInv, NeverTerminates
<1> QED BY <1>5, <1>6, <1>7, <1>8, <1>9 DEF IInv

\* The kernel refuses; the slot is in use, and no handle has it.
LEMMA RegisterRefused ==
    ASSUME IInv, NEW t, Extends(t), NEW s \in DOMAIN t, t[s] = None,
           NEW f \in Fds, SetFile(t, s, f),
           UNCHANGED <<open, handle, given, dead>>,
           ktab' \in Seq(Opened), trouble' = TRUE
    PROVE  IInv'
<1>1. /\ files' \in Seq(Entries) /\ DOMAIN files \subseteq DOMAIN files'
      /\ \A i \in UsedSlots(files) : i # s /\ files'[i] = files[i]
      /\ filesAllocated' \in Int
      /\ filesAllocated' = Cardinality(UsedSlots(files'))
  BY SlotTaken
<1>2. TypeOK
  BY DEF IInv, AllocatedCount
<1>3. AllocatedCount'
  <2>1. TypeOK'
    BY <1>1, <1>2 DEF TypeOK, Entries, Opened
  <2> QED BY <1>1, <2>1 DEF AllocatedCount
<1>4. HandlesDistinct'
  <2>1. \A g \in Holders : handle[g] # 0 => handle[g] \in UsedSlots(files)
    BY DEF IInv, HandlesDistinct, UsedSlots, FreeSlots
  <2>2. ASSUME NEW g \in Holders, handle[g] # 0
        PROVE  handle[g] \in DOMAIN files' /\ files'[handle[g]] # None
    BY <1>1, <2>1, <2>2 DEF IInv, HandlesDistinct
  <2> QED BY <2>2 DEF IInv, HandlesDistinct
<1>5. SlotsOwned' /\ HandleKeepsFile' /\ NeverTerminates'
  BY DEF SlotsOwned, HandleKeepsFile, NeverTerminates
<1> QED BY <1>3, <1>4, <1>5 DEF IInv

LEMMA RegisterFreeStep ==
    ASSUME IInv, NEW h \in Holders, NEW f \in Fds, RegisterFree(h, f)
    PROVE  IInv'
<1>1. PICK s \in FreeSlots(files) :
         /\ SetFile(files, s, f)
         /\ \/ UpdateDone(s, open[f]) /\ Hold(h, s, f)
            \/ UpdateFailed(s) /\ UNCHANGED <<handle, given>>
  BY DEF RegisterFree
<1>2. handle[h] = 0 /\ open[f] # NoFile /\ UNCHANGED <<open, dead>>
  BY DEF RegisterFree
<1>3. TypeOK /\ ktab \in Seq(Opened) /\ open[f] \in Opened
  BY DEF IInv, AllocatedCount, TypeOK, Opened
<1>4. s \in DOMAIN files /\ files[s] = None
  BY DEF FreeSlots
<1>5. Extends(files)
  BY <1>3 DEF Extends, TypeOK, Entries
<1>6. CASE UpdateDone(s, open[f]) /\ Hold(h, s, f)
  <2>1. /\ ktab' \in Seq(Opened) /\ DOMAIN ktab' = DOMAIN ktab
        /\ \A i \in DOMAIN ktab : ktab'[i] = IF i = s THEN open[f] ELSE ktab[i]
    BY <1>3, <1>6, UpdateMade
  <2>2. trouble' = trouble
    BY <1>6 DEF UpdateDone
  <2>3. ASSUME ~trouble PROVE TableCurrent'
    <3>1. TableCurrent
      BY <2>3 DEF IInv, HandleKeepsFile
    <3>2. files' = [files EXCEPT ![s] = f]
      BY <1>1 DEF SetFile
    <3>3. DOMAIN files' = DOMAIN files
      BY <3>2
    <3>4. \A i \in DOMAIN files : files'[i] = IF i = s THEN f ELSE files[i]
      BY <3>2
    <3>5. f # None
      BY NamesAssumption
    <3>6. DOMAIN ktab' = DOMAIN files'
      BY <2>1, <3>1, <3>3 DEF TableCurrent
    <3>7. \A i \in UsedSlots(files') : open'[files'[i]] # NoFile
      BY <1>2, <3>1, <3>3, <3>4 DEF TableCurrent, UsedSlots, FreeSlots
    <3>8. \A i \in DOMAIN files' :
             ktab'[i] = IF files'[i] = None THEN NoFile ELSE open'[files'[i]]
      BY <1>2, <2>1, <3>1, <3>3, <3>4, <3>5 DEF TableCurrent
    <3> QED BY <3>6, <3>7, <3>8 DEF TableCurrent
  <2> QED BY <1>1, <1>2, <1>4, <1>5, <1>6, <2>1, <2>2, <2>3, RegisterMade
<1>7. CASE UpdateFailed(s) /\ UNCHANGED <<handle, given>>
  <2>1. ktab' \in Seq(Opened)
    BY <1>3, <1>7 DEF UpdateFailed
  <2>2. trouble' = TRUE
    <3>1. trouble \/ s \in DOMAIN ktab
      BY <1>4 DEF IInv, HandleKeepsFile, TableCurrent
    <3> QED BY <1>3, <1>7, <3>1 DEF UpdateFailed, TypeOK
  <2> QED BY <1>1, <1>2, <1>4, <1>5, <1>7, <2>1, <2>2, RegisterRefused
<1> QED BY <1>1, <1>6, <1>7

LEMMA RegisterGrowStep ==
    ASSUME IInv, NEW h \in Holders, NEW f \in Fds, RegisterGrow(h, f)
    PROVE  IInv'
<1> DEFINE n == LargerOf(MinSize, 2 * Len(files) + 1)
           s == Len(files) + 1
           t == Resized(n)
<1>1. /\ handle[h] = 0 /\ open[f] # NoFile /\ UNCHANGED <<open, dead>>
      /\ SetFile(t, s, f)
      /\ \/ TableDone /\ Hold(h, s, f)
         \/ TableFailed /\ UNCHANGED <<handle, given>>
  BY DEF RegisterGrow
<1>2. TypeOK /\ files \in Seq(Entries) /\ open \in [Fds -> Opened]
  BY DEF IInv, AllocatedCount, TypeOK, Entries, Opened
<1>3. DOMAIN files = 1 .. Len(files) /\ Len(files) \in Nat
  BY <1>2, LenProperties
<1>4. n \in Nat /\ Len(files) <= n /\ s \in 1 .. n
  BY <1>3, SizesAssumption DEF LargerOf
<1> HIDE DEF n, s
<1>5. /\ t \in Seq(Entries) /\ DOMAIN t = 1 .. n
      /\ \A i \in 1 .. n : t[i] = IF i \in DOMAIN files THEN files[i] ELSE None
      /\ UsedSlots(t) = UsedSlots(files)
  BY <1>2, <1>4, ResizedKeeps
<1> HIDE DEF t
<1>6. Extends(t)
  BY <1>3, <1>4, <1>5 DEF Extends
<1>7. s \in DOMAIN t /\ t[s] = None
  BY <1>3, <1>4, <1>5 DEF s
<1>8. files' \in Seq(Entries)
  BY <1>1, <1>6, <1>7, SlotTaken
<1>9. CASE TableDone /\ Hold(h, s, f)
  <2>1. ktab' \in Seq(Opened) /\ TableCurrent'
    BY <1>1, <1>2, <1>8, <1>9, TableMade
  <2>2. trouble' = trouble
    BY <1>9 DEF TableDone
  <2> QED BY <1>1, <1>6, <1>7, <1>9, <2>1, <2>2, RegisterMade
<1>10. CASE TableFailed /\ UNCHANGED <<handle, given>>
  <2>1. ktab' \in Seq(Opened) /\ trouble' = TRUE
    BY <1>10, EmptySeq DEF TableFailed
  <2> QED BY <1>1, <1>6, <1>7, <1>10, <2>1, RegisterRefused
<1> QED BY <1>1, <1>9, <1>10

\* A handle gives its slot back.
LEMMA DropStep ==
    ASSUME IInv, NEW h \in Holders, Drop(h)
    PROVE  IInv'
<1> DEFINE s == handle[h]
<1>1. /\ s # 0 /\ SetFile(files, s, None) /\ open' = open
      /\ handle' = [handle EXCEPT ![h] = 0]
      /\ given' = [given EXCEPT ![h] = NoFile]
      /\ \/ UpdateDone(s, NoFile) /\ UNCHANGED dead
         \/ UpdateFailed(s) /\ dead' = TRUE
  BY DEF Drop
<1>2. /\ TypeOK /\ files \in Seq(Entries) /\ ktab \in Seq(Opened)
      /\ None \in Entries /\ NoFile \in Opened
      /\ filesAllocated = Cardinality(UsedSlots(files))
  BY DEF IInv, AllocatedCount, TypeOK, Entries, Opened
<1>3. s \in DOMAIN files /\ files[s] # None
  BY <1>1 DEF IInv, HandlesDistinct
<1>4. /\ files' \in Seq(Entries) /\ DOMAIN files' = DOMAIN files
      /\ \A i \in DOMAIN files : files'[i] = IF i = s THEN None ELSE files[i]
      /\ UsedSlots(files') = UsedSlots(files) \ {s}
      /\ filesAllocated' \in Int
      /\ filesAllocated' = Cardinality(UsedSlots(files'))
  BY <1>1, <1>2, <1>3, SetFileCounts
<1>5. \A g \in Holders :
         /\ handle'[g] = IF g = h THEN 0 ELSE handle[g]
         /\ given'[g] = IF g = h THEN NoFile ELSE given[g]
  BY <1>1, <1>2 DEF TypeOK
<1>6. \A g \in Holders : g # h /\ handle[g] # 0 => handle[g] # s
  BY <1>1 DEF IInv, HandlesDistinct
<1> HIDE DEF s
<1>7. ktab' \in Seq(Opened)
  <2>1. CASE UpdateDone(s, NoFile)
    BY <1>2, <2>1, UpdateMade
  <2>2. CASE UpdateFailed(s)
    BY <1>2, <2>2 DEF UpdateFailed
  <2> QED BY <1>1, <2>1, <2>2
<1>8. trouble' \in BOOLEAN /\ dead' \in BOOLEAN
  BY <1>1, <1>2 DEF TypeOK, UpdateDone, UpdateFailed
<1>9. ASSUME ~trouble'
      PROVE  ~trouble /\ dead' = dead /\ UpdateDone(s, NoFile)
  <2>1. trouble \/ s \in DOMAIN ktab
    BY <1>3 DEF IInv, HandleKeepsFile, TableCurrent
  <2> QED BY <1>1, <1>2, <1>9, <2>1 DEF UpdateDone, UpdateFailed, TypeOK
<1>10. AllocatedCount'
  <2>1. handle' \in [Holders -> Nat] /\ given' \in [Holders -> Opened]
    BY <1>1, <1>2 DEF TypeOK, Opened
  <2> QED BY <1>1, <1>2, <1>4, <1>7, <1>8, <2>1
      DEF AllocatedCount, TypeOK, Entries, Opened
<1>11. HandlesDistinct'
  <2>1. ASSUME NEW g \in Holders, handle'[g] # 0
        PROVE  handle'[g] \in DOMAIN files' /\ files'[handle'[g]] # None
    BY <1>4, <1>5, <1>6, <2>1 DEF IInv, HandlesDistinct
  <2>2. ASSUME NEW g \in Holders, NEW k \in Holders,
               handle'[g] = handle'[k], handle'[g] # 0
        PROVE  g = k
    BY <1>5, <2>2 DEF IInv, HandlesDistinct
  <2> QED BY <2>1, <2>2 DEF HandlesDistinct
<1>12. SlotsOwned'
  <2> SUFFICES ASSUME ~trouble', NEW i \in UsedSlots(files')
               PROVE  \E g \in Holders : handle'[g] = i
    BY DEF SlotsOwned
  <2>1. i \in UsedSlots(files) /\ i # s
    BY <1>4
  <2>2. PICK g \in Holders : handle[g] = i
    BY <1>9, <2>1 DEF IInv, SlotsOwned
  <2> QED BY <1>5, <2>1, <2>2 DEF s
<1>13. HandleKeepsFile'
  <2> SUFFICES ASSUME ~trouble'
               PROVE  TableCurrent' /\ \A g \in Holders : handle'[g] # 0 => Keeps(g)'
    BY DEF HandleKeepsFile
  <2>1. TableCurrent /\ \A g \in Holders : handle[g] # 0 => Keeps(g)
    BY <1>9 DEF IInv, HandleKeepsFile
  <2>2. /\ DOMAIN ktab' = DOMAIN ktab
        /\ \A i \in DOMAIN ktab : ktab'[i] = IF i = s THEN NoFile ELSE ktab[i]
    BY <1>2, <1>9, UpdateMade
  <2>3. TableCurrent'
    <3>1. DOMAIN ktab' = DOMAIN files'
      BY <1>4, <2>1, <2>2 DEF TableCurrent
    <3>2. \A i \in UsedSlots(files') : open[files'[i]] # NoFile
      BY <1>4, <2>1 DEF TableCurrent, UsedSlots, FreeSlots
    <3>3. \A i \in DOMAIN files' :
             ktab'[i] = IF files'[i] = None THEN NoFile ELSE open[files'[i]]
      BY <1>4, <2>1, <2>2 DEF TableCurrent
    <3> QED BY <1>1, <3>1, <3>2, <3>3 DEF TableCurrent
  <2>4. ASSUME NEW g \in Holders, handle'[g] # 0 PROVE Keeps(g)'
    <3>1. g # h /\ handle'[g] = handle[g] /\ given'[g] = given[g] /\ handle[g] # s
      BY <1>5, <1>6, <2>4
    <3>2. Keeps(g)
      BY <2>1, <2>4, <3>1
    <3> QED BY <2>2, <3>1, <3>2 DEF Keeps
  <2> QED BY <2>3, <2>4
<1>14. NeverTerminates'
  BY <1>8, <1>9 DEF IInv, NeverTerminates
<1> QED BY <1>10, <1>11, <1>12, <1>13, <1>14 DEF IInv

-----------------------------------------------------------------------------
(* Theorems *)

LEMMA NextStep == IInv /\ [Next]_vars => IInv'
<1> SUFFICES ASSUME IInv, [Next]_vars PROVE IInv'
  OBVIOUS
<1>1. ASSUME NEW f \in Fds, NEW x \in OpenFiles, OpenFd(f, x) PROVE IInv'
  BY <1>1, OpenFdStep
<1>2. ASSUME NEW f \in Fds, CloseFd(f) PROVE IInv'
  BY <1>2, CloseFdStep
<1>3. ASSUME NEW h \in Holders, NEW f \in Fds, RegisterFree(h, f) PROVE IInv'
  BY <1>3, RegisterFreeStep
<1>4. ASSUME NEW h \in Holders, NEW f \in Fds, RegisterGrow(h, f) PROVE IInv'
  BY <1>4, RegisterGrowStep
<1>5. ASSUME NEW num \in 0 .. MaxReserve, Reserve(num) PROVE IInv'
  BY <1>5, ReserveStep
<1>6. ASSUME NEW h \in Holders, Drop(h) PROVE IInv'
  BY <1>6, DropStep
<1>7. ASSUME NEW a \in Holders, NEW b \in Holders, Move(a, b) PROVE IInv'
  BY <1>7, MoveStep
<1>8. CASE UNCHANGED vars
  BY <1>8 DEF vars, ring, IInv, AllocatedCount, TypeOK, HandlesDistinct,
     SlotsOwned, HandleKeepsFile, TableCurrent, Keeps, NeverTerminates,
     UsedSlots, FreeSlots
<1> QED BY <1>1, <1>2, <1>3, <1>4, <1>5, <1>6, <1>7, <1>8 DEF Next

\* A table that reserveFiles made has room for the number it was asked for.
LEMMA ReserveMakesRoom ==
    ASSUME IInv, NEW num \in 0 .. MaxReserve, Reserve(num)
    PROVE  Cardinality(FreeSlots(files')) >= num
<1> DEFINE n == LargerOf(MinSize, num + filesAllocated)
<1>1. files \in Seq(Entries) /\ filesAllocated = Cardinality(UsedSlots(files))
  BY DEF IInv, AllocatedCount, TypeOK, Entries
<1>2. filesAllocated \in Nat /\ Len(files) \in Nat /\ num \in Nat
  BY <1>1, UsedFinite, SizesAssumption
<1>3. n \in Nat /\ n >= num + filesAllocated
  BY <1>2, SizesAssumption DEF LargerOf
<1>4. Len(files) <= n /\ files' = Resized(n)
  BY <1>2, <1>3 DEF Reserve
<1> HIDE DEF n
<1>5. /\ files' \in Seq(Entries) /\ DOMAIN files' = 1 .. n
      /\ UsedSlots(files') = UsedSlots(files)
  BY <1>1, <1>3, <1>4, ResizedKeeps
<1>6. FreeSlots(files') = DOMAIN files' \ UsedSlots(files')
  BY DEF UsedSlots, FreeSlots
<1>7. (DOMAIN files') \cap UsedSlots(files') = UsedSlots(files')
  BY DEF UsedSlots
<1>8. IsFiniteSet(DOMAIN files') /\ Cardinality(DOMAIN files') = n
  BY <1>3, <1>5, FS_Interval
<1>9. Cardinality(FreeSlots(files')) = n - filesAllocated
  <2>1. Cardinality(DOMAIN files' \ UsedSlots(files')) =
           Cardinality(DOMAIN files') - Cardinality((DOMAIN files') \cap UsedSlots(files'))
    BY <1>8, FS_Difference
  <2>2. Cardinality(UsedSlots(files')) = filesAllocated
    BY <1>1, <1>5
  <2> QED BY <1>6, <1>7, <1>8, <2>1, <2>2
<1> QED BY <1>2, <1>3, <1>9

LEMMA Invariance == Spec => []IInv
<1>1. Init => IInv
  BY InitHolds
<1>2. IInv /\ [Next]_vars => IInv'
  BY NextStep
<1> QED BY <1>1, <1>2, PTL DEF Spec

\* A slot belongs to one handle at most and is in use while it does, whatever
\* the kernel refuses.
THEOREM SlotsDistinct == Spec => []HandlesDistinct
<1>1. IInv => HandlesDistinct
  BY DEF IInv
<1> QED BY <1>1, Invariance, PTL

\* The ring's count of slots is exact, whatever the kernel refuses.
THEOREM CountExact == Spec => []AllocatedCount
<1>1. IInv => AllocatedCount
  BY DEF IInv
<1> QED BY <1>1, Invariance, PTL

\* While the kernel refuses nothing, every slot in use will be given back.
THEOREM SlotsGivenBack == Spec => []SlotsOwned
<1>1. IInv => SlotsOwned
  BY DEF IInv
<1> QED BY <1>1, Invariance, PTL

\* And the tables of the ring and the kernel agree on what it stands for.
THEOREM FilesKept == Spec => []HandleKeepsFile
<1>1. IInv => HandleKeepsFile
  BY DEF IInv
<1> QED BY <1>1, Invariance, PTL

\* And the program does not end.
THEOREM NoTermination == Spec => []NeverTerminates
<1>1. IInv => NeverTerminates
  BY DEF IInv
<1> QED BY <1>1, Invariance, PTL

\* reserveFiles makes the room it was asked for.
THEOREM RoomReserved == Spec => ReserveEnough
<1>1. IInv /\ [Next]_vars =>
         [\A num \in 0 .. MaxReserve :
             Reserve(num) => Cardinality(FreeSlots(files')) >= num]_vars
  BY ReserveMakesRoom
<1> QED BY <1>1, Invariance, PTL DEF Spec, ReserveEnough

-----------------------------------------------------------------------------
(* The event descriptor *)

\* The requests on the queue after a post and after the head is taken.
LEMMA PostedAfter ==
    ASSUME EventsTypeOK
    PROVE  /\ \A r \in Reqs : cq' = Append(cq, r) =>
                 cq' \in Seq(Reqs) /\ Posted' = Posted \cup {r} /\ cq' # <<>>
           /\ cq' = Tail(cq) /\ cq # <<>> =>
                 cq' \in Seq(Reqs) /\ Posted' \subseteq Posted
           /\ cq' = cq => Posted' = Posted
<1>1. cq \in Seq(Reqs)
  BY DEF EventsTypeOK
<1>2. ASSUME NEW r \in Reqs, cq' = Append(cq, r)
      PROVE  cq' \in Seq(Reqs) /\ Posted' = Posted \cup {r} /\ cq' # <<>>
  <2>1. /\ cq' \in Seq(Reqs) /\ cq' # <<>> /\ Len(cq') = Len(cq) + 1
        /\ \A i \in 1 .. Len(cq) : cq'[i] = cq[i]
        /\ cq'[Len(cq) + 1] = r
    BY <1>1, <1>2, AppendProperties
  <2>2. DOMAIN cq = 1 .. Len(cq) /\ DOMAIN cq' = 1 .. Len(cq) + 1 /\ Len(cq) \in Nat
    BY <1>1, <2>1
  <2> QED BY <2>1, <2>2 DEF Posted
<1>3. ASSUME cq' = Tail(cq), cq # <<>>
      PROVE  cq' \in Seq(Reqs) /\ Posted' \subseteq Posted
  <2>1. /\ cq' \in Seq(Reqs) /\ Len(cq') = Len(cq) - 1
        /\ \A i \in 1 .. Len(cq') : cq'[i] = cq[i + 1]
    BY <1>1, <1>3, HeadTailProperties
  <2>2. DOMAIN cq = 1 .. Len(cq) /\ DOMAIN cq' = 1 .. Len(cq) - 1 /\ Len(cq) \in Nat
    BY <1>1, <2>1
  <2>3. ASSUME NEW r \in Posted' PROVE r \in Posted
    <3>1. PICK i \in 1 .. Len(cq) - 1 : r = cq'[i]
      BY <2>2 DEF Posted
    <3>2. i + 1 \in 1 .. Len(cq) /\ r = cq[i + 1]
      BY <2>1, <2>2, <3>1
    <3> QED BY <2>2, <3>2 DEF Posted
  <2> QED BY <2>1, <2>3
<1>4. cq' = cq => Posted' = Posted
  BY DEF Posted
<1> QED BY <1>2, <1>3, <1>4

LEMMA EventsInitHolds == EventsInit => EventsInv
<1> SUFFICES ASSUME EventsInit PROVE EventsInv
  OBVIOUS
<1>1. cq \in Seq(Reqs) /\ Posted = {}
  BY EmptySeq DEF EventsInit, Posted
<1> QED BY <1>1 DEF EventsInit, EventsInv, EventsTypeOK, NoLostWakeup

LEMMA EventsNextStep ==
    ASSUME EventsInv, [EventsNext]_eventsVars
    PROVE  EventsInv'
<1> USE DEF EventsInv, EventsTypeOK, NoLostWakeup, kernelVars
<1>1. ASSUME NEW r \in Reqs, Submit(r) PROVE EventsInv'
  BY <1>1, PostedAfter DEF Submit
<1>2. ASSUME NEW r \in Reqs, Post(r) PROVE EventsInv'
  BY <1>2, PostedAfter DEF Post
<1>3. CASE Signal
  BY <1>3, PostedAfter DEF Signal
<1>4. ASSUME NEW events \in BOOLEAN, CreateEventFd(events) PROVE EventsInv'
  BY <1>4, PostedAfter DEF CreateEventFd
<1>5. CASE RegisterEventFd
  BY <1>5, PostedAfter DEF RegisterEventFd
<1>6. CASE ProcessEvents \/ Process
  BY <1>6, PostedAfter DEF ProcessEvents, Process
<1>7. CASE ReadEventFd
  BY <1>7, PostedAfter DEF ReadEventFd
<1>8. CASE Peek
  <2>1. cq = <<>> => Posted = {}
    BY DEF Posted
  <2> QED BY <1>8, <2>1, PostedAfter DEF Peek
<1>9. CASE CallbackReturn
  BY <1>9, PostedAfter DEF CallbackReturn
<1>10. CASE UNCHANGED eventsVars
  BY <1>10, PostedAfter DEF eventsVars
<1> QED BY <1>1, <1>2, <1>3, <1>4, <1>5, <1>6, <1>7, <1>8, <1>9, <1>10 DEF EventsNext

\* A completion posted since the ring has an event descriptor always has a
\* wakeup coming, however the kernel's posts and signals interleave with
\* processEvents and its handlers.
THEOREM WakeupsKept == EventsSpec => []NoLostWakeup
<1>1. EventsInit => EventsInv
  BY EventsInitHolds
<1>2. EventsInv /\ [EventsNext]_eventsVars => EventsInv'
  BY EventsNextStep
<1>3. EventsInv => NoLostWakeup
  BY DEF EventsInv
<1> QED BY <1>1, <1>2, <1>3, PTL DEF EventsSpec

=================================================================================
