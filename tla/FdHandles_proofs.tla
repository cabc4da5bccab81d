--------------------------- MODULE FdHandles_proofs ---------------------------
(***************************************************************************)
(* Proofs that descriptor handles keep their files and own their           *)
(* descriptors as Handles.tla says, for any objects, files and descriptor  *)
(* tables.                                                                 *)
(***************************************************************************)
EXTENDS FdHandles, WellFoundedInduction, TLAPS

-----------------------------------------------------------------------------
(* The kernel's choice *)

Less == {ss \in Nat \X Nat : ss[1] < ss[2]}

LEMMA LessIsWellFounded == IsWellFoundedOn(Less, Nat)
<1>1. OpToRel(<, Nat) = Less
  BY Zenon DEF OpToRel, Less
<1> QED BY <1>1, NatLessThanWellFounded

\* There is a lowest free descriptor, when there is one.
LEMMA MinIsElement ==
    ASSUME NEW S, S \subseteq Nat, S # {}
    PROVE  Min(S) \in S
<1>1. PICK x \in S : \A y \in S : ~(<<y, x>> \in Less)
  BY WFMin, LessIsWellFounded
<1>2. \A y \in S : x =< y
  <2>1. ASSUME NEW y \in S, y < x PROVE <<y, x>> \in Less
    <3>1. <<y, x>> \in Nat \X Nat
      OBVIOUS
    <3>2. <<y, x>>[1] < <<y, x>>[2]
      BY <2>1
    <3> QED BY <3>1, <3>2, Zenon DEF Less
  <2>2. \A y \in S : ~(y < x)
    BY <1>1, <2>1, Zenon
  <2> QED BY <2>2
<1>3. \E m \in S : \A y \in S : m =< y
  BY <1>2
<1> QED BY <1>3, Zenon DEF Min

LEMMA MinIsFree ==
    ASSUME NEW tab, NEW low, FreeFrom(tab, low) # {}
    PROVE  Min(FreeFrom(tab, low)) \in Fds /\ tab[Min(FreeFrom(tab, low))] = NoFile
<1>1. FreeFrom(tab, low) \subseteq Nat
  BY NumbersAssumption DEF FreeFrom, Fds
<1>2. Min(FreeFrom(tab, low)) \in FreeFrom(tab, low)
  BY <1>1, MinIsElement
<1> QED BY <1>2 DEF FreeFrom

-----------------------------------------------------------------------------
(* A handle that refers to a descriptor *)

Became(o, f, d) ==
    /\ file' = [Dropped(o) EXCEPT ![d] = file[f]]
    /\ cloexec' = cloexec \cup {d}
    /\ handle' = [handle EXCEPT ![o] = d]
    /\ want' = [want EXCEPT ![o] = file[f]]
    /\ ended' = ended /\ raw' = raw

\* What Ref comes to, whether the object's own descriptor goes first or last:
\* the duplicate is a free descriptor or takes the place of its own.
LEMMA RefBecomes ==
    ASSUME TypeOK, NEW o \in Objs, NEW f \in Fds, NEW before,
           before = file \/ before = Dropped(o), Ref(o, f, before)
    PROVE  \/ \E d \in Fds : (file[d] = NoFile \/ d = handle[o]) /\ Became(o, f, d)
           \/ ended' = "dup" /\ UNCHANGED <<file, cloexec, handle, raw, want>>
<1>1. CASE FreeFrom(before, f) = {}
  BY <1>1 DEF Ref
<1>2. CASE FreeFrom(before, f) # {}
  <2> DEFINE d == Min(FreeFrom(before, f))
  <2>1. d \in Fds /\ before[d] = NoFile
    BY <1>2, MinIsFree
  <2>2. file[d] = NoFile \/ d = handle[o]
    BY <2>1 DEF Dropped
  <2>3. Became(o, f, d)
    BY <1>2 DEF Ref, Became
  <2> QED BY <2>1, <2>2, <2>3
<1> QED BY <1>1, <1>2

LEMMA BecameKeeps ==
    ASSUME HandleKeepsFile, NEW o \in Objs, NEW f \in Fds, Open(f), f # handle[o],
           NEW d \in Fds, file[d] = NoFile \/ d = handle[o], Became(o, f, d)
    PROVE  HandleKeepsFile'
<1>1. TypeOK /\ FdsOwned
  BY DEF HandleKeepsFile
<1>2. \A g \in Fds : file'[g] = IF g = d THEN file[f]
                                ELSE IF g = handle[o] THEN NoFile ELSE file[g]
  BY DEF Became, Dropped
<1>3. \A q \in Objs : /\ handle'[q] = IF q = o THEN d ELSE handle[q]
                      /\ want'[q] = IF q = o THEN file[f] ELSE want[q]
  BY <1>1 DEF Became, TypeOK
<1>4. file[f] \in Files /\ file[f] # NoFile
  BY <1>1 DEF Open, TypeOK
<1>5. d # Closed /\ raw' = raw /\ cloexec' = cloexec \cup {d}
  BY NumbersAssumption DEF Became, Fds
<1>6. \A q \in Objs : q # o /\ handle[q] # Closed => handle[q] # handle[o] /\ handle[q] # d
  BY <1>1 DEF FdsOwned, Open
<1>7. TypeOK'
  <2>1. file' \in [Fds -> Files \cup {NoFile}]
    BY <1>1, <1>4 DEF Became, Dropped, TypeOK
  <2> QED BY <1>1, <1>4, <2>1 DEF Became, TypeOK
<1>8. FdsOwned'
  <2>1. ASSUME NEW g \in Fds, Open(g)'
        PROVE  g \in raw' \/ \E q \in Objs : handle'[q] = g
    <3>1. CASE g = d
      BY <1>3, <3>1
    <3>2. CASE g # d
      <4>1. g # handle[o] /\ Open(g)
        BY <1>2, <2>1, <3>2 DEF Open
      <4>2. g \in raw \/ \E q \in Objs : handle[q] = g
        BY <1>1, <4>1 DEF FdsOwned
      <4> QED BY <1>3, <1>5, <4>1, <4>2
    <3> QED BY <3>1, <3>2
  <2>2. ASSUME NEW g \in raw' PROVE Open(g)' /\ \A q \in Objs : handle'[q] # g
    <3>1. g \in Fds /\ Open(g) /\ \A q \in Objs : handle[q] # g
      BY <1>1, <1>5 DEF FdsOwned, TypeOK
    <3>2. g # d /\ g # handle[o]
      BY <3>1 DEF Open
    <3> QED BY <1>2, <1>3, <3>1, <3>2 DEF Open
  <2>3. ASSUME NEW q \in Objs, handle'[q] # Closed PROVE file'[handle'[q]] # NoFile
    <3>1. CASE q = o
      BY <1>2, <1>3, <1>4, <3>1
    <3>2. CASE q # o
      <4>1. handle'[q] = handle[q] /\ handle[q] \in Fds /\ Open(handle[q])
        BY <1>1, <1>3, <2>3, <3>2 DEF FdsOwned, TypeOK
      <4> QED BY <1>2, <1>6, <2>3, <3>2, <4>1 DEF Open
    <3> QED BY <3>1, <3>2
  <2>4. ASSUME NEW q \in Objs, NEW r \in Objs, handle'[q] # Closed,
               handle'[q] = handle'[r]
        PROVE  q = r
    <3>1. CASE q = o \/ r = o
      BY <1>3, <1>5, <1>6, <2>4, <3>1
    <3>2. CASE q # o /\ r # o
      BY <1>1, <1>3, <2>4, <3>2 DEF FdsOwned
    <3> QED BY <3>1, <3>2
  <2> QED BY <2>1, <2>2, <2>3, <2>4 DEF FdsOwned, Open
<1>9. ASSUME NEW q \in Objs, handle'[q] # Closed
      PROVE  file'[handle'[q]] = want'[q] /\ handle'[q] \in cloexec'
  <2>1. CASE q = o
    BY <1>2, <1>3, <1>5, <2>1
  <2>2. CASE q # o
    <3>1. handle'[q] = handle[q] /\ want'[q] = want[q] /\ handle[q] \in Fds
      BY <1>1, <1>3, <1>9, <2>2 DEF TypeOK
    <3>2. file[handle[q]] = want[q] /\ handle[q] \in cloexec
      BY <1>9, <3>1 DEF HandleKeepsFile
    <3> QED BY <1>2, <1>5, <1>6, <1>9, <2>2, <3>1, <3>2
  <2> QED BY <2>1, <2>2
<1> QED BY <1>7, <1>8, <1>9 DEF HandleKeepsFile

-----------------------------------------------------------------------------
(* The inductive invariant *)

LEMMA InitHolds == Init => HandleKeepsFile
<1> SUFFICES ASSUME Init PROVE HandleKeepsFile
  OBVIOUS
<1>1. TypeOK
  BY DEF Init, TypeOK
<1>2. FdsOwned
  BY DEF Init, FdsOwned, Open
<1> QED BY <1>1, <1>2 DEF Init, HandleKeepsFile

LEMMA SysOpenStep ==
    ASSUME HandleKeepsFile, NEW a \in Files, SysOpen(a)
    PROVE  HandleKeepsFile'
<1>1. PICK f \in Fds : /\ file[f] = NoFile
                       /\ file' = [file EXCEPT ![f] = a]
                       /\ cloexec' = cloexec \ {f}
                       /\ raw' = raw \cup {f}
                       /\ UNCHANGED <<handle, want, ended>>
  BY MinIsFree DEF SysOpen
<1>2. TypeOK /\ FdsOwned
  BY DEF HandleKeepsFile
<1>3. \A g \in Fds : file'[g] = IF g = f THEN a ELSE file[g]
  BY <1>1, <1>2 DEF TypeOK
<1>4. \A o \in Objs : handle[o] # f
  BY <1>1, <1>2, NumbersAssumption DEF FdsOwned, Open, Fds
<1>5. a # NoFile
  BY NoFileAssumption
<1>6. TypeOK'
  BY <1>1, <1>2 DEF TypeOK
<1>7. FdsOwned'
  <2>1. \A g \in Fds : Open(g)' => g \in raw' \/ \E o \in Objs : handle'[o] = g
    BY <1>1, <1>2, <1>3 DEF FdsOwned, Open
  <2>2. \A g \in raw' : Open(g)' /\ \A o \in Objs : handle'[o] # g
    BY <1>1, <1>2, <1>3, <1>4, <1>5 DEF FdsOwned, Open, TypeOK
  <2>3. \A o \in Objs : handle'[o] # Closed => file'[handle'[o]] # NoFile
    BY <1>1, <1>2, <1>3, <1>5 DEF FdsOwned, Open, TypeOK
  <2>4. \A o, p \in Objs : handle'[o] # Closed /\ handle'[o] = handle'[p] => o = p
    BY <1>1, <1>2 DEF FdsOwned
  <2> QED BY <2>1, <2>2, <2>3, <2>4 DEF FdsOwned, Open
<1>8. ASSUME NEW o \in Objs, handle'[o] # Closed
      PROVE  file'[handle'[o]] = want'[o] /\ handle'[o] \in cloexec'
  BY <1>1, <1>2, <1>3, <1>4, <1>8 DEF HandleKeepsFile, TypeOK
<1> QED BY <1>6, <1>7, <1>8 DEF HandleKeepsFile

LEMMA SysCloseStep ==
    ASSUME HandleKeepsFile, NEW f \in Fds, SysClose(f)
    PROVE  HandleKeepsFile'
<1>1. /\ f \in raw /\ file' = [file EXCEPT ![f] = NoFile] /\ raw' = raw \ {f}
      /\ UNCHANGED <<cloexec, handle, want, ended>>
  BY DEF SysClose
<1>2. TypeOK /\ FdsOwned
  BY DEF HandleKeepsFile
<1>3. \A g \in Fds : file'[g] = IF g = f THEN NoFile ELSE file[g]
  BY <1>1, <1>2 DEF TypeOK
<1>4. \A o \in Objs : handle[o] # f
  BY <1>1, <1>2 DEF FdsOwned
<1>5. TypeOK'
  BY <1>1, <1>2 DEF TypeOK
<1>6. FdsOwned'
  BY <1>1, <1>2, <1>3, <1>4 DEF FdsOwned, Open, TypeOK
<1>7. ASSUME NEW o \in Objs, handle'[o] # Closed
      PROVE  file'[handle'[o]] = want'[o] /\ handle'[o] \in cloexec'
  BY <1>1, <1>2, <1>3, <1>4, <1>7 DEF HandleKeepsFile, TypeOK
<1> QED BY <1>5, <1>6, <1>7 DEF HandleKeepsFile

LEMMA AdoptStep ==
    ASSUME HandleKeepsFile, NEW o \in Objs, NEW f \in Fds, Adopt(o, f)
    PROVE  HandleKeepsFile'
<1>1. /\ handle[o] = Closed /\ f \in raw
      /\ handle' = [handle EXCEPT ![o] = f]
      /\ want' = [want EXCEPT ![o] = file[f]]
      /\ raw' = raw \ {f} /\ cloexec' = cloexec \cup {f}
      /\ UNCHANGED <<file, ended>>
  BY DEF Adopt
<1>2. TypeOK /\ FdsOwned
  BY DEF HandleKeepsFile
<1>3. \A q \in Objs : /\ handle'[q] = IF q = o THEN f ELSE handle[q]
                      /\ want'[q] = IF q = o THEN file[f] ELSE want[q]
  BY <1>1, <1>2 DEF TypeOK
<1>4. file[f] # NoFile /\ f # Closed /\ \A q \in Objs : handle[q] # f
  BY <1>1, <1>2, NumbersAssumption DEF FdsOwned, Open, Fds
<1>5. TypeOK'
  BY <1>1, <1>2 DEF TypeOK
<1>6. FdsOwned'
  <2>1. \A g \in Fds : Open(g)' => g \in raw' \/ \E q \in Objs : handle'[q] = g
    BY <1>1, <1>2, <1>3, <1>4, NumbersAssumption DEF FdsOwned, Open, Fds
  <2>2. \A g \in raw' : Open(g)' /\ \A q \in Objs : handle'[q] # g
    BY <1>1, <1>2, <1>3 DEF FdsOwned, Open
  <2>3. \A q \in Objs : handle'[q] # Closed => file'[handle'[q]] # NoFile
    BY <1>1, <1>2, <1>3, <1>4 DEF FdsOwned, Open
  <2>4. ASSUME NEW q \in Objs, NEW r \in Objs, handle'[q] # Closed,
               handle'[q] = handle'[r]
        PROVE  q = r
    BY <1>2, <1>3, <1>4, <2>4 DEF FdsOwned
  <2> QED BY <2>1, <2>2, <2>3, <2>4 DEF FdsOwned, Open
<1>7. ASSUME NEW q \in Objs, handle'[q] # Closed
      PROVE  file'[handle'[q]] = want'[q] /\ handle'[q] \in cloexec'
  BY <1>1, <1>3, <1>7 DEF HandleKeepsFile
<1> QED BY <1>5, <1>6, <1>7 DEF HandleKeepsFile

\* An object's descriptor goes, and the object takes what another one has.
LEMMA MoveStep ==
    ASSUME HandleKeepsFile, NEW o \in Objs, NEW p \in Objs, Move(o, p)
    PROVE  HandleKeepsFile'
<1>1. /\ o # p /\ file' = Dropped(o)
      /\ handle' = [handle EXCEPT ![o] = handle[p], ![p] = Closed]
      /\ want' = [want EXCEPT ![o] = want[p]]
      /\ UNCHANGED <<cloexec, raw, ended>>
  BY DEF Move
<1>2. TypeOK /\ FdsOwned
  BY DEF HandleKeepsFile
<1>3. \A g \in Fds : file'[g] = IF g = handle[o] THEN NoFile ELSE file[g]
  BY <1>1 DEF Dropped
<1>4. \A q \in Objs :
         /\ handle'[q] = IF q = o THEN handle[p] ELSE IF q = p THEN Closed ELSE handle[q]
         /\ want'[q] = IF q = o THEN want[p] ELSE want[q]
  BY <1>1, <1>2 DEF TypeOK
<1>5. \A q \in Objs : q # o /\ handle[q] # Closed => handle[q] # handle[o]
  BY <1>2 DEF FdsOwned
<1>6. TypeOK'
  BY <1>1, <1>2 DEF TypeOK, Dropped
<1>7. FdsOwned'
  <2>1. ASSUME NEW g \in Fds, Open(g)'
        PROVE  g \in raw' \/ \E q \in Objs : handle'[q] = g
    <3>1. g # handle[o] /\ Open(g)
      BY <1>3, <2>1 DEF Open
    <3>2. CASE g \in raw
      BY <1>1, <3>2
    <3>3. ASSUME NEW q \in Objs, handle[q] = g
          PROVE  \E r \in Objs : handle'[r] = g
      <4>1. CASE q = p
        BY <1>4, <3>3, <4>1
      <4>2. CASE q # p
        BY <1>4, <3>1, <3>3, <4>2
      <4> QED BY <4>1, <4>2
    <3> QED BY <1>2, <3>1, <3>2, <3>3 DEF FdsOwned
  <2>2. \A g \in raw' : Open(g)' /\ \A q \in Objs : handle'[q] # g
    <3>1. ASSUME NEW g \in raw'
          PROVE  g \in Fds /\ file[g] # NoFile /\ \A q \in Objs : handle[q] # g
      BY <1>1, <1>2 DEF FdsOwned, Open, TypeOK
    <3>2. \A g \in raw' : g # Closed
      BY <3>1, NumbersAssumption DEF Fds
    <3> QED BY <1>3, <1>4, <3>1, <3>2 DEF Open
  <2>3. ASSUME NEW q \in Objs, handle'[q] # Closed PROVE file'[handle'[q]] # NoFile
    <3>1. CASE q = o
      <4>1. handle'[q] = handle[p] /\ handle[p] # Closed /\ handle[p] \in Fds
        BY <1>2, <1>4, <2>3, <3>1 DEF TypeOK
      <4> QED BY <1>1, <1>2, <1>3, <1>5, <4>1 DEF FdsOwned, Open
    <3>2. CASE q # o
      <4>1. handle'[q] = handle[q] /\ handle[q] # Closed /\ handle[q] \in Fds
        BY <1>2, <1>4, <2>3, <3>2 DEF TypeOK
      <4> QED BY <1>2, <1>3, <1>5, <3>2, <4>1 DEF FdsOwned, Open
    <3> QED BY <3>1, <3>2
  <2>4. ASSUME NEW q \in Objs, NEW r \in Objs, handle'[q] # Closed,
               handle'[q] = handle'[r]
        PROVE  q = r
    BY <1>2, <1>4, <2>4 DEF FdsOwned
  <2> QED BY <2>1, <2>2, <2>3, <2>4 DEF FdsOwned, Open
<1>8. ASSUME NEW q \in Objs, handle'[q] # Closed
      PROVE  file'[handle'[q]] = want'[q] /\ handle'[q] \in cloexec'
  <2>1. CASE q = o
    <3>1. handle'[q] = handle[p] /\ handle[p] # Closed /\ handle[p] \in Fds
      BY <1>2, <1>4, <1>8, <2>1 DEF TypeOK
    <3> QED BY <1>1, <1>3, <1>4, <1>5, <2>1, <3>1 DEF HandleKeepsFile
  <2>2. CASE q # o
    <3>1. handle'[q] = handle[q] /\ handle[q] # Closed /\ handle[q] \in Fds
      BY <1>2, <1>4, <1>8, <2>2 DEF TypeOK
    <3> QED BY <1>1, <1>3, <1>4, <1>5, <2>2, <3>1 DEF HandleKeepsFile
  <2> QED BY <2>1, <2>2
<1> QED BY <1>6, <1>7, <1>8 DEF HandleKeepsFile

LEMMA DropStep ==
    ASSUME HandleKeepsFile, NEW o \in Objs, Drop(o)
    PROVE  HandleKeepsFile'
<1>1. /\ handle[o] # Closed /\ file' = Dropped(o)
      /\ handle' = [handle EXCEPT ![o] = Closed]
      /\ UNCHANGED <<cloexec, raw, want, ended>>
  BY DEF Drop
<1>2. TypeOK /\ FdsOwned
  BY DEF HandleKeepsFile
<1>3. \A g \in Fds : file'[g] = IF g = handle[o] THEN NoFile ELSE file[g]
  BY <1>1 DEF Dropped
<1>4. \A q \in Objs : handle'[q] = IF q = o THEN Closed ELSE handle[q]
  BY <1>1, <1>2 DEF TypeOK
<1>5. \A q \in Objs : q # o /\ handle[q] # Closed => handle[q] # handle[o]
  BY <1>2 DEF FdsOwned
<1>6. TypeOK'
  BY <1>1, <1>2 DEF TypeOK, Dropped
<1>7. FdsOwned'
  <2>1. \A g \in Fds : Open(g)' => g \in raw' \/ \E q \in Objs : handle'[q] = g
    BY <1>1, <1>2, <1>3, <1>4 DEF FdsOwned, Open
  <2>2. \A g \in raw' : Open(g)' /\ \A q \in Objs : handle'[q] # g
    <3>1. ASSUME NEW g \in raw'
          PROVE  g \in Fds /\ file[g] # NoFile /\ \A q \in Objs : handle[q] # g
      BY <1>1, <1>2 DEF FdsOwned, Open, TypeOK
    <3>2. \A g \in raw' : g # Closed
      BY <3>1, NumbersAssumption DEF Fds
    <3> QED BY <1>3, <1>4, <3>1, <3>2 DEF Open
  <2>3. \A q \in Objs : handle'[q] # Closed => file'[handle'[q]] # NoFile
    BY <1>2, <1>3, <1>4, <1>5 DEF FdsOwned, Open, TypeOK
  <2>4. \A q, r \in Objs : handle'[q] # Closed /\ handle'[q] = handle'[r] => q = r
    BY <1>2, <1>4 DEF FdsOwned
  <2> QED BY <2>1, <2>2, <2>3, <2>4 DEF FdsOwned, Open
<1>8. ASSUME NEW q \in Objs, handle'[q] # Closed
      PROVE  file'[handle'[q]] = want'[q] /\ handle'[q] \in cloexec'
  BY <1>1, <1>2, <1>3, <1>4, <1>5, <1>8 DEF HandleKeepsFile, TypeOK
<1> QED BY <1>6, <1>7, <1>8 DEF HandleKeepsFile

LEMMA ReleaseStep ==
    ASSUME HandleKeepsFile, NEW o \in Objs, Release(o)
    PROVE  HandleKeepsFile'
<1>1. /\ handle[o] # Closed /\ raw' = raw \cup {handle[o]}
      /\ handle' = [handle EXCEPT ![o] = Closed]
      /\ UNCHANGED <<file, cloexec, want, ended>>
  BY DEF Release
<1>2. TypeOK /\ FdsOwned
  BY DEF HandleKeepsFile
<1>3. \A q \in Objs : handle'[q] = IF q = o THEN Closed ELSE handle[q]
  BY <1>1, <1>2 DEF TypeOK
<1>4. TypeOK'
  BY <1>1, <1>2 DEF TypeOK
<1>5. FdsOwned'
  <2>1. \A g \in Fds : Open(g)' => g \in raw' \/ \E q \in Objs : handle'[q] = g
    BY <1>1, <1>2, <1>3 DEF FdsOwned, Open
  <2>2. \A g \in raw' : Open(g)' /\ \A q \in Objs : handle'[q] # g
    <3>1. Closed \notin raw'
      BY <1>1, <1>2, NumbersAssumption DEF TypeOK, Fds
    <3> QED BY <1>1, <1>2, <1>3, <3>1 DEF FdsOwned, Open
  <2>3. \A q \in Objs : handle'[q] # Closed => file'[handle'[q]] # NoFile
    BY <1>1, <1>2, <1>3 DEF FdsOwned, Open
  <2>4. \A q, r \in Objs : handle'[q] # Closed /\ handle'[q] = handle'[r] => q = r
    BY <1>2, <1>3 DEF FdsOwned
  <2> QED BY <2>1, <2>2, <2>3, <2>4 DEF FdsOwned, Open
<1>6. ASSUME NEW q \in Objs, handle'[q] # Closed
      PROVE  file'[handle'[q]] = want'[q] /\ handle'[q] \in cloexec'
  BY <1>1, <1>3, <1>6 DEF HandleKeepsFile
<1> QED BY <1>4, <1>5, <1>6 DEF HandleKeepsFile

\* The three ways to a duplicate, and what each takes it of.
LEMMA RefStep ==
    ASSUME HandleKeepsFile, NEW o \in Objs, NEW f \in Fds, NEW before,
           before = file \/ before = Dropped(o), Open(f), f # handle[o],
           Ref(o, f, before)
    PROVE  HandleKeepsFile'
<1>1. TypeOK
  BY DEF HandleKeepsFile
<1>2. CASE \E d \in Fds : (file[d] = NoFile \/ d = handle[o]) /\ Became(o, f, d)
  BY <1>2, BecameKeeps
<1>3. CASE ended' = "dup" /\ UNCHANGED <<file, cloexec, handle, raw, want>>
  <2>1. TypeOK'
    BY <1>1, <1>3 DEF TypeOK
  <2> QED BY <1>3, <2>1 DEF HandleKeepsFile, FdsOwned, Open
<1> QED BY <1>1, <1>2, <1>3, RefBecomes

LEMMA DuplicateOf ==
    ASSUME HandleKeepsFile, NEW o \in Objs
    PROVE  /\ \A f \in Fds : DupRaw(o, f) =>
                 Open(f) /\ f # handle[o] /\ Ref(o, f, file)
           /\ \A p \in Objs : CopyConstruct(o, p) =>
                 /\ handle[p] \in Fds /\ Open(handle[p]) /\ handle[p] # handle[o]
                 /\ Ref(o, handle[p], file)
           /\ \A p \in Objs : CopyAssign(o, p) =>
                 /\ handle[p] \in Fds /\ Open(handle[p]) /\ handle[p] # handle[o]
                 /\ Ref(o, handle[p], IF o \in Dupables THEN Dropped(o) ELSE file)
<1>1. TypeOK /\ FdsOwned
  BY DEF HandleKeepsFile
<1>2. \A f \in Fds : DupRaw(o, f) => Open(f) /\ f # handle[o] /\ Ref(o, f, file)
  BY <1>1 DEF DupRaw, FdsOwned
<1>3. \A p \in Objs : p # o /\ handle[p] # Closed =>
         handle[p] \in Fds /\ Open(handle[p]) /\ handle[p] # handle[o]
  BY <1>1 DEF FdsOwned, TypeOK
<1> QED BY <1>2, <1>3 DEF CopyConstruct, CopyAssign

LEMMA NextStep == HandleKeepsFile /\ [Next]_vars => HandleKeepsFile'
<1> SUFFICES ASSUME HandleKeepsFile, [Next]_vars PROVE HandleKeepsFile'
  OBVIOUS
<1>1. ASSUME NEW a \in Files, SysOpen(a) PROVE HandleKeepsFile'
  BY <1>1, SysOpenStep
<1>2. ASSUME NEW f \in Fds, SysClose(f) PROVE HandleKeepsFile'
  BY <1>2, SysCloseStep
<1>3. ASSUME NEW o \in Objs, NEW f \in Fds, Adopt(o, f) PROVE HandleKeepsFile'
  BY <1>3, AdoptStep
<1>4. ASSUME NEW o \in Objs, NEW f \in Fds, DupRaw(o, f) PROVE HandleKeepsFile'
  BY <1>4, DuplicateOf, RefStep
<1>5. ASSUME NEW o \in Objs, NEW p \in Objs, CopyConstruct(o, p)
      PROVE  HandleKeepsFile'
  BY <1>5, DuplicateOf, RefStep
<1>6. ASSUME NEW o \in Objs, NEW p \in Objs, CopyAssign(o, p)
      PROVE  HandleKeepsFile'
  <2>1. /\ handle[p] \in Fds /\ Open(handle[p]) /\ handle[p] # handle[o]
        /\ Ref(o, handle[p], Dropped(o)) \/ Ref(o, handle[p], file)
    BY <1>6, DuplicateOf
  <2> QED BY <2>1, RefStep
<1>7. ASSUME NEW o \in Objs, NEW p \in Objs, Move(o, p) PROVE HandleKeepsFile'
  BY <1>7, MoveStep
<1>8. ASSUME NEW o \in Objs, Drop(o) PROVE HandleKeepsFile'
  BY <1>8, DropStep
<1>9. ASSUME NEW o \in Objs, Release(o) PROVE HandleKeepsFile'
  BY <1>9, ReleaseStep
<1>10. ASSUME NEW o \in Objs, CloseFailure(o) PROVE HandleKeepsFile'
  BY <1>10 DEF CloseFailure, HandleKeepsFile, TypeOK, FdsOwned, Open
<1>11. CASE UNCHANGED vars
  BY <1>11 DEF vars, HandleKeepsFile, TypeOK, FdsOwned, Open
<1> QED BY <1>1, <1>2, <1>3, <1>4, <1>5, <1>6, <1>7, <1>8, <1>9, <1>10, <1>11
        DEF Next

\* An object's descriptor is its own and stands for the file it was given.
THEOREM FilesKept == Spec => []HandleKeepsFile
<1> QED BY InitHolds, NextStep, PTL DEF Spec

-----------------------------------------------------------------------------
(* Every step is one of Handles, or changes none of its variables *)

live == [f \in Fds |-> IF Open(f) THEN "process" ELSE "none"]
ctx == [o \in Objs |-> "process"]

LEMMA InitImplements == Init => Owner!Init
<1> SUFFICES ASSUME Init PROVE Owner!Init
  OBVIOUS
<1>1. ctx \in [Objs -> {"process"}]
  BY DEF ctx
<1>2. live = [f \in Fds |-> "none"]
  BY DEF Init, live, Open
<1>3. (~Running) = FALSE
  BY DEF Init, Running
<1> QED BY <1>1, <1>2, <1>3 DEF Init, Owner!Init, live, ctx

\* The descriptors that are open once an object's is dropped are those that are
\* live once its value is.
LEMMA DroppedIsDropOwn ==
    ASSUME NEW o \in Objs
    PROVE  Owner!DropOwn(o, "process") =
              [f \in Fds |-> IF Dropped(o)[f] # NoFile THEN "process" ELSE "none"]
BY DEF Owner!DropOwn, Dropped, Open

LEMMA DropImplements ==
    ASSUME NEW o \in Objs, file' = Dropped(o)
    PROVE  live' = Owner!DropOwn(o, "process")
BY DroppedIsDropOwn DEF live, Open

\* A duplicate is a value that ref gives.
LEMMA BecameImplements ==
    ASSUME HandleKeepsFile, NEW o \in Objs, NEW f \in Fds, Open(f), f # handle[o],
           NEW d \in Fds, file[d] = NoFile \/ d = handle[o], Became(o, f, d)
    PROVE  /\ Owner!DropOwn(o, "process")[d] = "none"
           /\ live' = [Owner!DropOwn(o, "process") EXCEPT ![d] = "process"]
<1>1. \A g \in Fds : file'[g] = IF g = d THEN file[f] ELSE Dropped(o)[g]
  BY DEF Became, Dropped
<1>2. Dropped(o)[d] = NoFile
  BY DEF Dropped
<1>3. Owner!DropOwn(o, "process")[d] = "none"
  BY <1>2, DroppedIsDropOwn
<1>4. \A g \in Fds : live'[g] = [Owner!DropOwn(o, "process") EXCEPT ![d] = "process"][g]
  BY <1>1, DroppedIsDropOwn DEF live, Open
<1> QED BY <1>3, <1>4, DroppedIsDropOwn DEF live

LEMMA StepImplements ==
    ASSUME HandleKeepsFile, [Next]_vars
    PROVE  [Owner!Next]_Owner!vars
<1> USE DEF Running
<1>1. TypeOK /\ FdsOwned
  BY DEF HandleKeepsFile
<1>2. ctx' = ctx /\ \A o \in Objs : ctx = [ctx EXCEPT ![o] = "process"]
  BY DEF ctx
<1>3. ASSUME NEW a \in Files, SysOpen(a) PROVE Owner!Next
  <2>1. PICK f \in Fds : file[f] = NoFile /\ file' = [file EXCEPT ![f] = a]
                         /\ raw' = raw \cup {f} /\ UNCHANGED <<handle, ended>>
    BY <1>3, MinIsFree DEF SysOpen
  <2>2. live' = [live EXCEPT ![f] = "process"]
    BY <1>1, <2>1, NoFileAssumption DEF live, Open, TypeOK
  <2>3. Owner!Acquire(f, "process")
    BY <1>2, <1>3, <2>1, <2>2 DEF Owner!Acquire, SysOpen, live, ctx, Open
  <2> QED BY <2>3 DEF Owner!Next
<1>4. ASSUME NEW f \in Fds, SysClose(f) PROVE Owner!Next
  <2>1. live' = [live EXCEPT ![f] = "none"]
    BY <1>1, <1>4 DEF SysClose, live, Open, TypeOK
  <2>2. Owner!Dispose(f)
    BY <1>2, <1>4, <2>1 DEF Owner!Dispose, SysClose, live, ctx
  <2> QED BY <2>2 DEF Owner!Next
<1>5. ASSUME NEW o \in Objs, NEW f \in Fds, Adopt(o, f) PROVE Owner!Next
  <2>1. live[f] = "process" /\ live' = live
    BY <1>1, <1>5 DEF Adopt, FdsOwned, live, Open
  <2>2. Owner!Construct(o, f)
    BY <1>2, <1>5, <2>1 DEF Owner!Construct, Owner!Holds, Adopt, live, ctx
  <2> QED BY <2>2 DEF Owner!Next
<1>6. ASSUME NEW o \in Objs, NEW p \in Objs, Move(o, p) PROVE Owner!Next
  <2>1. live' = Owner!DropOwn(o, "process")
    BY <1>6, DropImplements DEF Move
  <2>2. Owner!MoveAssign(o, p)
    BY <1>2, <1>6, <2>1 DEF Owner!MoveAssign, Move, live, ctx
  <2> QED BY <2>2 DEF Owner!Next
<1>7. ASSUME NEW o \in Objs, Drop(o) PROVE Owner!Next
  <2>1. live' = Owner!DropOwn(o, "process")
    BY <1>7, DropImplements DEF Drop
  <2>2. Owner!Reset(o)
    BY <1>2, <1>7, <2>1 DEF Owner!Reset, Owner!Holds, Drop, live, ctx
  <2> QED BY <2>2 DEF Owner!Next
<1>8. ASSUME NEW o \in Objs, Release(o) PROVE Owner!Next
  <2>1. Owner!Release(o)
    BY <1>2, <1>8 DEF Owner!Release, Owner!Holds, Release, ctx, Open
  <2> QED BY <2>1 DEF Owner!Next
<1>9. ASSUME NEW f \in Fds, Open(f), ended' = "dup", Running,
             UNCHANGED <<file, cloexec, handle, raw, want>>, NEW o \in Objs
      PROVE  Owner!Next
  <2>1. live[f] # "none" /\ live' = live
    BY <1>9 DEF live, Open
  <2>2. Owner!Terminate
    BY <1>2, <1>9, <2>1 DEF Owner!Terminate, live, ctx
  <2> QED BY <2>2 DEF Owner!Next
<1>10. ASSUME NEW o \in Objs, NEW f \in Fds, DupRaw(o, f) PROVE Owner!Next
  <2>1. Open(f) /\ f # handle[o] /\ Ref(o, f, file) /\ Running
    BY <1>10, DuplicateOf DEF DupRaw
  <2>2. ASSUME NEW d \in Fds, file[d] = NoFile \/ d = handle[o], Became(o, f, d)
        PROVE  Owner!Next
    <3>1. handle[o] = Closed
      BY <1>10 DEF DupRaw
    <3>2. live[d] = "none"
      BY <2>2, <3>1, NumbersAssumption DEF live, Open, Fds
    <3>3. live' = [Owner!DropOwn(o, "process") EXCEPT ![d] = "process"]
      BY <2>1, <2>2, BecameImplements
    <3>4. Owner!ReferFirst(o, "process")
      BY <2>2, <3>2, <3>3 DEF Owner!ReferFirst, Became, live, ctx
    <3>5. Owner!ResetCopy(o, f)
      BY <1>2, <2>1, <2>2, <3>4 DEF Owner!ResetCopy, Became, live, ctx
    <3> QED BY <3>5 DEF Owner!Next
  <2> QED BY <1>1, <1>9, <2>1, <2>2, RefBecomes
<1>11. ASSUME NEW o \in Objs, NEW p \in Objs, CopyConstruct(o, p)
       PROVE  Owner!Next
  <2>1. /\ handle[p] \in Fds /\ Open(handle[p]) /\ handle[p] # handle[o]
        /\ Ref(o, handle[p], file) /\ Running
    BY <1>11, DuplicateOf DEF CopyConstruct
  <2>2. ASSUME NEW d \in Fds, file[d] = NoFile \/ d = handle[o],
               Became(o, handle[p], d)
        PROVE  Owner!Next
    <3>1. handle[o] = Closed /\ handle[p] # Closed /\ o # p
      BY <1>11 DEF CopyConstruct
    <3>2. live[d] = "none"
      BY <2>2, <3>1, NumbersAssumption DEF live, Open, Fds
    <3>3. live' = [Owner!DropOwn(o, "process") EXCEPT ![d] = "process"]
      BY <2>1, <2>2, BecameImplements
    <3>4. Owner!ReferFirst(o, "process")
      BY <2>2, <3>2, <3>3 DEF Owner!ReferFirst, Became, live, ctx
    <3>5. Owner!CopyConstruct(o, p)
      BY <1>2, <2>1, <2>2, <3>1, <3>4
         DEF Owner!CopyConstruct, Owner!Holds, Became, ctx
    <3> QED BY <3>5 DEF Owner!Next
  <2> QED BY <1>1, <1>9, <2>1, <2>2, RefBecomes
<1>12. ASSUME NEW o \in Objs, NEW p \in Objs, CopyAssign(o, p)
       PROVE  Owner!Next
  <2>1. /\ handle[p] \in Fds /\ Open(handle[p]) /\ handle[p] # handle[o]
        /\ Running
        /\ Ref(o, handle[p], Dropped(o)) \/ Ref(o, handle[p], file)
    BY <1>12, DuplicateOf DEF CopyAssign
  <2>2. ASSUME NEW d \in Fds, file[d] = NoFile \/ d = handle[o],
               Became(o, handle[p], d)
        PROVE  Owner!Next
    <3>1. handle[p] # Closed /\ o # p
      BY <1>12 DEF CopyAssign
    <3>2. /\ Owner!DropOwn(o, "process")[d] = "none"
          /\ live' = [Owner!DropOwn(o, "process") EXCEPT ![d] = "process"]
      BY <2>1, <2>2, BecameImplements
    <3>3. Owner!DropFirst(o, "process")
      BY <2>2, <3>2 DEF Owner!DropFirst, Became, live, ctx
    <3>4. Owner!CopyAssign(o, p)
      BY <1>2, <2>1, <2>2, <3>1, <3>3
         DEF Owner!CopyAssign, Owner!Holds, Became, ctx
    <3> QED BY <3>4 DEF Owner!Next
  <2> QED BY <1>1, <1>9, <2>1, <2>2, RefBecomes
<1>13. ASSUME NEW o \in Objs, CloseFailure(o) PROVE Owner!Next
  <2>1. live' = live
    BY <1>13 DEF CloseFailure, live, Open
  <2>2. Owner!Terminate
    BY <1>2, <1>13, <2>1
       DEF Owner!Terminate, Owner!Holds, CloseFailure, live, ctx
  <2> QED BY <2>2 DEF Owner!Next
<1>14. CASE UNCHANGED vars
  <2>1. UNCHANGED <<handle, ctx, live, raw, Running>>
    BY <1>2, <1>14 DEF vars, live, Open
  <2> QED BY <2>1 DEF Owner!vars, live, ctx
<1> QED
  <2> HIDE DEF Running
  <2> QED BY <1>3, <1>4, <1>5, <1>6, <1>7, <1>8, <1>10, <1>11, <1>12, <1>13,
             <1>14 DEF Next

\* Descriptor handles are the handles of Handles.tla: what they own is owned
\* once and is never lost or closed twice.
THEOREM Implements == Spec => ImplementsHandles
<1>1. Init => Owner!Init /\ HandleKeepsFile
  BY InitImplements, InitHolds
<1>2. HandleKeepsFile /\ [Next]_vars => [Owner!Next]_Owner!vars
  BY StepImplements
<1> QED BY <1>1, <1>2, FilesKept, PTL DEF Spec, ImplementsHandles, Owner!Spec

=============================================================================
