---------------------------- MODULE Handles_proofs ----------------------------
(***************************************************************************)
(* Proofs that handles own their values, for any handles, values and       *)
(* contexts.                                                               *)
(***************************************************************************)
EXTENDS Handles, TLAPS

LEMMA InitHolds == Init => IInv
BY NoneAssumption DEF Init, IInv, TypeOK, OwnedOnce, OwnContext, Holds

\* A handle drops its value with the right context, so that it is freed.
LEMMA OwnDropped ==
    ASSUME IInv, NEW o \in Objs
    PROVE  \A w \in Vals :
              DropOwn(o, ctx[o])[w] = IF w = maybeT[o] THEN NoCtx ELSE live[w]
BY NoneAssumption DEF IInv, TypeOK, OwnContext, Holds, DropOwn

\* A handle that takes a value which is not live once its own is dropped.
LEMMA ReferStep ==
    ASSUME IInv, NEW o \in Objs, NEW c \in Ctxs, NEW v \in Vals,
           DropOwn(o, ctx[o])[v] = NoCtx,
           live' = [DropOwn(o, ctx[o]) EXCEPT ![v] = c],
           maybeT' = [maybeT EXCEPT ![o] = v],
           ctx' = [ctx EXCEPT ![o] = c], UNCHANGED <<loose, dead>>
    PROVE  IInv'
<1>1. \A q \in Objs : maybeT'[q] = IF q = o THEN v ELSE maybeT[q]
  BY DEF IInv, TypeOK
<1>2. \A w \in Vals : live'[w] = IF w = v THEN c
                                  ELSE IF w = maybeT[o] THEN NoCtx ELSE live[w]
  BY OwnDropped DEF DropOwn
<1>3. \A q \in Objs : ctx'[q] = IF q = o THEN c ELSE ctx[q]
  BY DEF IInv, TypeOK
<1>4. live[v] = NoCtx \/ v = maybeT[o]
  BY DEF DropOwn
<1>5. TypeOK'
  BY DEF IInv, TypeOK, DropOwn
<1>6. OwnedOnce'
  <2>1. ASSUME NEW w \in Vals, live'[w] # NoCtx
        PROVE  w \in loose' \/ \E q \in Objs : maybeT'[q] = w
    BY <1>1, <1>2, <2>1 DEF IInv, OwnedOnce
  <2>2. ASSUME NEW w \in loose'
        PROVE  live'[w] # NoCtx /\ \A q \in Objs : maybeT'[q] # w
    BY <1>1, <1>2, <1>4, <2>2, NoneAssumption DEF IInv, TypeOK, OwnedOnce
  <2>3. ASSUME NEW q \in Objs, Holds(q)' PROVE live'[maybeT'[q]] # NoCtx
    BY <1>1, <1>2, <2>3, NoneAssumption DEF IInv, TypeOK, OwnedOnce, Holds
  <2>4. ASSUME NEW q \in Objs, NEW r \in Objs, Holds(q)', maybeT'[q] = maybeT'[r]
        PROVE  q = r
    BY <1>1, <1>4, <2>4, NoneAssumption DEF IInv, TypeOK, OwnedOnce, Holds
  <2> QED BY <2>1, <2>2, <2>3, <2>4 DEF OwnedOnce
<1>7. ASSUME NEW q \in Objs, Holds(q)' PROVE live'[maybeT'[q]] = ctx'[q]
  <2>1. maybeT'[q] \in Vals
    BY <1>5, <1>7 DEF TypeOK, Holds
  <2>2. live'[maybeT'[q]] # NoCtx
    BY <1>6, <1>7 DEF OwnedOnce
  <2>3. CASE q = o
    <3>1. maybeT'[q] = v /\ ctx'[q] = c
      BY <1>1, <1>3, <2>3
    <3>2. live'[v] = c
      BY <1>2
    <3> QED BY <3>1, <3>2
  <2>4. CASE q # o
    <3>1. maybeT'[q] = maybeT[q] /\ ctx'[q] = ctx[q] /\ maybeT[q] # v
      BY <1>1, <1>3, <1>6, <1>7, <2>4 DEF OwnedOnce, Holds, IInv, TypeOK
    <3> QED BY <1>2, <1>7, <2>1, <2>2, <3>1 DEF IInv, OwnContext, Holds
  <2> QED BY <2>3, <2>4
<1> QED BY <1>5, <1>6, <1>7 DEF IInv, OwnContext

LEMMA NextStep ==
    ASSUME IInv, [Next]_vars
    PROVE  IInv'
<1> USE NoneAssumption
<1>1. ASSUME NEW v \in Vals, NEW c \in Ctxs, Acquire(v, c) PROVE IInv'
  <2> USE <1>1 DEF Acquire
  <2>1. \A q \in Objs : maybeT'[q] = maybeT[q]
    BY DEF IInv, TypeOK
  <2>2. \A w \in Vals : live'[w] = IF w = v THEN c ELSE live[w]
    BY DEF IInv, TypeOK, DropOwn
  <2>3. \A q \in Objs : ctx'[q] = ctx[q]
    BY DEF IInv, TypeOK
  <2>4. loose' = loose \cup {v}
    OBVIOUS
  <2>5. TypeOK'
    BY DEF IInv, TypeOK, OwnedOnce, DropOwn, Holds
  <2>6. OwnedOnce'
    <3>1. ASSUME NEW w \in Vals, live'[w] # NoCtx
          PROVE  w \in loose' \/ \E q \in Objs : maybeT'[q] = w
      BY <2>1, <2>2, <2>4, <3>1 DEF IInv, TypeOK, OwnedOnce, Holds
    <3>2. ASSUME NEW w \in loose'
          PROVE  live'[w] # NoCtx /\ \A q \in Objs : maybeT'[q] # w
      BY <2>1, <2>2, <2>4, <3>2 DEF IInv, TypeOK, OwnedOnce, Holds
    <3>3. ASSUME NEW q \in Objs, Holds(q)' PROVE live'[maybeT'[q]] # NoCtx
      BY <2>1, <2>2, <3>3 DEF IInv, TypeOK, OwnedOnce, Holds
    <3>4. ASSUME NEW q \in Objs, NEW r \in Objs, Holds(q)', maybeT'[q] = maybeT'[r]
          PROVE  q = r
      BY <2>1, <3>4 DEF IInv, TypeOK, OwnedOnce, Holds
    <3> QED BY <3>1, <3>2, <3>3, <3>4 DEF OwnedOnce
  <2>7. ASSUME NEW q \in Objs, Holds(q)' PROVE live'[maybeT'[q]] = ctx'[q]
    <3>1. maybeT'[q] \in Vals
      BY <2>5, <2>7 DEF TypeOK, Holds
    <3>2. live'[maybeT'[q]] # NoCtx
      BY <2>6, <2>7 DEF OwnedOnce
    <3>3. ASSUME Holds(q), maybeT'[q] = maybeT[q] PROVE live[maybeT'[q]] = ctx[q]
      BY <3>3 DEF IInv, OwnContext
    <3>4. maybeT'[q] # v /\ Holds(q)
      BY <2>1, <2>7 DEF IInv, OwnedOnce, Holds
    <3> QED BY <2>1, <2>2, <2>3, <3>1, <3>3, <3>4
  <2> QED BY <2>5, <2>6, <2>7 DEF IInv, OwnContext
<1>2. ASSUME NEW o \in Objs, NEW v \in Vals, Construct(o, v) PROVE IInv'
  <2> USE <1>2 DEF Construct
  <2>1. \A q \in Objs : maybeT'[q] = IF q = o THEN v ELSE maybeT[q]
    BY DEF IInv, TypeOK
  <2>2. \A w \in Vals : live'[w] = live[w]
    BY DEF IInv, TypeOK, DropOwn
  <2>3. \A q \in Objs : ctx'[q] = IF q = o THEN live[v] ELSE ctx[q]
    BY DEF IInv, TypeOK
  <2>4. loose' = loose \ {v}
    OBVIOUS
  <2>5. TypeOK'
    BY DEF IInv, TypeOK, OwnedOnce, DropOwn, Holds
  <2>6. OwnedOnce'
    <3>1. ASSUME NEW w \in Vals, live'[w] # NoCtx
          PROVE  w \in loose' \/ \E q \in Objs : maybeT'[q] = w
      BY <2>1, <2>2, <2>4, <3>1 DEF IInv, TypeOK, OwnedOnce, Holds
    <3>2. ASSUME NEW w \in loose'
          PROVE  live'[w] # NoCtx /\ \A q \in Objs : maybeT'[q] # w
      BY <2>1, <2>2, <2>4, <3>2 DEF IInv, TypeOK, OwnedOnce, Holds
    <3>3. ASSUME NEW q \in Objs, Holds(q)' PROVE live'[maybeT'[q]] # NoCtx
      BY <2>1, <2>2, <3>3 DEF IInv, TypeOK, OwnedOnce, Holds
    <3>4. ASSUME NEW q \in Objs, NEW r \in Objs, Holds(q)', maybeT'[q] = maybeT'[r]
          PROVE  q = r
      BY <2>1, <3>4 DEF IInv, TypeOK, OwnedOnce, Holds
    <3> QED BY <3>1, <3>2, <3>3, <3>4 DEF OwnedOnce
  <2>7. ASSUME NEW q \in Objs, Holds(q)' PROVE live'[maybeT'[q]] = ctx'[q]
    <3>1. maybeT'[q] \in Vals
      BY <2>5, <2>7 DEF TypeOK, Holds
    <3>2. live'[maybeT'[q]] # NoCtx
      BY <2>6, <2>7 DEF OwnedOnce
    <3>3. ASSUME Holds(q), maybeT'[q] = maybeT[q] PROVE live[maybeT'[q]] = ctx[q]
      BY <3>3 DEF IInv, OwnContext
    <3> QED BY <2>1, <2>2, <2>3, <2>7, <3>1, <3>2, <3>3 DEF IInv, OwnContext, Holds
  <2> QED BY <2>5, <2>6, <2>7 DEF IInv, OwnContext
<1>3. ASSUME NEW o \in Objs, NEW v \in Vals, ResetTo(o, v) PROVE IInv'
  <2> USE <1>3 DEF ResetTo
  <2>1. \A q \in Objs : maybeT'[q] = IF q = o THEN v ELSE maybeT[q]
    BY DEF IInv, TypeOK
  <2>2. \A w \in Vals : live'[w] = IF w = maybeT[o] THEN NoCtx ELSE live[w]
    BY OwnDropped
  <2>3. \A q \in Objs : ctx'[q] = ctx[q]
    BY DEF IInv, TypeOK
  <2>4. loose' = loose \ {v}
    OBVIOUS
  <2>5. TypeOK'
    BY DEF IInv, TypeOK, OwnedOnce, DropOwn, Holds
  <2>6. OwnedOnce'
    <3>1. ASSUME NEW w \in Vals, live'[w] # NoCtx
          PROVE  w \in loose' \/ \E q \in Objs : maybeT'[q] = w
      BY <2>1, <2>2, <2>4, <3>1 DEF IInv, TypeOK, OwnedOnce, Holds
    <3>2. ASSUME NEW w \in loose'
          PROVE  live'[w] # NoCtx /\ \A q \in Objs : maybeT'[q] # w
      BY <2>1, <2>2, <2>4, <3>2 DEF IInv, TypeOK, OwnedOnce, Holds
    <3>3. ASSUME NEW q \in Objs, Holds(q)' PROVE live'[maybeT'[q]] # NoCtx
      BY <2>1, <2>2, <3>3 DEF IInv, TypeOK, OwnedOnce, Holds
    <3>4. ASSUME NEW q \in Objs, NEW r \in Objs, Holds(q)', maybeT'[q] = maybeT'[r]
          PROVE  q = r
      BY <2>1, <3>4 DEF IInv, TypeOK, OwnedOnce, Holds
    <3> QED BY <3>1, <3>2, <3>3, <3>4 DEF OwnedOnce
  <2>7. ASSUME NEW q \in Objs, Holds(q)' PROVE live'[maybeT'[q]] = ctx'[q]
    <3>1. maybeT'[q] \in Vals
      BY <2>5, <2>7 DEF TypeOK, Holds
    <3>2. live'[maybeT'[q]] # NoCtx
      BY <2>6, <2>7 DEF OwnedOnce
    <3>3. ASSUME Holds(q), maybeT'[q] = maybeT[q] PROVE live[maybeT'[q]] = ctx[q]
      BY <3>3 DEF IInv, OwnContext
    <3> QED BY <2>1, <2>2, <2>3, <2>7, <3>1, <3>2, <3>3 DEF IInv, OwnContext, Holds
  <2> QED BY <2>5, <2>6, <2>7 DEF IInv, OwnContext
<1>4. ASSUME NEW o \in Objs, Reset(o) PROVE IInv'
  <2> USE <1>4 DEF Reset
  <2>1. \A q \in Objs : maybeT'[q] = IF q = o THEN NoVal ELSE maybeT[q]
    BY DEF IInv, TypeOK
  <2>2. \A w \in Vals : live'[w] = IF w = maybeT[o] THEN NoCtx ELSE live[w]
    BY OwnDropped
  <2>3. \A q \in Objs : ctx'[q] = ctx[q]
    BY DEF IInv, TypeOK
  <2>4. loose' = loose
    OBVIOUS
  <2>5. TypeOK'
    BY DEF IInv, TypeOK, OwnedOnce, DropOwn, Holds
  <2>6. OwnedOnce'
    <3>1. ASSUME NEW w \in Vals, live'[w] # NoCtx
          PROVE  w \in loose' \/ \E q \in Objs : maybeT'[q] = w
      BY <2>1, <2>2, <2>4, <3>1 DEF IInv, TypeOK, OwnedOnce, Holds
    <3>2. ASSUME NEW w \in loose'
          PROVE  live'[w] # NoCtx /\ \A q \in Objs : maybeT'[q] # w
      BY <2>1, <2>2, <2>4, <3>2 DEF IInv, TypeOK, OwnedOnce, Holds
    <3>3. ASSUME NEW q \in Objs, Holds(q)' PROVE live'[maybeT'[q]] # NoCtx
      BY <2>1, <2>2, <3>3 DEF IInv, TypeOK, OwnedOnce, Holds
    <3>4. ASSUME NEW q \in Objs, NEW r \in Objs, Holds(q)', maybeT'[q] = maybeT'[r]
          PROVE  q = r
      BY <2>1, <3>4 DEF IInv, TypeOK, OwnedOnce, Holds
    <3> QED BY <3>1, <3>2, <3>3, <3>4 DEF OwnedOnce
  <2>7. ASSUME NEW q \in Objs, Holds(q)' PROVE live'[maybeT'[q]] = ctx'[q]
    <3>1. maybeT'[q] \in Vals
      BY <2>5, <2>7 DEF TypeOK, Holds
    <3>2. live'[maybeT'[q]] # NoCtx
      BY <2>6, <2>7 DEF OwnedOnce
    <3>3. ASSUME Holds(q), maybeT'[q] = maybeT[q] PROVE live[maybeT'[q]] = ctx[q]
      BY <3>3 DEF IInv, OwnContext
    <3> QED BY <2>1, <2>2, <2>3, <2>7, <3>1, <3>2, <3>3 DEF IInv, OwnContext, Holds
  <2> QED BY <2>5, <2>6, <2>7 DEF IInv, OwnContext
<1>5. ASSUME NEW o \in Objs, Release(o) PROVE IInv'
  <2> USE <1>5 DEF Release
  <2>1. \A q \in Objs : maybeT'[q] = IF q = o THEN NoVal ELSE maybeT[q]
    BY DEF IInv, TypeOK
  <2>2. \A w \in Vals : live'[w] = live[w]
    BY DEF IInv, TypeOK, DropOwn
  <2>3. \A q \in Objs : ctx'[q] = ctx[q]
    BY DEF IInv, TypeOK
  <2>4. loose' = loose \cup {maybeT[o]}
    OBVIOUS
  <2>5. TypeOK'
    BY DEF IInv, TypeOK, OwnedOnce, DropOwn, Holds
  <2>6. OwnedOnce'
    <3>1. ASSUME NEW w \in Vals, live'[w] # NoCtx
          PROVE  w \in loose' \/ \E q \in Objs : maybeT'[q] = w
      BY <2>1, <2>2, <2>4, <3>1 DEF IInv, TypeOK, OwnedOnce, Holds
    <3>2. ASSUME NEW w \in loose'
          PROVE  live'[w] # NoCtx /\ \A q \in Objs : maybeT'[q] # w
      BY <2>1, <2>2, <2>4, <3>2 DEF IInv, TypeOK, OwnedOnce, Holds
    <3>3. ASSUME NEW q \in Objs, Holds(q)' PROVE live'[maybeT'[q]] # NoCtx
      BY <2>1, <2>2, <3>3 DEF IInv, TypeOK, OwnedOnce, Holds
    <3>4. ASSUME NEW q \in Objs, NEW r \in Objs, Holds(q)', maybeT'[q] = maybeT'[r]
          PROVE  q = r
      BY <2>1, <3>4 DEF IInv, TypeOK, OwnedOnce, Holds
    <3> QED BY <3>1, <3>2, <3>3, <3>4 DEF OwnedOnce
  <2>7. ASSUME NEW q \in Objs, Holds(q)' PROVE live'[maybeT'[q]] = ctx'[q]
    <3>1. maybeT'[q] \in Vals
      BY <2>5, <2>7 DEF TypeOK, Holds
    <3>2. live'[maybeT'[q]] # NoCtx
      BY <2>6, <2>7 DEF OwnedOnce
    <3>3. ASSUME Holds(q), maybeT'[q] = maybeT[q] PROVE live[maybeT'[q]] = ctx[q]
      BY <3>3 DEF IInv, OwnContext
    <3> QED BY <2>1, <2>2, <2>3, <2>7, <3>1, <3>2, <3>3 DEF IInv, OwnContext, Holds
  <2> QED BY <2>5, <2>6, <2>7 DEF IInv, OwnContext
<1>6. ASSUME NEW o \in Objs, NEW p \in Objs, MoveConstruct(o, p) PROVE IInv'
  <2> USE <1>6 DEF MoveConstruct
  <2>1. \A q \in Objs : maybeT'[q] = IF q = o THEN maybeT[p] ELSE IF q = p THEN NoVal ELSE maybeT[q]
    BY DEF IInv, TypeOK
  <2>2. \A w \in Vals : live'[w] = live[w]
    BY DEF IInv, TypeOK, DropOwn
  <2>3. \A q \in Objs : ctx'[q] = IF q = o THEN ctx[p] ELSE ctx[q]
    BY DEF IInv, TypeOK
  <2>4. loose' = loose
    OBVIOUS
  <2>5. TypeOK'
    BY DEF IInv, TypeOK, OwnedOnce, DropOwn, Holds
  <2>6. OwnedOnce'
    <3>1. ASSUME NEW w \in Vals, live'[w] # NoCtx
          PROVE  w \in loose' \/ \E q \in Objs : maybeT'[q] = w
      BY <2>1, <2>2, <2>4, <3>1 DEF IInv, TypeOK, OwnedOnce, Holds
    <3>2. ASSUME NEW w \in loose'
          PROVE  live'[w] # NoCtx /\ \A q \in Objs : maybeT'[q] # w
      BY <2>1, <2>2, <2>4, <3>2 DEF IInv, TypeOK, OwnedOnce, Holds
    <3>3. ASSUME NEW q \in Objs, Holds(q)' PROVE live'[maybeT'[q]] # NoCtx
      BY <2>1, <2>2, <3>3 DEF IInv, TypeOK, OwnedOnce, Holds
    <3>4. ASSUME NEW q \in Objs, NEW r \in Objs, Holds(q)', maybeT'[q] = maybeT'[r]
          PROVE  q = r
      BY <2>1, <3>4 DEF IInv, TypeOK, OwnedOnce, Holds
    <3> QED BY <3>1, <3>2, <3>3, <3>4 DEF OwnedOnce
  <2>7. ASSUME NEW q \in Objs, Holds(q)' PROVE live'[maybeT'[q]] = ctx'[q]
    <3>1. maybeT'[q] \in Vals
      BY <2>5, <2>7 DEF TypeOK, Holds
    <3>2. live'[maybeT'[q]] # NoCtx
      BY <2>6, <2>7 DEF OwnedOnce
    <3>3. ASSUME Holds(q), maybeT'[q] = maybeT[q] PROVE live[maybeT'[q]] = ctx[q]
      BY <3>3 DEF IInv, OwnContext
    <3>4. live'[maybeT'[q]] = live[maybeT'[q]]
      BY <2>2, <3>1, <3>2
    <3>5. CASE q = o
      <4>1. maybeT'[q] = maybeT[p] /\ ctx'[q] = ctx[p] /\ Holds(p)
        BY <2>1, <2>3, <2>7, <3>5 DEF Holds
      <4> QED BY <3>4, <4>1 DEF IInv, OwnContext
    <3>6. CASE q # o
      <4>1. maybeT'[q] = maybeT[q] /\ ctx'[q] = ctx[q] /\ Holds(q)
        BY <2>1, <2>3, <2>7, <3>6 DEF Holds
      <4> QED BY <3>3, <3>4, <4>1
    <3> QED BY <3>5, <3>6
  <2> QED BY <2>5, <2>6, <2>7 DEF IInv, OwnContext
<1>7. ASSUME NEW o \in Objs, NEW p \in Objs, MoveAssign(o, p) PROVE IInv'
  <2> USE <1>7 DEF MoveAssign
  <2>1. \A q \in Objs : maybeT'[q] = IF q = o THEN maybeT[p] ELSE IF q = p THEN NoVal ELSE maybeT[q]
    BY DEF IInv, TypeOK
  <2>2. \A w \in Vals : live'[w] = IF w = maybeT[o] THEN NoCtx ELSE live[w]
    BY OwnDropped
  <2>3. \A q \in Objs : ctx'[q] = IF q = o THEN ctx[p] ELSE ctx[q]
    BY DEF IInv, TypeOK
  <2>4. loose' = loose
    OBVIOUS
  <2>5. TypeOK'
    BY DEF IInv, TypeOK, OwnedOnce, DropOwn, Holds
  <2>6. OwnedOnce'
    <3>1. ASSUME NEW w \in Vals, live'[w] # NoCtx
          PROVE  w \in loose' \/ \E q \in Objs : maybeT'[q] = w
      BY <2>1, <2>2, <2>4, <3>1 DEF IInv, TypeOK, OwnedOnce, Holds
    <3>2. ASSUME NEW w \in loose'
          PROVE  live'[w] # NoCtx /\ \A q \in Objs : maybeT'[q] # w
      BY <2>1, <2>2, <2>4, <3>2 DEF IInv, TypeOK, OwnedOnce, Holds
    <3>3. ASSUME NEW q \in Objs, Holds(q)' PROVE live'[maybeT'[q]] # NoCtx
      BY <2>1, <2>2, <3>3 DEF IInv, TypeOK, OwnedOnce, Holds
    <3>4. ASSUME NEW q \in Objs, NEW r \in Objs, Holds(q)', maybeT'[q] = maybeT'[r]
          PROVE  q = r
      BY <2>1, <3>4 DEF IInv, TypeOK, OwnedOnce, Holds
    <3> QED BY <3>1, <3>2, <3>3, <3>4 DEF OwnedOnce
  <2>7. ASSUME NEW q \in Objs, Holds(q)' PROVE live'[maybeT'[q]] = ctx'[q]
    <3>1. maybeT'[q] \in Vals
      BY <2>5, <2>7 DEF TypeOK, Holds
    <3>2. live'[maybeT'[q]] # NoCtx
      BY <2>6, <2>7 DEF OwnedOnce
    <3>3. ASSUME Holds(q), maybeT'[q] = maybeT[q] PROVE live[maybeT'[q]] = ctx[q]
      BY <3>3 DEF IInv, OwnContext
    <3>4. live'[maybeT'[q]] = live[maybeT'[q]]
      BY <2>2, <3>1, <3>2
    <3>5. CASE q = o
      <4>1. maybeT'[q] = maybeT[p] /\ ctx'[q] = ctx[p] /\ Holds(p)
        BY <2>1, <2>3, <2>7, <3>5 DEF Holds
      <4> QED BY <3>4, <4>1 DEF IInv, OwnContext
    <3>6. CASE q # o
      <4>1. maybeT'[q] = maybeT[q] /\ ctx'[q] = ctx[q] /\ Holds(q)
        BY <2>1, <2>3, <2>7, <3>6 DEF Holds
      <4> QED BY <3>3, <3>4, <4>1
    <3> QED BY <3>5, <3>6
  <2> QED BY <2>5, <2>6, <2>7 DEF IInv, OwnContext
<1>8. ASSUME NEW v \in Vals, Dispose(v) PROVE IInv'
  <2> USE <1>8 DEF Dispose
  <2>1. \A w \in Vals : live'[w] = IF w = v THEN NoCtx ELSE live[w]
    BY DEF IInv, TypeOK
  <2>2. \A q \in Objs : maybeT[q] # v
    BY DEF IInv, OwnedOnce
  <2>3. TypeOK'
    BY DEF IInv, TypeOK
  <2>4. OwnedOnce'
    <3>1. \A w \in Vals : live'[w] # NoCtx =>
             w \in loose' \/ \E q \in Objs : maybeT'[q] = w
      BY <2>1 DEF IInv, OwnedOnce
    <3>2. \A w \in loose' : live'[w] # NoCtx /\ \A q \in Objs : maybeT'[q] # w
      BY <2>1 DEF IInv, TypeOK, OwnedOnce
    <3>3. \A q \in Objs : Holds(q)' => live'[maybeT'[q]] # NoCtx
      BY <2>1, <2>2 DEF IInv, TypeOK, OwnedOnce, Holds
    <3>4. \A q, r \in Objs : Holds(q)' /\ maybeT'[q] = maybeT'[r] => q = r
      BY DEF IInv, OwnedOnce, Holds
    <3> QED BY <3>1, <3>2, <3>3, <3>4 DEF OwnedOnce
  <2>5. \A q \in Objs : Holds(q)' => live'[maybeT'[q]] = ctx'[q]
    BY <2>1, <2>2 DEF IInv, TypeOK, OwnContext, Holds
  <2> QED BY <2>3, <2>4, <2>5 DEF IInv, OwnContext
<1>9. ASSUME NEW o \in Objs, NEW c \in Ctxs, ConstructEmpty(o, c) PROVE IInv'
  <2> USE <1>9 DEF ConstructEmpty
  <2>1. \A q \in Objs : ctx'[q] = IF q = o THEN c ELSE ctx[q]
    BY DEF IInv, TypeOK
  <2>2. TypeOK' /\ OwnedOnce'
    BY DEF IInv, TypeOK, OwnedOnce, Holds
  <2>3. OwnContext'
    BY <2>1 DEF IInv, OwnContext, Holds
  <2> QED BY <2>2, <2>3 DEF IInv
<1>10. CASE Terminate
  BY <1>10 DEF Terminate, IInv, TypeOK, OwnedOnce, OwnContext, Holds
<1>11. CASE UNCHANGED vars
  BY <1>11 DEF vars, IInv, TypeOK, OwnedOnce, OwnContext, Holds
<1>12. ASSUME NEW o \in Objs, NEW u \in Vals, ResetCopy(o, u) PROVE IInv'
  <2>1. PICK v \in Vals : /\ DropOwn(o, ctx[o])[v] = NoCtx
                         /\ live' = [DropOwn(o, ctx[o]) EXCEPT ![v] = ctx[o]]
                         /\ maybeT' = [maybeT EXCEPT ![o] = v]
    BY <1>12 DEF ResetCopy, ReferFirst, DropOwn
  <2>2. ctx' = [ctx EXCEPT ![o] = ctx[o]] /\ ctx[o] \in Ctxs
    BY <1>12 DEF ResetCopy, ReferFirst, IInv, TypeOK
  <2> QED BY <1>12, <2>1, <2>2, ReferStep DEF ResetCopy
<1>13. ASSUME NEW o \in Objs, NEW p \in Objs, CopyConstruct(o, p) PROVE IInv'
  <2>1. PICK v \in Vals : /\ DropOwn(o, ctx[o])[v] = NoCtx
                         /\ live' = [DropOwn(o, ctx[o]) EXCEPT ![v] = ctx[p]]
                         /\ maybeT' = [maybeT EXCEPT ![o] = v]
    BY <1>13 DEF CopyConstruct, ReferFirst, DropOwn
  <2>2. ctx' = [ctx EXCEPT ![o] = ctx[p]] /\ ctx[p] \in Ctxs
    BY <1>13 DEF CopyConstruct, ReferFirst, IInv, TypeOK
  <2> QED BY <1>13, <2>1, <2>2, ReferStep DEF CopyConstruct
<1>14. ASSUME NEW o \in Objs, NEW p \in Objs, CopyAssign(o, p), Holds(p) PROVE IInv'
  <2>1. PICK v \in Vals : /\ DropOwn(o, ctx[o])[v] = NoCtx
                         /\ live' = [DropOwn(o, ctx[o]) EXCEPT ![v] = ctx[p]]
                         /\ maybeT' = [maybeT EXCEPT ![o] = v]
    BY <1>14 DEF CopyAssign, DropFirst, DropOwn
  <2>2. ctx' = [ctx EXCEPT ![o] = ctx[p]] /\ ctx[p] \in Ctxs
    BY <1>14 DEF CopyAssign, DropFirst, IInv, TypeOK
  <2> QED BY <1>14, <2>1, <2>2, ReferStep DEF CopyAssign
<1>15. ASSUME NEW o \in Objs, NEW p \in Objs, CopyAssign(o, p), ~Holds(p) PROVE IInv'
  <2> USE <1>15 DEF CopyAssign
  <2>1. \A q \in Objs : maybeT'[q] = IF q = o THEN NoVal ELSE maybeT[q]
    BY DEF IInv, TypeOK
  <2>2. \A w \in Vals : live'[w] = IF w = maybeT[o] THEN NoCtx ELSE live[w]
    BY OwnDropped
  <2>3. \A q \in Objs : ctx'[q] = IF q = o THEN ctx[p] ELSE ctx[q]
    BY DEF IInv, TypeOK
  <2>4. loose' = loose
    OBVIOUS
  <2>5. TypeOK'
    <3>1. maybeT' = [maybeT EXCEPT ![o] = NoVal] /\ live' = DropOwn(o, ctx[o])
      BY DEF Holds
    <3> QED BY <3>1 DEF IInv, TypeOK, DropOwn
  <2>6. OwnedOnce'
    <3>1. ASSUME NEW w \in Vals, live'[w] # NoCtx
          PROVE  w \in loose' \/ \E q \in Objs : maybeT'[q] = w
      BY <2>1, <2>2, <2>4, <3>1 DEF IInv, TypeOK, OwnedOnce, Holds
    <3>2. ASSUME NEW w \in loose'
          PROVE  live'[w] # NoCtx /\ \A q \in Objs : maybeT'[q] # w
      BY <2>1, <2>2, <2>4, <3>2 DEF IInv, TypeOK, OwnedOnce, Holds
    <3>3. ASSUME NEW q \in Objs, Holds(q)' PROVE live'[maybeT'[q]] # NoCtx
      BY <2>1, <2>2, <3>3 DEF IInv, TypeOK, OwnedOnce, Holds
    <3>4. ASSUME NEW q \in Objs, NEW r \in Objs, Holds(q)', maybeT'[q] = maybeT'[r]
          PROVE  q = r
      BY <2>1, <3>4 DEF IInv, TypeOK, OwnedOnce, Holds
    <3> QED BY <3>1, <3>2, <3>3, <3>4 DEF OwnedOnce
  <2>7. ASSUME NEW q \in Objs, Holds(q)' PROVE live'[maybeT'[q]] = ctx'[q]
    <3>1. maybeT'[q] \in Vals
      BY <2>5, <2>7 DEF TypeOK, Holds
    <3>2. live'[maybeT'[q]] # NoCtx
      BY <2>6, <2>7 DEF OwnedOnce
    <3>3. ASSUME Holds(q), maybeT'[q] = maybeT[q] PROVE live[maybeT'[q]] = ctx[q]
      BY <3>3 DEF IInv, OwnContext
    <3> QED BY <2>1, <2>2, <2>3, <2>7, <3>1, <3>2, <3>3 DEF IInv, OwnContext, Holds
  <2> QED BY <2>5, <2>6, <2>7 DEF IInv, OwnContext
<1> QED BY <1>1, <1>2, <1>3, <1>4, <1>5, <1>6, <1>7, <1>8, <1>9,
           <1>10, <1>11, <1>12, <1>13, <1>14, <1>15 DEF Next

\* Ownership is exact in every state: nothing is lost, dropped twice or used
\* after it was dropped.
THEOREM Ownership == Spec => []OwnedOnce
<1>1. IInv /\ [Next]_vars => IInv'
  BY NextStep
<1>2. IInv => OwnedOnce
  BY DEF IInv
<1> QED BY <1>1, <1>2, InitHolds, PTL DEF Spec

\* A value is only ever dropped or referred to with its own context.
THEOREM Contexts == Spec => []OwnContext
<1>1. IInv /\ [Next]_vars => IInv'
  BY NextStep
<1>2. IInv => OwnContext
  BY DEF IInv
<1> QED BY <1>1, <1>2, InitHolds, PTL DEF Spec
=============================================================================
