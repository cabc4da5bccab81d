SPECIFICATION Spec
CONSTANTS
  Objs = {m, d1, d2}
  Copyables = {d1, d2}
  Vals = {v1, v2, v3, v4}
  NoVal = NoVal
  Ctxs = {c1, c2}
  NoCtx = NoCtx
  Throws = {"drop", "ref"}
SYMMETRY Symmetry
INVARIANTS
  OwnedOnce
  OwnContext
CHECK_DEADLOCK FALSE
