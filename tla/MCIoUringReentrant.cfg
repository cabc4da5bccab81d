SPECIFICATION Spec
CONSTANTS
  Reqs = {r1, r2, r3}
  Handlers = {h1, h2}
  NoHandler = NoHandler
  NoReq = NoReq
  Entries = 2
  MaxDepth = 2
  QuietReplacement = FALSE
INVARIANT
  RunsHandlerSet
