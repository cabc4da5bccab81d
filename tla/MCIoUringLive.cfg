SPECIFICATION FairSpec
CONSTANTS
  Reqs = {r1, r2, r3}
  Handlers = {h1}
  NoHandler = NoHandler
  NoReq = NoReq
  Entries = 2
  MaxDepth = 2
  QuietReplacement = TRUE
PROPERTIES
  CompletionsHandled
  CancelAnswered
