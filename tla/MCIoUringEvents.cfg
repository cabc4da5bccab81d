SPECIFICATION FairSpec
CONSTANTS
  Reqs = {r1, r2, r3}
INVARIANTS
  NoLostWakeup
PROPERTIES
  EventsHandled
