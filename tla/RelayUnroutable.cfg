SPECIFICATION Spec
CONSTANTS
  e1 = e1
  e2 = e2
  r1 = r1
  r2 = r2
  Event = {e1}
  Relays = {r1}
  BatchSize = 1
  MaxAttempts = 1
  MaxAborts = 0
INVARIANT MarkedReachedQueue
