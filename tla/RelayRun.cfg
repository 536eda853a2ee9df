SPECIFICATION FairSpec
CONSTANTS
  e1 = e1
  e2 = e2
  r1 = r1
  r2 = r2
  Event = {e1, e2}
  Relays = {r1, r2}
  BatchSize = 2
  MaxAttempts = 1
  MaxAborts = 1
INVARIANTS
  MarkedReachedBroker
  DuplicatesAccounted
PROPERTIES
  NoResendAfterMark
  EveryEventPublished
