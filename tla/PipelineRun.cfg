SPECIFICATION FairSpec
CONSTANTS
  e1 = e1
  e2 = e2
  r1 = r1
  w1 = w1
  w2 = w2
  Event = {e1}
  Relays = {r1}
  BatchSize = 1
  MaxAttempts = 1
  MaxAborts = 1
  Consumers = {w1}
  Prefetch = 2
  DeliveryLimit = 1
INVARIANT NothingLost
PROPERTIES
  ImplementsOrderEffect
  EveryOrderHandled
  EveryCopySettles
