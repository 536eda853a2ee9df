SPECIFICATION FairSpec
CONSTANTS
  e1 = e1
  p1 = p1
  w1 = w1
  w2 = w2
  Event = {e1}
  Poison = {}
  Consumers = {w1, w2}
  Prefetch = 1
  DeliveryLimit = 1
  MaxCopies = 2
PROPERTY EffectGetsReceipt
