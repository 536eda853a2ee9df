SPECIFICATION Spec
CONSTANTS
  e1 = e1
  p1 = p1
  w1 = w1
  w2 = w2
  Event = {e1, p1}
  Poison = {p1}
  Consumers = {w1, w2}
  Prefetch = 2
  DeliveryLimit = 1
  MaxCopies = 2
SYMMETRY Symmetry
INVARIANTS
  EffectOnce
  AckedIsComplete
PROPERTY SettledStays
