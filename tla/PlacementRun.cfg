SPECIFICATION FairSpec
CONSTANTS
  k1 = k1
  k2 = k2
  p1 = p1
  p2 = p2
  u1 = u1
  u2 = u2
  b1 = b1
  b2 = b2
  bad = bad
  NoReq = NoReq
  Req = {1, 2, 3, 4, 5, 6}
  Workload <- Workloads
  Key = {k1, k2}
  BadBody = {bad}
  Product = {p1, p2}
  User = {u1, u2}
  Price <- CheckoutPrice
  InitStock <- CheckoutStock
  InitBalance <- CheckoutBalance
INVARIANTS
  GoodsAndMoneyConserved
  AllOrNothing
  OneOrderPerKey
  AnswersAgree
PROPERTY EveryRequestAnswered
