SPECIFICATION FairSpec
CONSTANTS
  q1 = q1
  q2 = q2
  f1 = f1
  NoReq = NoReq
  NoFamily = NoFamily
  Req = {q1, q2}
  Family = {f1}
  MaxToken = 3
  MaxTime = 2
  RefreshTtl = 2
  AbsoluteTtl = 3
INVARIANTS
  OneUnusedPerFamily
  AbsoluteLimit
PROPERTIES
  RevokedStaysRevoked
  EveryRequestEnds
