SPECIFICATION Spec
CONSTANTS
  q1 = q1
  q2 = q2
  f1 = f1
  NoReq = NoReq
  NoFamily = NoFamily
  Req = {q1, q2}
  Family = {f1}
  MaxToken = 3
  MaxTime = 0
  RefreshTtl = 1
  AbsoluteTtl = 2
INVARIANT ClosedFamilyIsDead
