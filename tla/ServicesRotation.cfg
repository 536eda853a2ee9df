SPECIFICATION Spec
CONSTANTS
  c1 = c1
  v1 = v1
  v2 = v2
  w1 = w1
  w2 = w2
  h1 = h1
  h2 = h2
  h3 = h3
  p1 = p1
  p2 = p2
  q1 = q1
  q2 = q2
  api = api
  relay = relay
  i1 = i1
  i2 = i2
  k1 = k1
  k2 = k2
  f1 = f1
  Client = {c1}
  HistoryLimit = 2
  MaxEvents = 4
  MaxDrops = 2
  MaxRestarts = 1
  Limit = 2
  Window = 5
  PerSecond = 2
  MaxClock = 14
  MaxOutages = 2
  Visitor = {v1, v2}
  IdleTtl = 2
  AbsoluteTtl = 4
  MaxErrors = 1
  Worker = {w1, w2}
  NoWorker = NoWorker
  Attempts = 2
  MaxStalled = 1
  MaxAdds = 3
  Hand = {h1, h2, h3}
  JobCount = 3
  Mine = {1, 3, 4}
  MaxRows = 5
  MaxLimit = 2
  Caller = {p1, p2}
  MaxFaults = 2
  Bump <- Amounts
  MaxAttempts = 2
  MaxBroken = 1
  Req = {q1, q2}
  NoReq = NoReq
  MaxVersion = 2
  MaxCardFaults = 2
  Process = {api, relay}
  MaxRotations = 2
  Instance = {i1, i2}
  Kid = {k1, k2}
  NoKid = NoKid
  MaxKey = 3
  AccessTtl = 1
  LastTick = 3
  MaxToken = 2
  Family = {f1}
  FamilyOf <- OneFamily
  MaxTime = 4
CHECK_DEADLOCK FALSE
INVARIANTS
  RotationNeedsNoRestart
