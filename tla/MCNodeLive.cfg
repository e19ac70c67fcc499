CONSTANTS
  m1 = m1
  r1 = r1
  a1 = a1
  x1 = x1
  x2 = x2
  NoTransfer = NoTransfer
  Relaunched = {}
  Maps = {m1}
  Reduces = {r1}
  AMs = {}
  Transfers = {x1}
  TransfersOf <- LocalMap
  LifeTime = 1
  Patience = 2
  MaxKills = 1
  MaxAge = 1
  MayFail = TRUE
SPECIFICATION FairSpec
INVARIANTS Accounted NotTooEarly
PROPERTIES EndsUnlessDead
CHECK_DEADLOCK FALSE
