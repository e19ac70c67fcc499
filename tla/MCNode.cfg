CONSTANTS
  m1 = m1
  r1 = r1
  a1 = a1
  x1 = x1
  x2 = x2
  NoTransfer = NoTransfer
  Maps = {m1}
  Reduces = {}
  Relaunched = {m1}
  AMs = {a1}
  Transfers = {x1}
  TransfersOf <- AllTransfers
  LifeTime = 1
  Patience = 2
  MaxKills = 2
  MayFail = TRUE
  MaxAge = 0
SPECIFICATION Spec
INVARIANTS TypeOK ReportedOnce Accounted
PROPERTIES UsesService
CHECK_DEADLOCK FALSE
