CONSTANTS
  n1 = n1
  n2 = n2
  w1 = w1
  w2 = w2
  r1 = r1
  r2 = r2
  t1 = t1
  t2 = t2
  Nodes = {n1, n2}
  Workers = {w1, w2}
  HostOf <- TwoHostOf
  WorkerOf <- TwoWorkerOf
  Receivers = {r1}
  Transmissions = {t2}
  MaxStarts = 2
  Flaky = {w1}
  NoProcess = NoProcess
SPECIFICATION FairSpec
INVARIANTS TypeOK DropsOnlyDead
PROPERTIES NoLineDropped LeavesByReport FoundIsPublished JoinEnds
