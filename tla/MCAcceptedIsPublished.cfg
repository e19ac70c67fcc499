CONSTANTS
  n1 = n1
  n2 = n2
  w1 = w1
  w2 = w2
  r1 = r1
  r2 = r2
  t1 = t1
  t2 = t2
  Nodes = {n1}
  Workers = {w1}
  HostOf <- OneHostOf
  WorkerOf <- OneWorkerOf
  Receivers = {r1}
  Transmissions = {t1}
  MaxStarts = 1
  Flaky = {}
  NoProcess = NoProcess
SPECIFICATION FairSpec
PROPERTIES AcceptedIsPublished
