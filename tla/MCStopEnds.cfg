CONSTANTS
  n1 = n1
  w1 = w1
  r1 = r1
  r2 = r2
  t1 = t1
  Nodes = {n1}
  Workers = {w1}
  HostOf <- OneHostOf
  WorkerOf <- OneWorkerOf
  Receivers = {r1}
  Transmissions = {}
  MaxStarts = 1
  Flaky = {}
  NoProcess = NoProcess
  NotInterrupted = NotInterrupted
SPECIFICATION SignalFairSpec
PROPERTIES StopEnds
CHECK_DEADLOCK FALSE
