CONSTANTS
  a1 = a1
  a2 = a2
  n1 = n1
  AMs = {a1, a2}
  NMs = {n1}
  Tasks <- MCTasks
  JobId <- MCJobId
  Interval <- MCInterval
  Duration <- MCDuration
  Start <- MCStart
  Work <- MCWork
  IntervalOfAll = 1
  FirstStart = 0
  SecondStart = 0
  Far = 4
  MaxLag = 2
  Threads = 3
  Slots = 3
  MaxThrows = 1
SPECIFICATION FairSpec
INVARIANTS TypeOK CountInv ExitIsEnd LastMeansFinished
PROPERTIES SimulationEnds
CHECK_DEADLOCK FALSE
