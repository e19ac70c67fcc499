CONSTANTS
  m1 = m1
  m2 = m2
  r1 = r1
  r2 = r2
  allMaps <- OneMap
  allReduces <- OneReduce
  MaxTaskKills = 1
  MaxAMKills = 1
  NoContainer = NoContainer
  NoResponse = NoResponse
  Mem <- DistinctMem
SPECIFICATION WrapperSpec
INVARIANTS ContainerUsedOnce EveryContainerHasTask PendingIsOwed AllocatedIsHeld
CHECK_DEADLOCK FALSE
