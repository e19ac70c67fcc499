CONSTANTS
  m1 = m1
  m2 = m2
  r1 = r1
  r2 = r2
  allMaps <- OneMap
  allReduces <- OneReduce
  MaxTaskKills = 0
  MaxAMKills = 1
  NoContainer = NoContainer
  NoResponse = NoResponse
SPECIFICATION FairSpec
PROPERTIES JobEnds
CHECK_DEADLOCK FALSE
