CONSTANTS
  m1 = m1
  m2 = m2
  r1 = r1
  r2 = r2
  allMaps <- TwoMaps
  allReduces <- TwoReduces
  MaxTaskKills = 2
  MaxAMKills = 0
  NoContainer = NoContainer
  NoResponse = NoResponse
  Mem <- DistinctMem
SPECIFICATION WrapperFairSpec
INVARIANTS WrapperTypeOK CountInv OnePlace RequestInv ReducesAfterMaps FinishedMeansDone OneLiveAtEnd
PROPERTIES JobEnds
CHECK_DEADLOCK FALSE
