SPECIFICATION FairSpec
CONSTANTS
  r1 = r1
  r2 = r2
  Producers = {r1, r2}
  Capacity <- OneEach
  OutSize = 1
  BatchSize = 2
  MaxPushes = 5
INVARIANTS InOrder HighFirst
PROPERTY EverythingLeaves
CHECK_DEADLOCK FALSE
