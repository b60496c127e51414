SPECIFICATION FairSpec
CONSTANTS
  Threads = {t1, t2}
  Processes = {p1, p2}
  StageSize = 2
  MaxStage = 1
  Int32Max = 3
  SizeTMax = 7
  HeaderSize = 1
  RequestSizes = {1, 2}
  Full = {1, 3}
  MaxId = 7
  MaxAllocations = 3
  MaxCrashes = 1
  MaxFailures = 1
INVARIANTS OneHolder OffsetIsEnd AllocatedIsWritable
PROPERTIES StoreSpec AllocateEnds
CHECK_DEADLOCK FALSE
