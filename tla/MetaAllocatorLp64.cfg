SPECIFICATION Spec
CONSTANTS
  Threads = {t1, t2}
  Processes = {p1}
  StageSize = 2
  MaxStage = 1
  Int32Max = 3
  SizeTMax = 15
  HeaderSize = 1
  RequestSizes = {1, 2}
  Full = {}
  MaxId = 7
  MaxAllocations = 3
  MaxCrashes = 0
  MaxFailures = 0
INVARIANTS AllocatedIsWritable
CHECK_DEADLOCK FALSE
