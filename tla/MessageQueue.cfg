SPECIFICATION FairSpec
CONSTANTS
  Callers = {c1, c2}
  MaxMessages = 4
  MaxBatch = 2
INVARIANT NoLostPost
PROPERTIES DeliverySpec PostedIsRun CloseReturns
