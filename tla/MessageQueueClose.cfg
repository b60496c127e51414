SPECIFICATION FairSpec
CONSTANTS
  Callers = {c1}
  MaxMessages = 1
  MaxBatch = 1
PROPERTIES CloseThenJoin
