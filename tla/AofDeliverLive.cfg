CONSTANTS
  k1 = k1
  b1 = b1
  k2 = k2
  b2 = b2
  Select = Select
  Keys = {k1}
  Backends = {b1}
  Route <- OneRoute
  MaxCommands = 2
  SpuriousWakeups = TRUE
SPECIFICATION FairSpec
PROPERTIES AppendedIsRead ReadIsSent StopEnds
CHECK_DEADLOCK FALSE
