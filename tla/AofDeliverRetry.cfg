CONSTANTS
  k1 = k1
  k2 = k2
  b1 = b1
  b2 = b2
  Select = Select
  Keys <- MCKeys
  Backends <- MCBackends
  Route <- MCRoute
  MaxCommands = 2
  SpuriousWakeups = FALSE
SPECIFICATION Spec
INVARIANT RetryIsMade
CHECK_DEADLOCK FALSE
