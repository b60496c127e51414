CONSTANTS
  k1 = k1
  k2 = k2
  b1 = b1
  b2 = b2
  Select = Select
  Keys <- MCKeys
  Backends <- MCBackends
  Route <- MCRoute
  MaxCommands = 2
  SpuriousWakeups = TRUE
SPECIFICATION Spec
INVARIANTS InFileOrder StatIsExact NoLostHandoff OverlookedOnlyIfMissed
CHECK_DEADLOCK FALSE
