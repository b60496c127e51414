SPECIFICATION FairSpec
CONSTANTS
  Pids = {2, 3, 4, 5}
  Workers = 2
  MaxDeaths = 2
  MaxStops = 1
CHECK_DEADLOCK FALSE
INVARIANTS KilledAreRemoved
