SPECIFICATION Spec
CONSTANTS
  Threads = {t1, t2, t3}
  Calls = {f, g}
  delayed = f
  KindsOf <- MCKindsOf
  InitSize = 1
  MaxSize = 2
  MaxRuns = 2
  MaxStarts = 2
  Users = {u1, u2}
  Keys = {k1, k2, k3}
  CacheSize = 1
  MaxInserts = 3
  Clients = {c1, c2}
  editor = c1
  CallsOf <- MCCallsOf
  Targets = {d1, d2}
  first = d1
  Fits <- MCFits
  PointOf <- MCPointOf
  Hashes = {1, 2, 3}
  Capacities = {1, 2}
  MaxCalls = 5
  Servers = {s1, s2}
  Main = s1
  MaxRequests = 3
  Workers = {w1, w2, w3, w4}
  Posters = {p1}
  Messages = {m1, m2}
  Nested = {m1}
  PoolInitSize = 2
  PoolMaxSize = 0
  MinBusy = 2
  Resizes <- MCResizes
  MaxSets = 1
  Connections = {n1, n2}
  talker = n1
  Streams <- MCStreams
  BufferSize = 2
  MaxErrors = 1
INVARIANT FailedIsRetried
CHECK_DEADLOCK FALSE
