SPECIFICATION MCSpec
CONSTANTS
  a = a
  b = b
  c = c
  c1 = c1
  c2 = c2
  n1 = n1
  n2 = n2
  n3 = n3
  None = None
  CallingIsolate = {a}
  Call = {c1, c2}
  Caller <- MCCaller
  Affinity = {a, b, c}
  Size = 2
  MaxJobs = 4
  Isolate = {a, b}
  NoIsolate = NoIsolate
  Import = {n1, n2, n3}
  NoImport = NoImport
  Home <- MCHome
INVARIANTS SyncInv PoolInv ImportInv
PROPERTIES SyncReturns JobRuns ImportSettles
CHECK_DEADLOCK FALSE
