SPECIFICATION MCSpec
CONSTANTS
  Isolate = {n, a}
  Default = n
  Persistent = {1, 2, 3}
  Object = {1, 2}
  Call = {1, 2, 3}
  MaxCalls = 1
  None = None
  Obj = {1, 2, 3}
  Value = {"v", "w"}
  Main = main
  Foreign = foreign
  Pool = {pool}
  Null = Null
  MaxDepth = 3
  MaxTime = 1
  Title = {x, y}
  NoProfiler = NoProfiler
  IntMax = 3
  MaxRecorded = 5
  MaxLocks = 2
  MaxItems = 4
INVARIANTS Inv AtHome   ExecutorInv
PROPERTIES SetOrNothing
CHECK_DEADLOCK FALSE
