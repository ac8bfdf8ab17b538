SPECIFICATION FairSpec
CONSTANTS
  Thread = {th1, th2, th3}
  NoThread = NoThread
  NoItem = NoItem
  Task = {t1}
  HandleTask = {h1}
  V8Task = {v1}
  Interrupt = {i1}
  MaxSync = 1
INVARIANTS IInv NoLostWake ExactlyOnce FifoTasks
PROPERTIES NothingLeft
CHECK_DEADLOCK FALSE
