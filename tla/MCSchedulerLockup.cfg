SPECIFICATION Spec
CONSTANTS
  Thread = {th1, th2, th3}
  NoThread = NoThread
  NoItem = NoItem
  Task = {t1, t2}
  HandleTask = {}
  V8Task = {}
  Interrupt = {}
  MaxSync = 0
INVARIANT NeverLocksUp
CHECK_DEADLOCK FALSE
