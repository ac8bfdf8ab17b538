SPECIFICATION TimerFairSpec
CONSTANTS
  a = a
  t1 = t1
  t2 = t2
  h1 = h1
  h2 = h2
  h3 = h3
  None = None
  Owner = {a}
  Timer = {t1, t2}
  Detached = {t2}
  Thread = {h1, h2, h3}
  Ms <- MCMs
  MaxNow = 4
INVARIANTS TimerInv
PROPERTIES NeverEarly TimerEnds
CHECK_DEADLOCK FALSE
