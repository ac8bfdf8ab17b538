SPECIFICATION FairSpec
CONSTANTS
  s1 = s1
  s2 = s2
  m1 = m1
  m2 = m2
  m3 = m3
  Session = {s1, s2}
  Message = {m1, m2, m3}
  From <- MCFrom
  Resumes = {m2}
  MaxPause = 2
  MaxTask = 2
INVARIANTS Inv 
PROPERTIES MessageDispatched
CHECK_DEADLOCK FALSE
