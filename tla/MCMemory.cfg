SPECIFICATION MCSpec
CONSTANTS
  Limit = 2
  Misc = 1
  Slack = 1
  FirstHeap = 1
  Tiny = 1
  Word = 16
  Length = {1, 2}
  MaxUsed = 2
  MaxRaise = 1
  Isolate = {n, a}
  Default = n
  Store = {s1, s2, s3}
  Buffer = {b1, b2}
  Copy = {c}
  Hand = {h1, h2}
  None = None
SYMMETRY Symmetry
INVARIANTS MemInv 
PROPERTIES LimitHolds NothingLost
CHECK_DEADLOCK FALSE
