SPECIFICATION UvFairSpec
CONSTANTS
  node = node
  a = a
  b = b
  s1 = s1
  s2 = s2
  s3 = s3
  Isolate = {a, b}
  Default = node
  Closure = {s1, s2, s3}
  MaxPosts = 4
INVARIANTS UvInv
PROPERTIES  LoopServes
CHECK_DEADLOCK FALSE
