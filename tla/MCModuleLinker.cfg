SPECIFICATION FairSpec
CONSTANTS
  a = a
  b = b
  c = c
  l1 = l1
  l2 = l2
  None = None
  Module = {a, b, c}
  Linker = {l1, l2}
  Misled = {l2}
  MaxReleased = 1
  Arity <- ArityValue
 
PROPERTIES GraphStands InstantiateSettles
CHECK_DEADLOCK FALSE
