SPECIFICATION FairSpec
CONSTANTS
  node = node
  a = a
  b = b
  c1 = c1
  c2 = c2
  c3 = c3
  Isolate = {node, a, b}
  Default = node
  Call = {c1, c2, c3}
  Quiet = {c2}
  First <- MCFirst
  Second <- MCSecond
  NoMsg = NoMsg
INVARIANTS IInv CallOrder
PROPERTIES ImplementsAsyncCall CallsEnd
CHECK_DEADLOCK FALSE
