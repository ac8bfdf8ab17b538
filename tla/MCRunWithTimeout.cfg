SPECIFICATION FairSpec
CONSTANTS
  Depth = 3
  MaxEnter = 4
  Modes = {"async", "default"}
  ErrorHandler = TRUE
INVARIANTS Inv
PROPERTIES KilledFromOutside TimeoutEnds
CHECK_DEADLOCK FALSE
