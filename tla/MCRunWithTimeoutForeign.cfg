SPECIFICATION Spec
CONSTANTS
  Depth = 1
  MaxEnter = 2
  Modes = {"foreign"}
  ErrorHandler = FALSE
PROPERTY InterruptRunning
CHECK_DEADLOCK FALSE
