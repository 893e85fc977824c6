SPECIFICATION Spec
CONSTANTS
  MaxFd = 6
  MaxCalls = 1
  MaxInterrupts = 0
  StdOpen = {0, 1, 2}
INVARIANTS PcloseAfterTermination
CHECK_DEADLOCK FALSE
