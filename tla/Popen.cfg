SPECIFICATION FairSpec
CONSTANTS
  MaxFd = 6
  MaxCalls = 2
  MaxInterrupts = 1
  StdOpen = {0, 1, 2}
INVARIANTS TypeOK ChildrenTracked NoInheritedStream
PROPERTIES CommandOnPipe ImplementsPopenSpec PcloseReturns
CHECK_DEADLOCK FALSE
