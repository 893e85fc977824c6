SPECIFICATION FairSpec
CONSTANTS
  Clients = {c1, c2}
  Chunks = 1
  QLen = 1
  MaxProcs = 3
INVARIANT StdOnSocket
CHECK_DEADLOCK FALSE
