SPECIFICATION FairSpec
CONSTANTS
  Clients = {c1, c2}
  Lines = 1
  MaxStarts = 2
  None = None
PROPERTY NeverBlocksForever
CHECK_DEADLOCK FALSE
