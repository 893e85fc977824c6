SPECIFICATION FairSpec
CONSTANTS
  Clients = {c1, c2}
  Chunks = 2
  QLen = 1
  MaxStarts = 3
  MaxRestarts = 2
  MaxProcs = 3
  Lines = 1
  None = None
  Runs = {l1, l2}
  Callers = {k1}
  Backlog = 1
  Receivers = {r1, r2}
  Addresses = 2
  MaxServes = 1
INVARIANTS TypeOK AnswersReachClients NothingLeftOver
PROPERTIES RefusedForCause ProgramsEnd
CHECK_DEADLOCK FALSE
