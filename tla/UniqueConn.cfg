SPECIFICATION FairSpec
CONSTANTS
  Clients = {1, 2}
  Servers = {11, 12}
  Pids = {p1, p2}
  None = 0
INVARIANTS TypeOK UserOfConnection
PROPERTIES TurnedAwayForCause ClientsEnd
CHECK_DEADLOCK FALSE
