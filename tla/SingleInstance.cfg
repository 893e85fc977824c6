SPECIFICATION Spec
CONSTANTS
  Launches = {a, b, c}
  MaxFd = 5
  Inherited = {0, 1, 2, 4}
  RlimMax = 5
  Infinity = Infinity
  DefaultMax = 4
  NoProc = NoProc
INVARIANTS TypeOK OneDaemon PidFileNamesDaemon DaemonDetached
PROPERTIES RefusedByTheLiving ImplementsExclusive
CHECK_DEADLOCK FALSE
