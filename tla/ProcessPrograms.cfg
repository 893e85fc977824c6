SPECIFICATION FairSpec
CONSTANTS
  MaxInterrupts = 2
  MaxLines = 3
  PipeSize = 2
  Senders = {s1, s2}
  Receivers = {r1, r2}
  MaxType = 3
  Room = 6
  Earlier = Earlier
  PerWriter = 3
  FifoReaders = {f1}
  FifoWriters = {w1, w2}
  MaxGiven = 2
  FifoSize = 1
  MaxCommands = 2
  MaxOpen = 2
  MaxChanges = 2
INVARIANTS TypeOK ChildrenAccounted NothingLost
PROPERTIES CallsKeepPromises ImplementsAppendLog ProcessesEnd
CHECK_DEADLOCK FALSE
