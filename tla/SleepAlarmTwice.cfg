SPECIFICATION FairSpec
CONSTANTS
  Sigs = {"SIGINT", "SIGALRM"}
  MaxSent = 3
  Programs = {"sleep2"}
  Calls1 = 2
  Calls2 = 2
PROPERTIES ReturnsOnAlarm
CHECK_DEADLOCK FALSE
