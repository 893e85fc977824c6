SPECIFICATION FairSpec
CONSTANTS
  MaxSent = 4
  Sleeps = 2
  MaxPass = 2
  MaxTyped = 4
  MaxKeys = 3
  MaxRuns = 2
INVARIANTS TypeOK NoSignalMissed MasksKept
PROPERTIES OnlyAllowedEffects WaitsEnd
CHECK_DEADLOCK FALSE
