SPECIFICATION FairSpec
CONSTANTS
  Launches = {m1, m2}
  NoOne = NoOne
  MaxBytes = 3
  Space = 2
  MaxTable = 4
  Files = {f, g}
  Ptys = {1, 12}
  Sizes = {11, 20}
INVARIANTS TypeOK FilesKept
PROPERTIES GrantedForCause NobodyWaitsForever
CHECK_DEADLOCK FALSE
