SPECIFICATION FairSpec
CONSTANT MaxSent = 3
INVARIANTS TypeOK WokenForCause LocksKept
PROPERTY ThreadsEnd
CHECK_DEADLOCK FALSE
