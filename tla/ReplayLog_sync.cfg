SPECIFICATION Spec
CONSTANTS
  MaxCapacity = 3
  MaxWrites = 7
INVARIANT ReplayInSync
CHECK_DEADLOCK FALSE
