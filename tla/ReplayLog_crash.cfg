SPECIFICATION Spec
CONSTANTS
  MaxCapacity = 3
  MaxWrites = 7
INVARIANTS AcknowledgedKept ReplayOrdered
PROPERTY ImplementsCircularLog
CHECK_DEADLOCK FALSE
