SPECIFICATION Spec
CONSTANTS
  Publishers = {p1, p2}
  Cap = 2
  MaxSpins = 0
  MaxCalls = 3
  MaxSnapshots = 1
  MaxQuiesces = 0
INVARIANT SnapshotConsistent
CHECK_DEADLOCK FALSE
