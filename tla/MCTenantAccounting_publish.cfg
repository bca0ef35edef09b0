SPECIFICATION Spec
CONSTANTS
  Publishers = {p1, p2, p3}
  Cap = 2
  MaxSpins = 1
  MaxCalls = 3
  MaxSnapshots = 1
  MaxQuiesces = 1
SYMMETRY PublisherSymmetry
INVARIANTS AccountingExact BacklogWithinCap BackpressureWhenFull QuiescedAfterStop
  StragglersBounded
CHECK_DEADLOCK FALSE
