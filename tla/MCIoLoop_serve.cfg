SPECIFICATION FairSpec
CONSTANTS
  SlotCount = 2
  l1 = l1
  l2 = l2
  Lanes = {l1, l2}
  SqEntries = 1
  Workloads <- MCWorkloads
  MaxRequests = 3
INVARIANTS ClaimedExactlyOnce OkMeansServed
PROPERTIES RequestsAnswered StopReturns
CHECK_DEADLOCK FALSE
