SPECIFICATION FairSpec
CONSTANTS
  SlotCount = 3
  Offsets <- ThreeBands
  Lanes = {0, 3}
  Stride = 3
  Threshold = 2
  Tenants = {0}
  Tenant0 = 0
INVARIANTS OneHolder StuckOnlyIfRevoked HighStreakBounded
PROPERTY LowerPriorityServed
