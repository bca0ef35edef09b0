SPECIFICATION FairSpec
CONSTANTS
  SlotCount = 2
  Offsets <- TwoBands
  Lanes = {0, 2}
  Stride = 2
  Threshold = 2
  Tenants = {0}
  Tenant0 = 0
PROPERTY HighPriorityServed
