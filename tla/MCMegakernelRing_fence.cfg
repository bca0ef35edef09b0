SPECIFICATION Spec
CONSTANTS
  SlotCount = 2
  Lanes = {0, 1}
  LaneSlot <- OneLanePerSlot
  Tenants = {0}
  TenantCount = 1
  Opcodes = {"NOP"}
  MaxItems = 1
  MaxTickets = 2
INVARIANTS
  FenceSignalsCompletion
CHECK_DEADLOCK FALSE
