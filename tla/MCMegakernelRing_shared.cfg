SPECIFICATION Spec
CONSTANTS
  SlotCount = 1
  Lanes = {0, 1, 2}
  LaneSlot <- LanesShareSlots
  Tenants = {0}
  TenantCount = 1
  Opcodes = {"NOP", "SHUTDOWN"}
  MaxItems = 0
  MaxTickets = 3
INVARIANTS
  ClaimedByOneLane
  ExecutesOnePublication
  RunsExactlyOnce
CHECK_DEADLOCK FALSE
