SPECIFICATION FairSpec
CONSTANTS
  SlotCount = 2
  Lanes = {0, 1}
  LaneSlot <- OneLanePerSlot
  Tenants = {0, 1}
  TenantCount = 1
  Opcodes = {"NOP", "STORE_U32", "SHUTDOWN"}
  MaxItems = 1
  MaxTickets = 2
INVARIANTS
  AuthorisedTenantRuns
  CountersAgree
PROPERTIES
  InFlightPayloadStable
  ClaimedIsHandedBack
  ShutdownStopsLanes
  EnabledWorkRuns
CHECK_DEADLOCK FALSE
