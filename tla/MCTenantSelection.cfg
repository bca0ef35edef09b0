SPECIFICATION SelectSpec
CONSTANTS
  MaxActive = 3
  TenantIds <- MCTenantIds
  Lengths <- MCLengths
INVARIANTS SelectionIndependent SelectionMaximal
CHECK_DEADLOCK FALSE
