SPECIFICATION Spec
CONSTANTS
  Threads = {t1, t2, t3}
  OpcodeSpace = 11
  SystemBit = 6
  OpcodeBase = 3
  Window = 2
  IdMax = 4
  MaxCalls = 5
SYMMETRY ThreadSymmetry
INVARIANTS FreshIds WindowsDisjoint HandlesAccountedFor
CHECK_DEADLOCK FALSE
