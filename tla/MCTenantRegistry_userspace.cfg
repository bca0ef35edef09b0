SPECIFICATION Spec
CONSTANTS
  Threads = {t1}
  OpcodeSpace = 16
  SystemBit = 8
  OpcodeBase = 4
  Window = 2
  IdMax = 14
  MaxCalls = 4
INVARIANT WindowsInUserSpace
CHECK_DEADLOCK FALSE
