SPECIFICATION Spec
CONSTANTS
  a = a
  b = b
  Producers = {p1}
  Consumers = {c1}
  Observers = {}
  RingSize = 1
  Items <- MCOneItem
  MaxItems = 2
  None = None
INVARIANT RefusesWhenFull
