SPECIFICATION Spec
CONSTANTS
  a = a
  b = b
  Producers = {p1}
  Consumers = {c1, c2}
  Observers = {}
  RingSize = 2
  Items <- MCOneItem
  MaxItems = 4
  None = None
INVARIANT DoneMeansFinished
