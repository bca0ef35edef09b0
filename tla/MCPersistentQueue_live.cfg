SPECIFICATION FairSpec
CONSTANTS
  a = a
  b = b
  Producers = {p1, p2}
  Consumers = {c1, c2}
  Observers = {}
  RingSize = 2
  Items <- MCOneItem
  MaxItems = 3
  None = None
PROPERTY EnqueuedIsClaimed
