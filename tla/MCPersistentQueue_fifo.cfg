SPECIFICATION Spec
CONSTANTS
  a = a
  b = b
  Producers = {p1, p2}
  Consumers = {c1, c2}
  Observers = {o1}
  RingSize = 2
  Items <- MCItems
  MaxItems = 2
  None = None
SYMMETRY Symmetry
INVARIANT InFlightWithinRing
PROPERTIES ImplementsFifo FullIsTrue NoneMeansEmpty
