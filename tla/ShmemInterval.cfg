CONSTANTS
  Providers = {p1, p2}
  Clients = {c1}
  MaxSegments = 2
  MaxEnergy = 2
CHECK_DEADLOCK FALSE
SPECIFICATION Spec
INVARIANT IntervalIsSet
