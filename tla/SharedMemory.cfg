CONSTANTS
  Providers = {p1, p2}
  Clients = {c1}
  MaxSegments = 2
  MaxEnergy = 2
SPECIFICATION FairSpec
CHECK_DEADLOCK FALSE
INVARIANTS TypeOK SingleWriter NothingLeaked
PROPERTIES SessionMonotone InterruptEnds
