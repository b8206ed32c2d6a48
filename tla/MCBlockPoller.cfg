SPECIFICATION FairSpec
CONSTANTS
  s1 = s1
  s2 = s2
  Slots = {s1, s2}
  MaxDay = 3
  MaxPerInterval = 1
  MaxInFlight = 1
  MaxCrashes = 1
CHECK_DEADLOCK FALSE
INVARIANTS
  TypeOK
  NoHashMissed
PROPERTIES
  PoolCatchesUp
