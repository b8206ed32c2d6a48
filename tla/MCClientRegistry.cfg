SPECIFICATION FairSpec
CONSTANTS
  Clients = {c1, c2}
  Instances = {i0, i1}
  Zero = i0
  MaxCrashes = 2
CHECK_DEADLOCK FALSE
INVARIANTS
  TypeOK
  RegisteredAreKept
PROPERTIES
  NoGhosts
  RowsPurged
