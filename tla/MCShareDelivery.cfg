SPECIFICATION FairSpec
CONSTANTS
  Threads = {t1}
  OptRetries <- Retries
  NULL = NULL
  MaxTroubles = 3
  MaxBlocks = 2
  MaxShares = 2
CHECK_DEADLOCK FALSE
INVARIANTS
  TypeOK
  SharesConserved
  RetriesIndefinitely
PROPERTIES
  SharesResolved
  GivingUpEnds
  ResetHonoured
