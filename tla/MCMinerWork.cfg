SPECIFICATION FairSpec
CONSTANTS
  opt_n_threads = 2
  NonceMax = 12
  Margin = 4
  Lanes = 2
  Limits <- SmallLimits
  NoJob = NoJob
  NoWork = NoWork
  NoShare = NoShare
CHECK_DEADLOCK FALSE
INVARIANTS
  TypeOK
  WorkFollowsJob
  NoDuplicateShare
PROPERTIES
  ThreadsFollow
