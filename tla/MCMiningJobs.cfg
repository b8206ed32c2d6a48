SPECIFICATION FairSpec
CONSTANTS
  c1 = c1
  c2 = c2
  h1 = h1
  h2 = h2
  NoHash = NoHash
  Clients = {c1, c2}
  Hashes = {h1, h2}
  MaxInterval = 2
  MaxJobId = 8
CHECK_DEADLOCK FALSE
INVARIANTS
  TypeOK
  JobHasTemplate
  NewestJobIsCurrent
  WorkAfterFirstTick
  JobsAreExclusive
PROPERTIES
  OnlyNewBlockRevokesWork
  EveryMinerGetsWork
