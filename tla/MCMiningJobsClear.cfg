SPECIFICATION Spec
CONSTANTS
  c1 = c1
  c2 = c2
  h1 = h1
  h2 = h2
  NoHash = NoHash
  Clients = {c1, c2}
  Hashes = {h1, h2}
  MaxInterval = 2
  MaxJobId = 7
CHECK_DEADLOCK FALSE
PROPERTIES
  NewBlockClearsJobs
