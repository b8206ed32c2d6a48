SPECIFICATION Spec
CONSTANTS
  s1 = s1
  s2 = s2
  s3 = s3
  p1 = p1
  p2 = p2
  Shares = {s1, s2, s3}
  Proofs = {p1, p2}
  ProofOf <- MCProofOf
  Fee = 100
  Capacity = 1
  MoreCapacity = 1
CHECK_DEADLOCK FALSE
INVARIANTS
  TypeOK
  ResultIsTruthful
  PoolSolvent
PROPERTIES
  LedgerSpec
