SPECIFICATION Spec
CONSTANTS
  hi = hi
  lo = lo
  NoMask = NoMask
  NoConfig = NoConfig
  Bits = {hi, lo}
  Rollable = {hi}
  NumRequests = 5
  Messages <- AllLines
  MaxDestroys = 2
CHECK_DEADLOCK FALSE
INVARIANTS
  MasklessShareHasNoMask
