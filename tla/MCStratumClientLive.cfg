SPECIFICATION FairSpec
CONSTANTS
  hi = hi
  lo = lo
  NoMask = NoMask
  NoConfig = NoConfig
  Bits = {hi, lo}
  Rollable = {hi}
  NumRequests = 4
  Messages <- PipelinedLines
  MaxDestroys = 2
CHECK_DEADLOCK FALSE
PROPERTIES
  HandlersEnd
  StreamReleased
