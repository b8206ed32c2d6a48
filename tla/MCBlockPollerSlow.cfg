SPECIFICATION Spec
CONSTANTS
  s1 = s1
  s2 = s2
  Slots = {s1, s2}
  MaxDay = 1
  MaxPerInterval = 1
  MaxInFlight = 2
  MaxCrashes = 0
CHECK_DEADLOCK FALSE
PROPERTIES
  OnlyNewHashEndsPolling
