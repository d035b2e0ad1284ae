SPECIFICATION Spec
CONSTANTS
  MaxCalls = 1
  Meta = Meta
  Torn = Torn
  NoFile = NoFile
  MaxFaults = 1
  MaxCrashes = 0
INVARIANT
  Projectable
CHECK_DEADLOCK FALSE
