SPECIFICATION Spec
CONSTANTS
  MaxCalls = 2
  Meta = Meta
  Torn = Torn
  NoFile = NoFile
  MaxFaults = 0
  MaxCrashes = 0
INVARIANT
  Durable
CHECK_DEADLOCK FALSE
