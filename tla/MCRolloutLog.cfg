SPECIFICATION Spec
CONSTANTS
  MaxCalls = 3
  Meta = Meta
  Torn = Torn
  NoFile = NoFile
  MaxFaults = 2
  MaxCrashes = 2
INVARIANTS
  TypeOK
  AckedKept
  OrdinalsDense
  InSentOrder
  NoneStranded
CHECK_DEADLOCK FALSE
