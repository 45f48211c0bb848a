SPECIFICATION UploadSpec
CONSTANTS
  photo1 = photo1
  photo2 = photo2
  Items <- Photos
  Type <- SameType
  MaxTries = 2
  MaxFaults = 1
  MaxTurns = 3
INVARIANTS
  QueuedIsKept
  CapturedHasItsBytes
  UploadsFreeTheCase
PROPERTIES
  ItemsSettle
CHECK_DEADLOCK FALSE
