SPECIFICATION FairSpec
CONSTANTS
  clipA = clipA
  clipB = clipB
  clipC = clipC
  None = None
  Clips <- SomeClips
  MaxFaults = 1
  Settings <- FaultOrAnyRetry
INVARIANTS
  CaptureIsDocumented
  FootageIsTraceable
  AnswersAreTrue
PROPERTY CapturesSettle
CHECK_DEADLOCK FALSE
