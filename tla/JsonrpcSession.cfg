SPECIFICATION FairSpec
CONSTANTS
  NumCalls = 2
  MaxAttempts = 3
  MaxWait = 1
  MaxQueue = 0
  UsesLookup = TRUE
INVARIANTS
  NoCallLost
  OwnAnswer
  SentInOrder
  WaitBounded
PROPERTIES
  KeepsCalls
  CallsSettle
CHECK_DEADLOCK FALSE
