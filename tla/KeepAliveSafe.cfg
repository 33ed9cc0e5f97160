SPECIFICATION Spec
CONSTANTS
  KeepAlive = 8
  MinPeriod = 1
  BackoffLimit = 4
  CheckPeriod = 2
  Late = 1
  AnswerTime = 1
  Horizon = 13
  None = None
INVARIANTS DeadPeerDetected PingsInTime RetriesInTime
PROPERTIES LivePeerKept
