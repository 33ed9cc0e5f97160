SPECIFICATION FairRuntime
CONSTANTS
  Handles = {h1}
  Timers = {t1}
  Promises = {p1, p2}
  Kinds = {"stream", "process", "signal", "udp"}
  Listeners = {"message", "close"}
  MaxDepth = 2
  KeepWaiting = TRUE
  None = None
INVARIANTS   ReaderListens NoSleepWithJobs 
PROPERTIES FreedInTheEnd RequestsSettle
