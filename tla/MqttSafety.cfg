SPECIFICATION Spec
CONSTANTS
  Attempts = {a1, a2}
  Msgs = {m1}
  Acked = {m1}
  Topics = {t1}
  StoreLimit = 0
  MaxTimers = 2
  Reopen = TRUE
  LateLookup = FALSE
  None = None
INVARIANTS
  SubscriptionsRestored SentAtMostOnce SingleSocket OpenMeansAccepted
  ConnectingHasAttempt ClosedStaysClosed ReconnectNotSkipped
SYMMETRY AttemptSymmetry
