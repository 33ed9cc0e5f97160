SPECIFICATION Spec
CONSTANTS
  Attempts = {a1, a2}
  Msgs = {}
  Acked = {}
  Topics = {}
  StoreLimit = 0
  MaxTimers = 2
  Reopen = FALSE
  LateLookup = FALSE
  None = None
PROPERTIES FailureIsOwn
