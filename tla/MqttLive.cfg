SPECIFICATION FairSpec
CONSTANTS
  Attempts = {a1, a2}
  Msgs = {m1}
  Acked = {}
  Topics = {}
  StoreLimit = 0
  MaxTimers = 2
  Reopen = FALSE
  LateLookup = FALSE
  None = None
PROPERTIES ConnectingEnds CloseReleases Reconnects CacheDrains
