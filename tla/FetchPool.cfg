SPECIFICATION FairSpec
CONSTANTS
  Fetches = {f1, f2}
  Conns = {c1, c2}
  LateLookup = FALSE
  EarlyReply = TRUE
  None = None
INVARIANTS OwnResponse NoLostSocket ReaderServed
PROPERTIES KeepsFetches FetchEnds BodyEnds PoolDrains
CHECK_DEADLOCK FALSE
