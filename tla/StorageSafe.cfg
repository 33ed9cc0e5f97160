SPECIFICATION FairSpec
CONSTANTS
  Keys = {k1, k2}
  Vals = {v1, v2}
  Absent = Absent
  Flushes = {f1}
  Handles = {h1, h2}
  Inodes = {i1, i2}
  MergeFactor = 2
  MaxUpdates = 4
  MaxCrashes = 1
  DirectFlush = FALSE
  Closes = FALSE
  SlowDisk = FALSE
  Failures = FALSE
  CrashInMerge = FALSE
  Merge = Merge
  None = None
INVARIANTS IdleIsDurable
PROPERTIES WritesBehind 
CHECK_DEADLOCK FALSE
