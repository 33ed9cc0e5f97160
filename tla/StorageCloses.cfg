SPECIFICATION FairSpec
CONSTANTS
  Keys = {k1}
  Vals = {v1}
  Absent = Absent
  Flushes = {f1, f2}
  Handles = {h1, h2, h3, h4}
  Inodes = {i1, i2, i3, i4}
  MergeFactor = 2
  MaxUpdates = 2
  MaxCrashes = 0
  DirectFlush = FALSE
  Closes = TRUE
  SlowDisk = TRUE
  Failures = TRUE
  CrashInMerge = FALSE
  Merge = Merge
  None = None

PROPERTIES CloseEnds

CHECK_DEADLOCK FALSE
