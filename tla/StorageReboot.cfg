SPECIFICATION Spec
CONSTANTS
  Keys = {k1, k2}
  Vals = {v1}
  Absent = Absent
  Flushes = {f1}
  Handles = {h1, h2}
  Inodes = {i1, i2}
  MergeFactor = 2
  MaxUpdates = 4
  MaxCrashes = 0
  DirectFlush = FALSE
  Closes = FALSE
  SlowDisk = FALSE
  Failures = FALSE
  CrashInMerge = FALSE
  Merge = Merge
  None = None
INVARIANTS SurvivesReboot


CHECK_DEADLOCK FALSE
