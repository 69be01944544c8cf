SPECIFICATION Spec
CONSTANTS
  MaxWrites = 3
  MaxCrashes = 1
  MaxBulkDepth = 2
  Timestamps = {1, 2}
  FlushIntervalWrites = 2
  FlushBeforeRead = TRUE
  AutoFlush = FALSE
  WriteFaults = {"none"}
INVARIANTS
  AckedIdsNeverReused
