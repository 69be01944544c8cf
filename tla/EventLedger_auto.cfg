SPECIFICATION Spec
CONSTANTS
  MaxWrites = 3
  MaxCrashes = 2
  MaxBulkDepth = 2
  Timestamps = {1, 2}
  FlushIntervalWrites = 2
  FlushBeforeRead = TRUE
  AutoFlush = TRUE
  WriteFaults = {"none", "timestamp", "encode"}
INVARIANTS
  TypeOK
  AckedWritesDurable
  UnflushedBounded
