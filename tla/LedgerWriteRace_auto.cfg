SPECIFICATION Spec
CONSTANTS
  w1 = w1
  w2 = w2
  f1 = f1
  MaxWrites = 3
  FlushIntervalWrites = 2
  MemEnabled = TRUE
  Writers = {w1, w2}
  Housekeepers = {}
  Flushers = {f1}
  s1 = s1
  Stoppers = {s1}
  SpillPossible = FALSE
  AutoFlush = TRUE
INVARIANTS
  TypeOK
  CompletedWritesVisible
  AckedWritesDurable
