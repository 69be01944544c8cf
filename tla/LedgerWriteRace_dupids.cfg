SPECIFICATION Spec
CONSTANTS
  w1 = w1
  w2 = w2
  f1 = f1
  MaxWrites = 3
  FlushIntervalWrites = 2
  MemEnabled = TRUE
  Writers = {w1, w2}
  Housekeepers = {}
  Flushers = {}
  Stoppers = {}
  SpillPossible = FALSE
  AutoFlush = TRUE
INVARIANTS
  FileIdsUnique
