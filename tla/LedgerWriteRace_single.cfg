SPECIFICATION FairSpec
CONSTANTS
  w1 = w1
  w2 = w2
  f1 = f1
  MaxWrites = 4
  FlushIntervalWrites = 3
  MemEnabled = TRUE
  Writers = {w1, w2}
  h1 = h1
  Housekeepers = {h1}
  Flushers = {}
  AutoFlush = FALSE
  s1 = s1
  Stoppers = {s1}
  SpillPossible = TRUE
INVARIANTS
  StopKeepsAckedWrites
