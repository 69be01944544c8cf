SPECIFICATION FairSpec
CONSTANTS
  w1 = w1
  h1 = h1
  MaxWrites = 2
  FlushIntervalWrites = 3
  MemEnabled = FALSE
  Writers = {w1}
  Housekeepers = {h1}
  Flushers = {}
  Stoppers = {}
  SpillPossible = FALSE
  AutoFlush = FALSE
PROPERTY
  AckedEventuallyDurable
