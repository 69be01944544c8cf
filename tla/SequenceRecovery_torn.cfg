SPECIFICATION Spec
CONSTANTS
  Ids = {5, 12}
  MaxLines = 1
  DataKinds = {"none"}
  PayloadIds = {3}
  TornPossible = TRUE
  ChunkSizes = {1}
INVARIANTS
  RecoveredIsNewestId
