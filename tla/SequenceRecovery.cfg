SPECIFICATION Spec
CONSTANTS
  Ids = {2, 5, 9}
  MaxLines = 3
  DataKinds = {"none", "other"}
  PayloadIds = {3}
  TornPossible = TRUE
  ChunkSizes = {1, 5, 64}
INVARIANTS
  TypeOK
  ReverseMatchesForward
