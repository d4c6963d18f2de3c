SPECIFICATION Spec
CONSTANTS
  N = 2
  Concurrency = 1
  Types <- PoolTypes
  MaxLinkFailures = 0
  Readers = {r1}
  StaleAfter = 1
  ChunkBudget = 2
  MaxDuration = 3
  MaxJobAge = 3
  MaxChunks = 2
INVARIANTS
  StaleMeansDead
