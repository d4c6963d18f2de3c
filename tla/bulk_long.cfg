SPECIFICATION Spec
CONSTANTS
  N = 3
  Concurrency = 1
  Types <- PoolTypes
  MaxLinkFailures = 0
  Readers = {}
  StaleAfter = 1
  ChunkBudget = 2
  MaxDuration = 3
  MaxJobAge = 3
  MaxChunks = 4
INVARIANTS
  ChainBounded
