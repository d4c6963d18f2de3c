SPECIFICATION Spec
CONSTANTS
  N = 3
  Concurrency = 2
  Types <- AllTypes
  MaxLinkFailures = 1
  Readers = {r1}
  StaleAfter = 1
  ChunkBudget = 2
  MaxDuration = 3
  MaxJobAge = 3
  MaxChunks = 3
INVARIANTS
  OneInvocationRuns
PROPERTIES
  CompletedCountsAll
