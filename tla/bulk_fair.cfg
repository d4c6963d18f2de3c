SPECIFICATION FairSpec
CONSTANTS
  N = 3
  Concurrency = 2
  Types <- CountTypes
  MaxLinkFailures = 0
  Readers = {r1}
  StaleAfter = 1
  ChunkBudget = 2
  MaxDuration = 3
  MaxJobAge = 3
  MaxChunks = 3
INVARIANTS
  CompletedMeansWorked
PROPERTIES
  ImplementsContract
  EventuallySettles
