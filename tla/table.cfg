SPECIFICATION FairSpec
CONSTANTS
  a = a
  b = b
  c = c
  Rows <- ThreeRows
  Lists <- TwoFilters
  MaxJobs = 2
  MaxCalls = 2
INVARIANTS
  ShownVerdictHolds
PROPERTIES
  ProgressBarEnds
