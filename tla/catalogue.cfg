SPECIFICATION Spec
CONSTANTS
  i1 = i1  i2 = i2  i3 = i3
  q1 = q1  q2 = q2
  Items = {i1, i2}
  Guided = {i1, i2}
  Requests = {q1, q2}
  Cron = cron
  Cap = 1
  MaxTasks = 2
  MaxEdits = 1
  MaxFaults = 1
CHECK_DEADLOCK FALSE
INVARIANTS
  CapHolds
  CompletedMeansImported
PROPERTIES
  EventuallyImported
