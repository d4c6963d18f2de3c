SPECIFICATION Spec
CONSTANTS
  p1 = p1
  p2 = p2
  Plans <- MCPlans
  Live = {"active", "paused"}
  MaxSubs = 2
  MaxChanges = 2
  MaxRough = 1
  MaxHooks = 2
CHECK_DEADLOCK FALSE
INVARIANTS
  OneOrganization
  OnlyBoughtPlans
PROPERTIES
  EventuallyReady
  EventuallyInSync
