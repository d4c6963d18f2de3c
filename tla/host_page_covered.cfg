SPECIFICATION PageSpec
CONSTANTS
  w1 = w1  w2 = w2
  Widgets = {w1}
  Shells = {"BUBBLE", "SLIDE"}
  i1 = i1  i2 = i2  i3 = i3
  Items = {i1, i2, i3}
  Labels <- MCLabels
  Facts <- MCFacts
  Key <- MCKey
  BookOf <- MCBookOf
  Queries <- MCQueries
  Enabled <- MCEnabled
  PageSize = 1
  MaxStaffEdits = 1
INVARIANTS
  ClosedUncovers
