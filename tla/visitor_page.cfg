SPECIFICATION PageSpec
CONSTANTS
  w1 = w1  w2 = w2
  Widgets = {w1, w2}
  Shells = {"BUBBLE", "GREETER", "SLIDE", "TAB", "INLINE", "DOCK", "PALETTE", "SHEET", "RIBBON", "LINK"}
  i1 = i1  i2 = i2  i3 = i3
  Items = {i1, i2, i3}
  Labels <- MCLabels
  Facts <- MCFacts
  Key <- MCKey
  BookOf <- MCBookOf
  Queries <- MCQueries
  Enabled <- MCEnabled
  PageSize = 1
  MaxStaffEdits = 2
INVARIANTS
  ScrollComesBack
  OptionsReflectReach
PROPERTIES
  EventuallyCurrent
