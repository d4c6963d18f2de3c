SPECIFICATION Spec
CONSTANTS
  p1 = p1  p2 = p2  p3 = p3  o1 = o1  o2 = o2  r1 = r1  a1 = a1  s1 = s1  s2 = s2
  c1 = c1  c2 = c2  w1 = w1  w2 = w2  v1 = v1  v2 = v2  v3 = v3
  People = {p1, p2, p3}
  Founder = p1
  Calls = {s1, s2}
  MaxTeamMembers = 2
  Organizations = {o1, o2}
  Periods = {1, 2}
  Keys = {"hour", "day"}
  Limit <- MCLimit
  WindowOf <- MCWindow
  SweepInterval = 1
  MaxTime = 5
  MaxRows = 3
  Staff = {s1, s2}
  MaxCreated = 3
  Requests = {r1}
  Addresses = {a1}
  Marks = {"answered"}
  MaxPrayers = 1
  MaxReplies = 1
  MaxWebsites = 1
  MaxWidgets = 1
  MaxMishaps = 3
  Editors = {s1, s2}
  Links = {"notes"}
  PageTexts = {"page"}
  PastedTexts = {"pasted"}
  MaxDocuments = 3
  Browsers = {s1, s2}
  Passwords = {"old", "new"}
  MaxLinks = 2
  MaxSessions = 1
  NoteTexts = {"note"}
  MaxCalls = 2
  Conversations = {c1, c2}
  CampusOf <- MCCampusOf
  Questions = {"why"}
  Recommendable = {"series"}
  TopicsOf <- MCTopicsOf
  WindowDays = 1
  RecentLimit = 2
  GapLimit = 1
  LastDay = 1
  MaxMessages = 4
  MaxMeanwhile = 2
  ChatWidgets = {w1, w2}
  Previews = {"hello"}
  LogPageSize = 1
  MaxConversations = 3
  MaxTurns = 4
  NewestFirst <- MCNewestFirst
  TypeOf <- MCTypeOf
  Matching = {v1}
  TypeTabs = {"VIDEOS"}
  PageSizes = {1, 2}
  DefaultSize = 2
  JumpAfter = 1
  MaxChanges = 2
  SourceRows = {"source", "again"}
  LinkRows = {"first", "second"}
  MaxOrgLinks = 1
  MaxAsked = 2
  Tagged = {v1, v2}
  Alphabetical <- MCAlphabetical
  KeyOf <- MCKeyOf
  MaxTypes = 2
  Typed <- MCTyped
  Elsewhere <- MCElsewhere
INVARIANTS
  AnOwnerRemains
  EachThresholdOnce
  LimitHolds
  CrisisHeld
  ChoicesKept
  ReadIsChosen
  AnalysisReadsShown
  OneLiveLink
  SwitchIsTrue
  PairedRightly
  PagingMeetsAll
  ListedAsChosen
PROPERTIES
  ArrangedAsAsked
  WizardGoesOn
CHECK_DEADLOCK FALSE
