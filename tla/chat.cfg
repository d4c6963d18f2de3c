SPECIFICATION Spec
CONSTANTS
  r1 = r1  r2 = r2  r3 = r3
  Tabs = {t1}
  Resources = {r1, r2, r3}
  Elsewhere <- MCElsewhere
  Priority <- MCPriority
  Questions <- MCQuestions
  RetrievalLimit = 2
  MaxRecommendations = 1
  MaxTranscript = 2
  MaxRequests = 2
  MaxForwards = 1
  MaxEdits = 1
CHECK_DEADLOCK FALSE
INVARIANTS
  OnlyApprovedShown
  NothingFoundIsTrue
  AnswerUnderItsQuestion
  ForwardCarriesQuestion
PROPERTIES
  EveryQuestionAnswered
