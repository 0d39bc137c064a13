SPECIFICATION TabSpec
CONSTANTS
  Ids = {1, 2}
  MaxOps = 2
  MaxFaults = 1
  PageOf <- MCPageOf
  Submits = TRUE
  Retries = 1
  MaxSubmits = 2
  MaxVisits = 2
  MaxGlitches = 2
  Models = {1, 2}
  Matching = {1}
  MaxVisitsToChat = 2
  MaxLiveLogsBuffer = 2
  RecentLimit = 2
  MaxWritten = 4
  MaxFeedVisits = 2
  t1 = t1
  t2 = t2
  ToolOrders <- MCToolOrders
  InitialTool = t2
  NoTool = none
  MaxLoads = 2
  MaxExecutions = 2
  Rerankers = {r1, r2}
  NoReranker = none
  MaxSearches = 2
  MaxLogins = 2
  StatTools = {t1, t2}
  StatMatching = {t1}
  MaxUses = 1
  MaxGathers = 2
INVARIANTS TabTypeOK QuietListRight LoggedOnce SelectedOffered OneSocket FeedKeysUnique ResultIsLatest LatestSearch OneLoadShown
PROPERTIES DeletingEnds SubmittingEnds ChoiceReplaced TriesAnew PagesSettle
CHECK_DEADLOCK FALSE
