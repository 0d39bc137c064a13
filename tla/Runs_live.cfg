SPECIFICATION FairSpec
CONSTANTS
  w1 = w1
  w2 = w2
  h1 = h1
  h2 = h2
  Workers <- OneWorker
  Handlers <- TwoHandlers
  Totals = {1}
  Silences = TRUE
  Faults = {"start", "progress", "complete", "log", "lastlog", "finalize", "crash"}
  MaxRuns = 2
  MaxFaults = 1
INVARIANTS
  TypeOK
  FinalizesOnlyTheDead
PROPERTIES
  FailedStaysFailed
  ProgressOnlyGrows
  EventuallyNotRunning
CHECK_DEADLOCK FALSE
