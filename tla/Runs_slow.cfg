SPECIFICATION Spec
CONSTANTS
  w1 = w1
  w2 = w2
  h1 = h1
  h2 = h2
  Workers <- OneWorker
  Handlers <- OneHandler
  Totals = {2}
  Silences = TRUE
  Faults = {}
  MaxRuns = 1
  MaxFaults = 0
INVARIANTS
  LiveRunsAreRunning
CHECK_DEADLOCK FALSE
