SPECIFICATION Spec
CONSTANTS
  w1 = w1
  w2 = w2
  c1 = c1
  c2 = c2
  Writers <- TwoWriters
  Clients <- OneClient
  PageSize = 2
  Old = 0
  LateCommits = TRUE
  Faults = {}
  MaxLogs = 2
  MaxConnects = 1
  MaxFaults = 0
INVARIANTS
  NothingSkipped
CHECK_DEADLOCK FALSE
