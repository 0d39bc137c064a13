SPECIFICATION FairSpec
CONSTANTS
  w1 = w1
  w2 = w2
  c1 = c1
  c2 = c2
  Writers <- TwoWriters
  Clients <- OneClient
  PageSize = 2
  Old = 1
  LateCommits = FALSE
  Faults = {"init", "query", "rows", "insert"}
  MaxLogs = 5
  MaxConnects = 3
  MaxFaults = 2
INVARIANTS
  TypeOK
  InOrder
  NothingSkipped
PROPERTIES
  EventuallyDelivered
CHECK_DEADLOCK FALSE
