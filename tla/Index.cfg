SPECIFICATION Spec
CONSTANTS
  Models = {small, large}
  Items = {1, 2}
  Sizes = {1, 2}
  Default = 2
  MaxAttempts = 2
  MaxGens = 2
  MaxCalls = 2
  Records <- Past
  MaxEvents = 3
CHECK_DEADLOCK FALSE
INVARIANTS TypeOK OneHolder NeverOverstated
PROPERTIES ActivatesOnlyBuilt AutoEnds PageCatchesUp
