SPECIFICATION Spec
CONSTANTS
  a = a
  b = b
  NONE = NONE
  Repos <- TwoRepos
  Names <- ShortNames
  NameOf <- SameName
  MaxVersion <- OneEach
  BatchSize = 2
  Oversized <- NothingBig
  Faults = {}
  MaxFaults = 0
INVARIANTS
  UnchangedIsBackedUp
