SPECIFICATION Spec
CONSTANTS
  a = a
  b = b
  NONE = NONE
  Repos <- TwoRepos
  Names <- ShortNames
  NameOf <- DistinctNames
  MaxVersion <- OneEach
  BatchSize = 2
  Oversized <- NothingBig
  Faults = {"partialListing"}
  MaxFaults = 1
PROPERTIES
  KeepsLiveArchives
