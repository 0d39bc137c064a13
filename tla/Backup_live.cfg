SPECIFICATION FairSpec
CONSTANTS
  a = a
  b = b
  NONE = NONE
  Repos <- TwoRepos
  Names <- ShortNames
  NameOf <- DistinctNames
  MaxVersion <- ThreeAndOne
  BatchSize = 2
  Oversized <- BigA
  Faults = {"partialListing", "dbRead", "gitRm", "lsRemote",
            "clone", "archive", "commit", "push", "upsert", "crash"}
  MaxFaults = 1
INVARIANTS
  TypeOK
  RecordedIsBackedUp
PROPERTIES
  KeepsItsPromise
  EventuallyBackedUp
