SPECIFICATION Spec
CONSTANTS
  a = a
  b = b
  NONE = NONE
  Repos <- TwoRepos
  Names <- ShortNames
  NameOf <- DistinctNames
  MaxVersion <- TwoEach
  BatchSize = 1
  Oversized <- BigB
  Faults = {"dbRead", "dbDelete", "gitRm", "lsRemote",
            "clone", "archive", "commit", "push", "upsert", "crash"}
  MaxFaults = 2
PROPERTIES
  KeepsLiveArchives
