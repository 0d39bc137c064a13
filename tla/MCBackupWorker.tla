--------------------------- MODULE MCBackupWorker ---------------------------
(***************************************************************************)
(* Instances of BackupWorker for TLC.  Two repositories of two owners are  *)
(* enough for one to be pruned, broken or pushed while the other is half   *)
(* way; their short names are different or, in SameName, equal.            *)
(***************************************************************************)
EXTENDS BackupWorker

CONSTANTS a, b

TwoRepos == {a, b}

\* owner1/site and owner2/tool
DistinctNames == [r \in TwoRepos |-> IF r = a THEN "site" ELSE "tool"]

\* owner1/site and owner2/site
SameName == [r \in TwoRepos |-> "site"]

ShortNames == {"site", "tool"}

NothingBig == {}

\* HEAD of a may leave a commit and come back to it; b may come and go.
ThreeAndOne == [r \in TwoRepos |-> IF r = a THEN 3 ELSE 1]
OneEach == [r \in TwoRepos |-> 1]
TwoEach == [r \in TwoRepos |-> 2]

\* The first version of a, or the second one of b, is above the limit of a
\* GitHub blob.
BigA == {[repo |-> a, ver |-> 1]}
BigB == {[repo |-> b, ver |-> 2]}

=============================================================================
