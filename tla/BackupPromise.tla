--------------------------- MODULE BackupPromise ---------------------------
(***************************************************************************)
(* What the backup worker promises to whoever restores from it, with no    *)
(* word about git, SQLite, clones or batches: a repository's recorded hash *)
(* is never ahead of the archive held by the central backup repository,    *)
(* and a recorded archive is only ever replaced by one at least as new.    *)
(* BackupWorker implements this specification (see Promise there).         *)
(***************************************************************************)
EXTENDS Naturals

CONSTANT Repos          \* the repositories, by full name ("owner/name")

VARIABLES
  recorded,             \* recorded[r]: version whose hash app.db holds, 0: no row
  archived              \* archived[r]: version of r in the remote, 0: none

promiseVars == <<recorded, archived>>

PInit ==
  /\ recorded = [r \in Repos |-> 0]
  /\ archived = [r \in Repos |-> 0]

\* A push replaces any number of archives at once, each by a version at least
\* as new, and removes none that app.db vouches for.
Publish ==
  /\ archived' \in [Repos -> Nat]
  /\ \A r \in Repos : \/ archived'[r] >= archived[r]
                      \/ (archived'[r] = 0 /\ recorded[r] = 0)
  /\ UNCHANGED recorded

\* The row of r is written once the archive it vouches for is in the remote.
Record(r) ==
  /\ \E v \in 1..archived[r] :
       /\ v >= recorded[r]
       /\ recorded' = [recorded EXCEPT ![r] = v]
  /\ UNCHANGED archived

\* The row of a repository that is no longer listed is dropped.
Forget(r) ==
  /\ recorded' = [recorded EXCEPT ![r] = 0]
  /\ UNCHANGED archived

PNext == Publish \/ \E r \in Repos : Record(r) \/ Forget(r)

PSpec == PInit /\ [][PNext]_promiseVars

=============================================================================
