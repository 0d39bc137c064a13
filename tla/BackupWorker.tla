---------------------------- MODULE BackupWorker ----------------------------
(***************************************************************************)
(* One machine running the backup worker, run after run: it lists the      *)
(* repositories of GitHub, prunes the ones that are gone, compares remote  *)
(* HEAD hashes with app.db, clones and archives what changed in batches,   *)
(* commits and pushes every archive to the central backup repository, and  *)
(* records the hash last.  The world around it moves at the same time:     *)
(* owners push to, delete and create repositories between any two steps,   *)
(* every external command may fail, and the process may be killed.         *)
(*                                                                         *)
(* A version of a repository is a place in the history of its HEAD (1, 2,  *)
(* ...).  What HEAD names there is a commit, and HEAD may come back to a   *)
(* commit it has named before.  The worker sees commits only; that a row   *)
(* tells the version at which its hash was read is for the properties.     *)
(* 0 stands for "no hash".  An archive is abstracted to the repository and *)
(* the version it was made from.                                           *)
(***************************************************************************)
EXTENDS Naturals, FiniteSets, Sequences

CONSTANTS
  Repos,        \* repositories, by full name "owner/name"
  Names,        \* short names
  NameOf,       \* NameOf[r]: ExtractRepoName, the part after the "/"
  NONE,         \* no file, no directory, no tree entry
  MaxVersion,   \* bound: MaxVersion[r], HEAD moves of r
  BatchSize,    \* cloneWorkers
  Oversized,    \* the archives that are above maxGitHubBlobSize
  Faults,       \* the kinds of failure this instance explores
  MaxFaults     \* bound: failures and crashes of one behaviour

FaultKinds == {"partialListing", "dbRead", "dbDelete", "gitRm", "lsRemote",
               "clone", "archive", "commit", "push", "upsert", "crash"}

Archive == [repo : Repos, ver : Nat]
Slot == Archive \cup {NONE}

ASSUME ConstantsAssumption ==
  /\ NameOf \in [Repos -> Names]
  /\ NONE \notin Archive
  /\ MaxVersion \in [Repos -> Nat]
  /\ BatchSize \in Nat \ {0}
  /\ Oversized \subseteq Archive
  /\ Faults \subseteq FaultKinds
  /\ MaxFaults \in Nat

VARIABLES
  head,         \* head[r]: the version of r on GitHub
  commits,      \* commits[r]: what HEAD of r has named, version by version; a
                \* commit has the number of the version that named it first
  onGitHub,     \* the repositories that exist on GitHub now
  gone,         \* history: repositories that did not exist at some time after
                \* their first version
  db,           \* db[r]: latest_commit_hash in app.db, as the version at which
                \* it was read, 0: no row
  dir,          \* dir[n]: clone directory _Repos/<n>
  disk,         \* disk[n]: archive file _Repos/<n>.tar.gz
  index,        \* index[n]: staged entry for <n>.tar.gz
  local,        \* local[n]: entry in the local main branch
  remote,       \* remote[n]: entry in the central backup repository
  pc,           \* where ProcessRepos is
  stage,        \* stage[r]: how far this run is with r
  hash,         \* hash[r]: CurrentHash that ls-remote returned in this run, as
                \* the version at which it did
  faults        \* failures so far

github == <<head, commits, onGitHub, gone>>
tree == <<dir, disk>>
git == <<index, local, remote>>
control == <<pc, stage, hash>>
vars == <<github, db, tree, git, control, faults>>

Phases == {"idle", "deleting", "pruning", "prunePush", "hashing", "cloning",
           "serial"}

Stages == {"out", "doomed", "wiped", "dropped", "kept", "rmDropped", "rmKept",
           "listed", "skipped", "todo", "queued", "clean", "cloned", "archived",
           "broken", "committed", "pushed", "done", "failed", "oversized"}

\* HEAD has named one commit at each version.
CommitsOK ==
  /\ commits \in [Repos -> Seq(Nat)]
  /\ \A r \in Repos : Len(commits[r]) = head[r]

TypeOK ==
  /\ head \in [Repos -> Nat]
  /\ CommitsOK
  /\ onGitHub \in SUBSET Repos
  /\ gone \in SUBSET Repos
  /\ db \in [Repos -> Nat]
  /\ dir \in [Names -> Slot]
  /\ disk \in [Names -> Slot]
  /\ index \in [Names -> Slot]
  /\ local \in [Names -> Slot]
  /\ remote \in [Names -> Slot]
  /\ pc \in Phases
  /\ stage \in [Repos -> Stages]
  /\ hash \in [Repos -> Nat]
  /\ faults \in Nat

At(s) == {r \in Repos : stage[r] = s}
AtAny(S) == {r \in Repos : stage[r] \in S}
Move(r, s) == stage' = [stage EXCEPT ![r] = s]

\* What the process holds in memory ends with it.
ExitProcess ==
  /\ pc' = "idle"
  /\ stage' = [r \in Repos |-> "out"]
  /\ hash' = [r \in Repos |-> 0]

Fault(kind) ==
  /\ kind \in Faults
  /\ faults < MaxFaults
  /\ faults' = faults + 1

-----------------------------------------------------------------------------
(* app.db: a row holds the HEAD hash of a repository.                      *)

ReposInDB == {r \in Repos : db[r] # 0}

DeleteRepo(r) == db' = [db EXCEPT ![r] = 0]

\* Insert or update; without a hash nothing is written.
UpsertRow(r, h) == db' = IF h = 0 THEN db ELSE [db EXCEPT ![r] = h]

-----------------------------------------------------------------------------
(* GitHub: owners act at any time.                                         *)

Seen(r) == {commits[r][v] : v \in 1..head[r]}

\* HEAD moves: to a commit it has never named, or back to one it has.
HeadMoves(r, c) ==
  /\ head[r] < MaxVersion[r]
  /\ head' = [head EXCEPT ![r] = @ + 1]
  /\ commits' = [commits EXCEPT ![r] = Append(@, c)]

\* A push to the default branch, also a forced one, or a switch of the default
\* branch.
OwnerPush(r) ==
  /\ r \in onGitHub
  /\ \E c \in Seen(r) \cup {head[r] + 1} : c # commits[r][head[r]] /\ HeadMoves(r, c)
  /\ UNCHANGED <<onGitHub, gone, db, tree, git, control, faults>>

OwnerDelete(r) ==
  /\ r \in onGitHub
  /\ onGitHub' = onGitHub \ {r}
  /\ gone' = gone \cup {r}
  /\ UNCHANGED <<head, commits, db, tree, git, control, faults>>

\* A new repository, or one created again under its old name, with another
\* history or with what it had.
OwnerCreate(r) ==
  /\ r \notin onGitHub
  /\ \E c \in Seen(r) \cup {head[r] + 1} : HeadMoves(r, c)
  /\ onGitHub' = onGitHub \cup {r}
  /\ UNCHANGED <<gone, db, tree, git, control, faults>>

-----------------------------------------------------------------------------
(* RunBackupFlow and ProcessRepos, up to processDeletedRepos.              *)

\* The run begins with the list L of GetAllRepos.  An empty list ends the run
\* before it touches anything.  Rows of repositories that are not in L are the
\* ones processDeletedRepos will remove; if it cannot read them it returns.
Begin(L, rowsRead) ==
  /\ pc = "idle"
  /\ L # {}
  /\ pc' = "deleting"
  /\ stage' = [r \in Repos |-> IF r \in L THEN "listed"
                               ELSE IF rowsRead /\ r \in ReposInDB THEN "doomed"
                               ELSE "out"]
  /\ hash' = [r \in Repos |-> 0]
  /\ UNCHANGED <<github, db, tree, git>>

\* Seeded bug: the list of an interrupted listing is taken for the whole.
BeginRunTruncated ==
  \E L \in SUBSET onGitHub : Begin(L, TRUE) /\ UNCHANGED faults

BeginRun == Begin(onGitHub, TRUE) /\ UNCHANGED faults

\* "No repositories found; nothing to back up"
EmptyRun == pc = "idle" /\ onGitHub = {} /\ UNCHANGED vars

\* A page of the private listing after the first answers with an error: the
\* loop breaks and the repositories of the remaining pages are missing.
BeginPartial ==
  \E L \in SUBSET onGitHub : Begin(L, TRUE) /\ Fault("partialListing")

BeginBlind == Begin(onGitHub, FALSE) /\ Fault("dbRead")

-----------------------------------------------------------------------------
(* processDeletedRepos: one goroutine per doomed repository, then the      *)
(* serial git part.                                                        *)

WipeFiles(r) ==
  /\ disk' = [disk EXCEPT ![NameOf[r]] = NONE]
  /\ dir' = [dir EXCEPT ![NameOf[r]] = NONE]

WipeDoomed(r) ==
  /\ pc = "deleting"
  /\ stage[r] = "doomed"
  /\ WipeFiles(r)
  /\ Move(r, "wiped")
  /\ UNCHANGED <<github, db, git, pc, hash, faults>>

\* Seeded bug: the archive is removed and the row is not.
DeleteRowForgotten(r) ==
  /\ pc = "deleting"
  /\ stage[r] = "wiped"
  /\ Move(r, "dropped")
  /\ UNCHANGED <<github, db, tree, git, pc, hash, faults>>

DeleteRow(r) ==
  /\ pc = "deleting"
  /\ stage[r] = "wiped"
  /\ \/ /\ DeleteRepo(r)
        /\ Move(r, "dropped")
        /\ UNCHANGED faults
     \/ /\ Fault("dbDelete")
        /\ Move(r, "kept")
        /\ UNCHANGED db
  /\ UNCHANGED <<github, tree, git, pc, hash>>

\* wg.Wait(); with nothing to delete the function has returned long before
\* the git part.
EndDeleting ==
  /\ pc = "deleting"
  /\ AtAny({"doomed", "wiped"}) = {}
  /\ pc' = IF AtAny({"dropped", "kept"}) = {} THEN "hashing" ELSE "pruning"
  /\ UNCHANGED <<github, db, tree, git, stage, hash, faults>>

\* git rm -f, for every doomed repository, whether or not its row went away;
\* an archive that git does not track is left alone, and a failure goes
\* unnoticed ("|| true").
GitRemove(r) ==
  /\ pc = "pruning"
  /\ stage[r] \in {"dropped", "kept"}
  /\ Move(r, IF stage[r] = "dropped" THEN "rmDropped" ELSE "rmKept")
  /\ \/ /\ index' = [index EXCEPT ![NameOf[r]] = NONE]
        /\ disk' = IF index[NameOf[r]] = NONE THEN disk
                   ELSE [disk EXCEPT ![NameOf[r]] = NONE]
        /\ UNCHANGED faults
     \/ UNCHANGED <<index, disk>> /\ Fault("gitRm")
  /\ UNCHANGED <<github, db, dir, local, remote, pc, hash>>

\* One commit for all removals; a failure is logged and ignored.  The push
\* happens only if at least one row was deleted.
CommitRemovals ==
  /\ pc = "pruning"
  /\ AtAny({"dropped", "kept"}) = {}
  /\ pc' = IF At("rmDropped") = {} THEN "hashing" ELSE "prunePush"
  /\ \/ local' = index /\ UNCHANGED faults
     \/ UNCHANGED local /\ Fault("commit")
  /\ UNCHANGED <<github, db, tree, index, remote, stage, hash>>

\* git push origin main publishes whatever the local branch holds.  A failure
\* may be reported after the remote has already accepted the push.
PushMain == remote' = local /\ UNCHANGED faults
PushMainFails == remote' \in {remote, local} /\ Fault("push")

PushRemovals ==
  /\ pc = "prunePush"
  /\ PushMain \/ PushMainFails
  /\ pc' = "hashing"
  /\ UNCHANGED <<github, db, tree, index, local, stage, hash>>

-----------------------------------------------------------------------------
(* parallelHashCheck.                                                      *)

\* git ls-remote <url> HEAD
RemoteHeadHash(r) == head[r]

\* At both versions HEAD names the same commit.
SameCommit(r, v, w) == commits[r][v] = commits[r][w]

\* The row is there and holds the hash that HEAD has now, which says nothing of
\* what HEAD named in between.
Unchanged(r) == r \in ReposInDB /\ SameCommit(r, db[r], RemoteHeadHash(r))

\* Seeded bug: "no hash" is not a hash.
HashUnknownNil(r) ==
  /\ pc = "hashing"
  /\ stage[r] = "listed"
  /\ r \notin onGitHub
  /\ hash' = [hash EXCEPT ![r] = NONE]
  /\ Move(r, "todo")
  /\ UNCHANGED <<github, db, tree, git, pc, faults>>

\* ls-remote fails: no hash, the repository is cloned anyway.  It also fails
\* when the repository is no longer there.
HashUnknown(r) ==
  /\ pc = "hashing"
  /\ stage[r] = "listed"
  /\ \/ r \notin onGitHub /\ UNCHANGED faults
     \/ Fault("lsRemote")
  /\ Move(r, "todo")
  /\ UNCHANGED <<github, db, tree, git, pc, hash>>

\* Seeded bug: the hash is recorded as soon as it is known.
HashKnownEager(r) ==
  /\ pc = "hashing"
  /\ stage[r] = "listed"
  /\ r \in onGitHub
  /\ hash' = [hash EXCEPT ![r] = RemoteHeadHash(r)]
  /\ UpsertRow(r, RemoteHeadHash(r))
  /\ Move(r, IF Unchanged(r) THEN "skipped" ELSE "todo")
  /\ UNCHANGED <<github, tree, git, pc, faults>>

HashKnown(r) ==
  /\ pc = "hashing"
  /\ stage[r] = "listed"
  /\ r \in onGitHub
  /\ hash' = [hash EXCEPT ![r] = RemoteHeadHash(r)]
  /\ \/ Move(r, IF Unchanged(r) THEN "skipped" ELSE "todo") /\ UNCHANGED faults
     \/ Move(r, "todo") /\ Fault("dbRead")
  /\ UNCHANGED <<github, db, tree, git, pc>>

-----------------------------------------------------------------------------
(* Batches of parallelCloneAndArchive.                                     *)

\* The next batch starts once every repository is hash-checked and the batch
\* before is through its serial part; with nothing left the run is over.
NextBatch ==
  /\ \/ pc = "hashing" /\ At("listed") = {}
     \/ pc = "serial" /\ AtAny({"archived", "broken", "committed", "pushed"}) = {}
  /\ \/ /\ At("todo") = {}
        /\ ExitProcess
     \/ \E B \in SUBSET At("todo") :
          /\ B # {}
          /\ \/ Cardinality(B) = BatchSize
             \/ Cardinality(B) < BatchSize /\ B = At("todo")
          /\ pc' = "cloning"
          /\ stage' = [r \in Repos |-> IF r \in B THEN "queued" ELSE stage[r]]
          /\ UNCHANGED hash
  /\ UNCHANGED <<github, db, tree, git, faults>>

CleanupExistingRepo(r) ==
  /\ pc = "cloning"
  /\ stage[r] = "queued"
  /\ WipeFiles(r)
  /\ Move(r, "clean")
  /\ UNCHANGED <<github, db, git, pc, hash, faults>>

\* The clone takes HEAD as it is now, which may be newer than the hash read in
\* phase 1.  git refuses to clone into a directory that exists.
CloneRepo(r) ==
  /\ pc = "cloning"
  /\ stage[r] = "clean"
  /\ \/ /\ r \in onGitHub
        /\ dir[NameOf[r]] = NONE
        /\ dir' = [dir EXCEPT ![NameOf[r]] = [repo |-> r, ver |-> head[r]]]
        /\ Move(r, "cloned")
        /\ UNCHANGED faults
     \/ /\ r \notin onGitHub \/ dir[NameOf[r]] # NONE
        /\ Move(r, "broken")
        /\ UNCHANGED <<dir, faults>>
     \/ Fault("clone") /\ Move(r, "broken") /\ UNCHANGED dir
  /\ UNCHANGED <<github, db, disk, git, pc, hash>>

\* tar -czf <n>.tar.gz <n> && rm -rf <n>: either command may be the one that
\* fails.
ArchiveRepo(r) ==
  /\ pc = "cloning"
  /\ stage[r] = "cloned"
  /\ \/ /\ dir[NameOf[r]] # NONE
        /\ disk' = [disk EXCEPT ![NameOf[r]] = dir[NameOf[r]]]
        /\ dir' = [dir EXCEPT ![NameOf[r]] = NONE]
        /\ Move(r, "archived")
        /\ UNCHANGED faults
     \/ /\ dir[NameOf[r]] = NONE
        /\ Move(r, "broken")
        /\ UNCHANGED <<tree, faults>>
     \/ /\ Fault("archive")
        /\ disk' \in {disk, [disk EXCEPT ![NameOf[r]] = dir[NameOf[r]]]}
        /\ Move(r, "broken")
        /\ UNCHANGED dir
  /\ UNCHANGED <<github, db, git, pc, hash>>

EndCloning ==
  /\ pc = "cloning"
  /\ AtAny({"queued", "clean", "cloned"}) = {}
  /\ pc' = "serial"
  /\ UNCHANGED <<github, db, tree, git, stage, hash, faults>>

-----------------------------------------------------------------------------
(* The serial part of a batch: one repository after the other.             *)

\* r is the repository the loop looks at next: no other one is half way.
Turn(r) == pc = "serial" /\ AtAny({"committed", "pushed"}) \subseteq {r}

\* A failed clone, a missing archive and an oversized one end the repository's
\* turn before anything is staged.
Drop(r) ==
  /\ Turn(r)
  /\ \/ stage[r] = "broken" /\ Move(r, "failed")
     \/ stage[r] = "archived" /\ disk[NameOf[r]] = NONE /\ Move(r, "failed")
     \/ /\ stage[r] = "archived"
        /\ disk[NameOf[r]] # NONE
        /\ disk[NameOf[r]] \in Oversized
        /\ Move(r, "oversized")
  /\ UNCHANGED <<github, db, tree, git, pc, hash, faults>>

\* git add <n>.tar.gz, and a commit of everything that is staged.
StageAndCommitRepo(r) ==
  /\ Turn(r)
  /\ stage[r] = "archived"
  /\ disk[NameOf[r]] # NONE
  /\ disk[NameOf[r]] \notin Oversized
  /\ LET staged == [index EXCEPT ![NameOf[r]] = disk[NameOf[r]]] IN
       \/ /\ index' = staged
          /\ local' = staged
          /\ Move(r, "committed")
          /\ UNCHANGED faults
       \/ /\ Fault("commit")
          /\ index' \in {index, staged}
          /\ Move(r, "failed")
          /\ UNCHANGED local
  /\ UNCHANGED <<github, db, tree, remote, pc, hash>>

\* Seeded bug: the error of git push is logged and the loop goes on.
PushBackupRepoUnchecked(r) ==
  /\ Turn(r)
  /\ stage[r] = "committed"
  /\ PushMain \/ PushMainFails
  /\ Move(r, "pushed")
  /\ UNCHANGED <<github, db, tree, index, local, pc, hash>>

PushBackupRepo(r) ==
  /\ Turn(r)
  /\ stage[r] = "committed"
  /\ \/ PushMain /\ Move(r, "pushed")
     \/ PushMainFails /\ Move(r, "failed")
  /\ UNCHANGED <<github, db, tree, index, local, pc, hash>>

\* The hash of phase 1 is recorded; the repository counts as backed up even if
\* there is no hash or the write fails.
UpsertRepo(r) ==
  /\ Turn(r)
  /\ stage[r] = "pushed"
  /\ Move(r, "done")
  /\ \/ UpsertRow(r, hash[r]) /\ UNCHANGED faults
     \/ UNCHANGED db /\ hash[r] # 0 /\ Fault("upsert")
  /\ UNCHANGED <<github, tree, git, pc, hash>>

-----------------------------------------------------------------------------
\* The process is killed: what it held in memory is gone, files and
\* repositories stay as they are.
Crash ==
  /\ pc # "idle"
  /\ Fault("crash")
  /\ ExitProcess
  /\ UNCHANGED <<github, db, tree, git>>

Init ==
  /\ head = [r \in Repos |-> 0]
  /\ commits = [r \in Repos |-> <<>>]
  /\ onGitHub = {}
  /\ gone = {}
  /\ db = [r \in Repos |-> 0]
  /\ dir = [n \in Names |-> NONE]
  /\ disk = [n \in Names |-> NONE]
  /\ index = [n \in Names |-> NONE]
  /\ local = [n \in Names |-> NONE]
  /\ remote = [n \in Names |-> NONE]
  /\ pc = "idle"
  /\ stage = [r \in Repos |-> "out"]
  /\ hash = [r \in Repos |-> 0]
  /\ faults = 0

GitHubStep == \E r \in Repos : OwnerPush(r) \/ OwnerDelete(r) \/ OwnerCreate(r)

DeletionStep ==
  \/ \E r \in Repos : WipeDoomed(r) \/ DeleteRow(r) \/ GitRemove(r)
  \/ EndDeleting \/ CommitRemovals \/ PushRemovals

BackupStep ==
  \/ \E r \in Repos : HashUnknown(r) \/ HashKnown(r)
  \/ \E r \in Repos : CleanupExistingRepo(r) \/ CloneRepo(r) \/ ArchiveRepo(r)
  \/ NextBatch \/ EndCloning
  \/ \E r \in Repos : \/ Drop(r) \/ StageAndCommitRepo(r)
                      \/ PushBackupRepo(r) \/ UpsertRepo(r)

RunStep == DeletionStep \/ BackupStep

Next == \/ GitHubStep
        \/ BeginRun \/ EmptyRun \/ BeginPartial \/ BeginBlind
        \/ RunStep
        \/ Crash

Spec == Init /\ [][Next]_vars

\* A started run goes on, and the next one is started again and again by the
\* machine's scheduler; owners may do nothing for ever.
FairSpec == Spec /\ WF_vars(RunStep) /\ WF_vars(BeginRun)

-----------------------------------------------------------------------------
(* What the remote holds of a repository.                                  *)

Version(slot, r) ==
  IF slot # NONE /\ slot.repo = r THEN slot.ver ELSE 0

ArchivedVersion(r) == Version(remote[NameOf[r]], r)

\* No two repositories share a short name.
DistinctShortNames == \A r, q \in Repos : NameOf[r] = NameOf[q] => r = q

-----------------------------------------------------------------------------
(* Properties.                                                             *)

\* The hash in app.db is what lets every later run skip a repository
\* (parallelHashCheck), so it must never run ahead of the archive that the
\* central repository really holds: whatever fails, whatever is killed and
\* whatever owners do in between, a recorded version is in the remote.
RecordedIsBackedUp == \A r \in Repos : db[r] <= ArchivedVersion(r)

\* The same promise as a specification of its own: pushes never replace a
\* recorded archive by an older one or by none, and rows follow archives.
Promise == INSTANCE BackupPromise
             WITH recorded <- db,
                  archived <- [r \in Repos |-> ArchivedVersion(r)]

KeepsItsPromise == Promise!PSpec

\* processDeletedRepos removes archives; one that belongs to a repository which
\* was on GitHub all the time must survive every push, also the pushes that
\* carry commits left behind by earlier failures and crashes.
KeepsLiveArchives ==
  [][\A r \in Repos \ gone : ArchivedVersion(r) # 0 => ArchivedVersion(r)' # 0]_vars

\* A repository that a run skips as unchanged has its current archive in the
\* central repository ("if same latest hash, don't clone nothing changed").
UnchangedIsBackedUp ==
  \A r \in At("skipped") : ArchivedVersion(r) # 0

\* Once owners and failures leave the system alone, every repository whose
\* archive fits has the commit that HEAD names recorded, and that commit is
\* archived - unless HEAD left it for another commit, which is the archived one,
\* and came back: the hash is the recorded one again, and no later run clones
\* (parallelHashCheck).
EventuallyBackedUp ==
  <>[](\A r \in onGitHub :
         \/ [repo |-> r, ver |-> head[r]] \in Oversized
         \/ LET v == ArchivedVersion(r) IN
              /\ db[r] # 0 /\ SameCommit(r, db[r], head[r])
              /\ \/ v # 0 /\ SameCommit(r, v, head[r])
                 \/ db[r] < v /\ v < head[r])

-----------------------------------------------------------------------------
(* Why it holds: an inductive strengthening of RecordedIsBackedUp, for     *)
(* distinct short names and rows that can be deleted.                      *)

Ver(f, r) == Version(f[NameOf[r]], r)

\* Replacing what g holds of r by what f holds never takes a recorded archive
\* away and never makes one older.
MayReplace(f, g, r) == \/ Ver(f, r) >= Ver(g, r)
                       \/ Ver(f, r) = 0 /\ db[r] = 0

\* f holds a copy of r that is newer than everything committed so far and
\* includes the hash of this run.
Fresh(f, r) ==
  /\ Ver(f, r) >= hash[r]
  /\ Ver(f, r) >= Ver(index, r)
  /\ Ver(f, r) >= Ver(local, r)
  /\ Ver(f, r) >= Ver(remote, r)

\* Nothing is newer than HEAD: not the rows, not the hashes, not the files.
BoundedByHead(r) ==
  /\ db[r] <= head[r]
  /\ hash[r] <= head[r]
  /\ Ver(dir, r) <= head[r] /\ Ver(disk, r) <= head[r]
  /\ Ver(index, r) <= head[r] /\ Ver(local, r) <= head[r]
  /\ Ver(remote, r) <= head[r]

\* The remote vouches for the row, and so does every tree that a later push
\* may publish.
TreesInOrder(r) ==
  /\ db[r] <= Ver(remote, r)
  /\ MayReplace(local, remote, r)
  /\ MayReplace(index, local, r)
  /\ MayReplace(index, remote, r)

\* What the stage of r says of its copies.
StageInOrder(r) ==
  /\ hash[r] = 0 \/ db[r] <= hash[r]
  /\ stage[r] # "kept"
  /\ stage[r] = "dropped" => db[r] = 0
  /\ stage[r] = "cloned" => Fresh(dir, r)
  /\ stage[r] = "archived" => Fresh(disk, r)
  /\ stage[r] \in {"committed", "pushed"} =>
       /\ Fresh(local, r)
       /\ Ver(index, r) = Ver(local, r)
  /\ stage[r] = "pushed" => Ver(remote, r) = Ver(local, r)

RepoInv(r) == BoundedByHead(r) /\ TreesInOrder(r) /\ StageInOrder(r)

BackupInv == \A r \in Repos : RepoInv(r)

=============================================================================
