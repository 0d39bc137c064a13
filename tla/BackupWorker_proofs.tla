------------------------ MODULE BackupWorker_proofs ------------------------
(***************************************************************************)
(* Type correctness of BackupWorker, and, when short names are distinct    *)
(* and rows can be deleted, that no recorded hash runs ahead of the remote *)
(* archive and that BackupWorker implements BackupPromise; and, when short *)
(* names are distinct and listings are complete, that no push takes away   *)
(* the archive of a live repository - for any number of repositories,      *)
(* versions, failures and crashes.                                         *)
(***************************************************************************)
EXTENDS BackupWorker, SequenceTheorems, TLAPS

USE ConstantsAssumption

-----------------------------------------------------------------------------
(* Type correctness.                                                       *)

\* An owner's step that moves HEAD adds one version, whatever commit it names.
LEMMA HeadMovesOn ==
  ASSUME TypeOK, NEW r \in Repos, NEW c \in Seen(r) \cup {head[r] + 1},
         HeadMoves(r, c)
  PROVE  /\ head' = [head EXCEPT ![r] = @ + 1]
         /\ CommitsOK'
<1>1. head \in [Repos -> Nat] /\ commits \in [Repos -> Seq(Nat)]
      /\ \A q \in Repos : Len(commits[q]) = head[q]
  BY DEF TypeOK, CommitsOK
<1>2. ASSUME NEW v \in 1..head[r] PROVE commits[r][v] \in Nat
  <2>1. commits[r] \in Seq(Nat) /\ v \in 1..Len(commits[r])
    BY <1>1
  <2>2. QED
    BY <2>1, ElementOfSeq
<1>3. c \in Nat
  BY <1>1, <1>2 DEF Seen
<1>4. /\ head' = [head EXCEPT ![r] = @ + 1]
      /\ commits' = [commits EXCEPT ![r] = Append(@, c)]
  BY DEF HeadMoves
<1>5. Append(commits[r], c) \in Seq(Nat) /\ Len(Append(commits[r], c)) = head[r] + 1
  BY <1>1, <1>3, AppendProperties
<1>6. ASSUME NEW q \in Repos
      PROVE  commits'[q] \in Seq(Nat) /\ Len(commits'[q]) = head'[q]
  <2>1. CASE q = r
    BY <1>1, <1>4, <1>5, <2>1
  <2>2. CASE q # r
    BY <1>1, <1>4, <2>2
  <2>3. QED
    BY <2>1, <2>2
<1>7. commits' = [q \in Repos |-> commits'[q]]
  BY <1>1, <1>4
<1>8. QED
  BY <1>4, <1>6, <1>7 DEF CommitsOK

LEMMA PushMovesHead ==
  ASSUME TypeOK, NEW r \in Repos, OwnerPush(r)
  PROVE  head' = [head EXCEPT ![r] = @ + 1] /\ CommitsOK'
<1>1. PICK c \in Seen(r) \cup {head[r] + 1} : HeadMoves(r, c)
  BY DEF OwnerPush
<1>2. QED
  BY <1>1, HeadMovesOn

LEMMA CreateMovesHead ==
  ASSUME TypeOK, NEW r \in Repos, OwnerCreate(r)
  PROVE  head' = [head EXCEPT ![r] = @ + 1] /\ CommitsOK'
<1>1. PICK c \in Seen(r) \cup {head[r] + 1} : HeadMoves(r, c)
  BY DEF OwnerCreate
<1>2. QED
  BY <1>1, HeadMovesOn

\* The stages a run can be in, and the place names, are constants: what is
\* left of TypeOK is preserved action by action.
LEMMA TypeStep == TypeOK /\ [Next]_vars => TypeOK'
<1> SUFFICES ASSUME TypeOK, [Next]_vars PROVE TypeOK'
  OBVIOUS
<1> USE DEF TypeOK, github, tree, git, control, Move, ExitProcess, Fault,
        Phases, Stages, Slot, Archive, WipeFiles
<1>0. UNCHANGED <<head, commits>> => CommitsOK'
  BY DEF CommitsOK
<1> USE <1>0
<1>1. CASE UNCHANGED vars
  BY <1>1 DEF vars
<1>2. CASE GitHubStep
  <2>1. ASSUME NEW r \in Repos, OwnerPush(r) PROVE TypeOK'
    BY <2>1, PushMovesHead DEF OwnerPush
  <2>2. ASSUME NEW r \in Repos, OwnerDelete(r) PROVE TypeOK'
    BY <2>2 DEF OwnerDelete
  <2>3. ASSUME NEW r \in Repos, OwnerCreate(r) PROVE TypeOK'
    BY <2>3, CreateMovesHead DEF OwnerCreate
  <2>4. QED
    BY <1>2, <2>1, <2>2, <2>3 DEF GitHubStep
<1>3. CASE BeginRun \/ EmptyRun \/ BeginPartial \/ BeginBlind
  BY <1>3 DEF BeginRun, EmptyRun, BeginPartial, BeginBlind, Begin, vars
<1>4. CASE DeletionStep
  <2>1. ASSUME NEW r \in Repos, WipeDoomed(r) PROVE TypeOK'
    BY <2>1 DEF WipeDoomed
  <2>2. ASSUME NEW r \in Repos, DeleteRow(r) PROVE TypeOK'
    <3>1. /\ db' \in {db, [db EXCEPT ![r] = 0]}
          /\ stage' \in {[stage EXCEPT ![r] = "dropped"],
                        [stage EXCEPT ![r] = "kept"]}
          /\ faults' \in {faults, faults + 1}
          /\ UNCHANGED <<github, tree, git, pc, hash>>
      BY <2>2 DEF DeleteRow, DeleteRepo
    <3>2. db' \in [Repos -> Nat]
      BY <3>1
    <3>3. stage' \in [Repos -> Stages] /\ faults' \in Nat
      BY <3>1
    <3>4. QED
      BY <3>1, <3>2, <3>3
  <2>3. ASSUME NEW r \in Repos, GitRemove(r) PROVE TypeOK'
    <3> DEFINE untracked == [index EXCEPT ![NameOf[r]] = NONE]
    <3> DEFINE removed == [disk EXCEPT ![NameOf[r]] = NONE]
    <3>1. untracked \in [Names -> Slot] /\ removed \in [Names -> Slot]
      OBVIOUS
    <3>2. /\ index' \in {index, untracked} /\ disk' \in {disk, removed}
          /\ stage' \in {[stage EXCEPT ![r] = "rmDropped"],
                        [stage EXCEPT ![r] = "rmKept"]}
          /\ faults' \in {faults, faults + 1}
          /\ UNCHANGED <<github, db, dir, local, remote, pc, hash>>
      BY <2>3 DEF GitRemove
    <3> HIDE DEF untracked, removed
    <3>3. index' \in [Names -> Slot] /\ disk' \in [Names -> Slot]
      BY <3>1, <3>2
    <3>4. stage' \in [Repos -> Stages] /\ faults' \in Nat
      BY <3>2
    <3>5. QED
      BY <3>2, <3>3, <3>4
  <2>4. CASE EndDeleting
    BY <2>4 DEF EndDeleting
  <2>5. CASE CommitRemovals
    BY <2>5 DEF CommitRemovals
  <2>6. CASE PushRemovals
    BY <2>6 DEF PushRemovals, PushMain, PushMainFails
  <2>7. QED
    BY <1>4, <2>1, <2>2, <2>3, <2>4, <2>5, <2>6 DEF DeletionStep
<1>5. CASE BackupStep
  <2>1. ASSUME NEW r \in Repos, HashUnknown(r) \/ HashKnown(r) PROVE TypeOK'
    BY <2>1 DEF HashUnknown, HashKnown, RemoteHeadHash
  <2>2. ASSUME NEW r \in Repos, CleanupExistingRepo(r) PROVE TypeOK'
    BY <2>2 DEF CleanupExistingRepo
  <2>3. ASSUME NEW r \in Repos, CloneRepo(r) PROVE TypeOK'
    <3>1. [repo |-> r, ver |-> head[r]] \in Slot
      OBVIOUS
    <3>2. dir' \in [Names -> Slot]
      BY <2>3, <3>1 DEF CloneRepo
    <3>3. QED
      BY <2>3, <3>2 DEF CloneRepo
  <2>4. ASSUME NEW r \in Repos, ArchiveRepo(r) PROVE TypeOK'
    <3> DEFINE tarred == [disk EXCEPT ![NameOf[r]] = dir[NameOf[r]]]
    <3> DEFINE removed == [dir EXCEPT ![NameOf[r]] = NONE]
    <3>1. tarred \in [Names -> Slot] /\ removed \in [Names -> Slot]
      OBVIOUS
    <3>2. /\ disk' \in {disk, tarred} /\ dir' \in {dir, removed}
          /\ stage' \in {[stage EXCEPT ![r] = "archived"],
                        [stage EXCEPT ![r] = "broken"]}
          /\ faults' \in {faults, faults + 1}
          /\ UNCHANGED <<github, db, git, pc, hash>>
      BY <2>4 DEF ArchiveRepo
    <3> HIDE DEF tarred, removed
    <3>3. dir' \in [Names -> Slot] /\ disk' \in [Names -> Slot]
      BY <3>1, <3>2
    <3>4. stage' \in [Repos -> Stages] /\ faults' \in Nat
      BY <3>2
    <3>5. QED
      BY <3>2, <3>3, <3>4
  <2>5. CASE NextBatch
    BY <2>5 DEF NextBatch
  <2>6. CASE EndCloning
    BY <2>6 DEF EndCloning
  <2>7. ASSUME NEW r \in Repos, Drop(r) PROVE TypeOK'
    BY <2>7 DEF Drop
  <2>8. ASSUME NEW r \in Repos, StageAndCommitRepo(r) PROVE TypeOK'
    <3> DEFINE staged == [index EXCEPT ![NameOf[r]] = disk[NameOf[r]]]
    <3>1. staged \in [Names -> Slot]
      OBVIOUS
    <3>2. index' \in {index, staged} /\ local' \in {local, staged}
      BY <2>8 DEF StageAndCommitRepo
    <3>3. index' \in [Names -> Slot] /\ local' \in [Names -> Slot]
      BY <3>1, <3>2
    <3>4. QED
      BY <2>8, <3>3 DEF StageAndCommitRepo
  <2>9. ASSUME NEW r \in Repos, PushBackupRepo(r) PROVE TypeOK'
    <3>1. /\ remote' \in {remote, local}
          /\ stage' \in {[stage EXCEPT ![r] = "pushed"],
                        [stage EXCEPT ![r] = "failed"]}
          /\ faults' \in {faults, faults + 1}
          /\ UNCHANGED <<github, db, tree, index, local, pc, hash>>
      BY <2>9 DEF PushBackupRepo, PushMain, PushMainFails
    <3>2. remote' \in [Names -> Slot]
      BY <3>1
    <3>3. stage' \in [Repos -> Stages] /\ faults' \in Nat
      BY <3>1
    <3>4. QED
      BY <3>1, <3>2, <3>3
  <2>10. ASSUME NEW r \in Repos, UpsertRepo(r) PROVE TypeOK'
    BY <2>10 DEF UpsertRepo, UpsertRow
  <2>11. QED
    BY <1>5, <2>1, <2>2, <2>3, <2>4, <2>5, <2>6, <2>7, <2>8, <2>9, <2>10
    DEF BackupStep
<1>6. CASE Crash
  BY <1>6 DEF Crash
<1>7. QED
  BY <1>1, <1>2, <1>3, <1>4, <1>5, <1>6 DEF Next, RunStep

\* Every variable of the worker keeps its type, whatever the constants are.
THEOREM TypeCorrect == Spec => []TypeOK
<1>1. Init => TypeOK
  <2>1. <<>> \in Seq(Nat) /\ Len(<<>>) = 0
    BY EmptySeq
  <2>2. Init => CommitsOK
    BY <2>1 DEF Init, CommitsOK
  <2>3. QED
    BY <2>2 DEF Init, TypeOK, Phases, Stages, Slot
<1>2. QED
  BY <1>1, TypeStep, PTL DEF Spec

-----------------------------------------------------------------------------
(* The inductive invariant.                                                *)

LEMMA VerType ==
  ASSUME NEW f \in [Names -> Slot], NEW r \in Repos
  PROVE  Ver(f, r) \in Nat
BY DEF Ver, Version, Slot, Archive

\* Short names are distinct: writing the file of r touches no other version.
LEMMA VerUpdate ==
  ASSUME DistinctShortNames, NEW f \in [Names -> Slot], NEW x \in Slot,
         NEW r \in Repos, NEW q \in Repos
  PROVE  /\ q # r => Ver([f EXCEPT ![NameOf[r]] = x], q) = Ver(f, q)
         /\ Ver([f EXCEPT ![NameOf[r]] = x], r) = Version(x, r)
BY DEF Ver, DistinctShortNames

LEMMA VerErase ==
  ASSUME DistinctShortNames, NEW f \in [Names -> Slot],
         NEW r \in Repos, NEW q \in Repos
  PROVE  Ver([f EXCEPT ![NameOf[r]] = NONE], q) = IF q = r THEN 0 ELSE Ver(f, q)
BY DEF Ver, Version, DistinctShortNames

\* The stages of which StageInOrder says something.
Tracked == {"kept", "dropped", "cloned", "archived", "committed", "pushed"}

\* A step that leaves the git trees and the row of q alone preserves the
\* invariant of q, unless it promises more about the copies of q.
LEMMA QuietStep ==
  ASSUME TypeOK, TypeOK', NEW q \in Repos, RepoInv(q),
         UNCHANGED git,
         db'[q] = db[q],
         head'[q] >= head[q],
         hash'[q] = hash[q] \/ hash'[q] = 0,
         Ver(dir', q) = Ver(dir, q) \/ Ver(dir', q) = 0,
         Ver(disk', q) = Ver(disk, q) \/ Ver(disk', q) = 0,
         \/ stage'[q] \notin Tracked
         \/ /\ stage'[q] = stage[q]
            /\ Ver(dir', q) = Ver(dir, q)
            /\ Ver(disk', q) = Ver(disk, q)
  PROVE  RepoInv(q)'
<1>1. /\ Ver(dir, q) \in Nat /\ Ver(disk, q) \in Nat /\ Ver(index, q) \in Nat
      /\ Ver(local, q) \in Nat /\ Ver(remote, q) \in Nat
  BY VerType DEF TypeOK
<1>2. /\ head[q] \in Nat /\ head'[q] \in Nat /\ db[q] \in Nat
      /\ hash[q] \in Nat /\ hash'[q] \in Nat
  BY DEF TypeOK
<1>3. /\ Ver(index', q) = Ver(index, q) /\ Ver(local', q) = Ver(local, q)
      /\ Ver(remote', q) = Ver(remote, q)
  BY DEF git
<1>4. BoundedByHead(q)'
  BY <1>1, <1>2, <1>3 DEF RepoInv, BoundedByHead
<1>5. TreesInOrder(q)'
  BY <1>1, <1>2, <1>3 DEF RepoInv, TreesInOrder, MayReplace
<1>6. StageInOrder(q)'
  BY <1>1, <1>2, <1>3 DEF RepoInv, StageInOrder, Fresh, Tracked
<1>7. QED
  BY <1>4, <1>5, <1>6 DEF RepoInv

\* Publishing or committing a tree that may replace the one it replaces.
LEMMA CommitAll ==
  ASSUME TypeOK, TypeOK', NEW q \in Repos, RepoInv(q),
         local' = index, UNCHANGED <<github, db, tree, index, remote, hash>>,
         stage'[q] = stage[q]
  PROVE  RepoInv(q)'
<1>1. /\ Ver(dir, q) \in Nat /\ Ver(disk, q) \in Nat /\ Ver(index, q) \in Nat
      /\ Ver(local, q) \in Nat /\ Ver(remote, q) \in Nat
  BY VerType DEF TypeOK
<1>2. head[q] \in Nat /\ db[q] \in Nat /\ hash[q] \in Nat
  BY DEF TypeOK
<1>3. /\ Ver(local', q) = Ver(index, q) /\ Ver(index', q) = Ver(index, q)
      /\ Ver(dir', q) = Ver(dir, q) /\ Ver(disk', q) = Ver(disk, q)
      /\ Ver(remote', q) = Ver(remote, q)
  BY DEF tree
<1>4. head' = head /\ db' = db /\ hash' = hash
  BY DEF github
<1>5. QED
  BY <1>1, <1>2, <1>3, <1>4
  DEF RepoInv, BoundedByHead, TreesInOrder, StageInOrder, MayReplace, Fresh

LEMMA PushAll ==
  ASSUME TypeOK, TypeOK', NEW q \in Repos, RepoInv(q),
         remote' \in {remote, local},
         UNCHANGED <<github, db, tree, index, local, hash>>,
         \/ stage'[q] = stage[q]
         \/ stage'[q] \notin Tracked
         \/ stage[q] = "committed" /\ stage'[q] = "pushed" /\ remote' = local
  PROVE  RepoInv(q)'
<1>1. /\ Ver(dir, q) \in Nat /\ Ver(disk, q) \in Nat /\ Ver(index, q) \in Nat
      /\ Ver(local, q) \in Nat /\ Ver(remote, q) \in Nat
  BY VerType DEF TypeOK
<1>2. head[q] \in Nat /\ db[q] \in Nat /\ hash[q] \in Nat
  BY DEF TypeOK
<1>3. /\ Ver(local', q) = Ver(local, q) /\ Ver(index', q) = Ver(index, q)
      /\ Ver(dir', q) = Ver(dir, q) /\ Ver(disk', q) = Ver(disk, q)
      /\ Ver(remote', q) \in {Ver(remote, q), Ver(local, q)}
      /\ remote' = local => Ver(remote', q) = Ver(local, q)
  BY DEF tree
<1>4. head' = head /\ db' = db /\ hash' = hash
  BY DEF github
<1>5. BoundedByHead(q)'
  BY <1>1, <1>2, <1>3, <1>4 DEF RepoInv, BoundedByHead
<1>6. TreesInOrder(q)'
  BY <1>1, <1>2, <1>3, <1>4 DEF RepoInv, TreesInOrder, MayReplace
<1>7. StageInOrder(q)'
  BY <1>1, <1>2, <1>3, <1>4
  DEF RepoInv, TreesInOrder, MayReplace, StageInOrder, Fresh, Tracked
<1>8. QED
  BY <1>5, <1>6, <1>7 DEF RepoInv

\* What the cases below need of the state before the step.
LEMMA Naturals4 ==
  ASSUME TypeOK, NEW q \in Repos
  PROVE  /\ Ver(dir, q) \in Nat /\ Ver(disk, q) \in Nat /\ Ver(index, q) \in Nat
         /\ Ver(local, q) \in Nat /\ Ver(remote, q) \in Nat
         /\ head[q] \in Nat /\ db[q] \in Nat /\ hash[q] \in Nat
BY VerType DEF TypeOK

\* rm -rf of the files of r, for every repository q.
LEMMA WipeStep ==
  ASSUME TypeOK, TypeOK', DistinctShortNames, NEW r \in Repos, NEW q \in Repos,
         RepoInv(q), WipeFiles(r), UNCHANGED <<github, db, git, hash>>,
         NEW s \in Stages \ Tracked, Move(r, s)
  PROVE  RepoInv(q)'
<1>1. dir \in [Names -> Slot] /\ disk \in [Names -> Slot]
  BY DEF TypeOK
<1>2. /\ Ver(dir', q) = IF q = r THEN 0 ELSE Ver(dir, q)
      /\ Ver(disk', q) = IF q = r THEN 0 ELSE Ver(disk, q)
  <2>1. /\ disk' = [disk EXCEPT ![NameOf[r]] = NONE]
        /\ dir' = [dir EXCEPT ![NameOf[r]] = NONE]
    BY DEF WipeFiles
  <2>2. /\ Ver([dir EXCEPT ![NameOf[r]] = NONE], q)
             = IF q = r THEN 0 ELSE Ver(dir, q)
        /\ Ver([disk EXCEPT ![NameOf[r]] = NONE], q)
             = IF q = r THEN 0 ELSE Ver(disk, q)
    BY <1>1, VerErase, ZenonT(30)
  <2>3. QED
    BY <2>1, <2>2 DEF Ver
<1>3. stage'[q] = IF q = r THEN s ELSE stage[q]
  BY DEF Move, TypeOK
<1>4. head'[q] >= head[q] /\ db'[q] = db[q] /\ hash'[q] = hash[q]
  BY Naturals4 DEF github
<1>5. QED
  BY <1>2, <1>3, <1>4, QuietStep

LEMMA DeletionInv ==
  ASSUME DistinctShortNames, "dbDelete" \notin Faults, TypeOK, TypeOK',
         BackupInv, DeletionStep, NEW q \in Repos
  PROVE  RepoInv(q)'
<1> USE DEF Move
<1>0. RepoInv(q)
  BY DEF BackupInv
<1>1. ASSUME NEW r \in Repos, WipeDoomed(r) PROVE RepoInv(q)'
  <2>1. "wiped" \in Stages \ Tracked
    BY DEF Stages, Tracked
  <2>2. QED
    BY <1>0, <1>1, <2>1, WipeStep DEF WipeDoomed
<1>2. ASSUME NEW r \in Repos, DeleteRow(r) PROVE RepoInv(q)'
  <2>1. db' = [db EXCEPT ![r] = 0] /\ stage' = [stage EXCEPT ![r] = "dropped"]
    BY <1>2 DEF DeleteRow, DeleteRepo, Fault
  <2>2. UNCHANGED <<github, tree, git, hash>>
    BY <1>2 DEF DeleteRow, DeleteRepo
  <2>3. CASE q # r
    <3>1. /\ db'[q] = db[q] /\ stage'[q] = stage[q] /\ head'[q] >= head[q]
          /\ hash'[q] = hash[q] /\ dir' = dir /\ disk' = disk
      BY <2>1, <2>2, <2>3, Naturals4 DEF github, tree, TypeOK
    <3>2. QED
      BY <1>0, <2>2, <3>1, QuietStep
  <2>4. CASE q = r
    <3>1. /\ db'[q] = 0 /\ stage'[q] = "dropped" /\ hash' = hash /\ head' = head
          /\ dir' = dir /\ disk' = disk /\ index' = index /\ local' = local
          /\ remote' = remote
      BY <2>1, <2>2, <2>4 DEF github, tree, git, TypeOK
    <3>2. QED
      BY <1>0, <3>1, Naturals4
      DEF RepoInv, BoundedByHead, TreesInOrder, StageInOrder, MayReplace
  <2>5. QED
    BY <2>3, <2>4
<1>3. ASSUME NEW r \in Repos, GitRemove(r) PROVE RepoInv(q)'
  <2>1. stage[r] = "dropped" /\ db[r] = 0
    BY <1>3 DEF GitRemove, BackupInv, RepoInv, StageInOrder
  <2>2. index \in [Names -> Slot] /\ disk \in [Names -> Slot]
    BY DEF TypeOK
  <2>3. /\ Ver([index EXCEPT ![NameOf[r]] = NONE], q)
             = IF q = r THEN 0 ELSE Ver(index, q)
        /\ Ver([disk EXCEPT ![NameOf[r]] = NONE], q)
             = IF q = r THEN 0 ELSE Ver(disk, q)
    BY <2>2, VerErase, ZenonT(30)
  <2>4. stage'[q] = IF q = r THEN "rmDropped" ELSE stage[q]
    BY <1>3, <2>1 DEF GitRemove, TypeOK
  <2>5. /\ head' = head /\ db' = db /\ hash' = hash /\ dir' = dir
        /\ local' = local /\ remote' = remote
    BY <1>3 DEF GitRemove, github
  <2>6. CASE UNCHANGED <<index, disk>>
    <3>1. stage'[q] = stage[q] \/ stage'[q] \notin Tracked
      BY <2>4 DEF Tracked
    <3>2. QED
      BY <1>0, <2>5, <2>6, <3>1, QuietStep, Naturals4 DEF git
  <2>7. CASE /\ index' = [index EXCEPT ![NameOf[r]] = NONE]
             /\ disk' = IF index[NameOf[r]] = NONE THEN disk
                        ELSE [disk EXCEPT ![NameOf[r]] = NONE]
    <3>1. Ver(index', q) = IF q = r THEN 0 ELSE Ver(index, q)
      BY <2>3, <2>7
    <3>2. Ver(disk', q) = Ver(disk, q) \/ (q = r /\ Ver(disk', q) = 0)
      BY <2>3, <2>7
    <3>3. QED
      BY <1>0, <2>1, <2>4, <2>5, <3>1, <3>2, Naturals4
      DEF RepoInv, BoundedByHead, TreesInOrder, StageInOrder, MayReplace, Fresh
  <2>8. QED
    BY <1>3, <2>6, <2>7 DEF GitRemove
<1>4. CASE EndDeleting
  BY <1>0, <1>4, QuietStep, Naturals4 DEF EndDeleting, github, tree
<1>5. CASE CommitRemovals
  <2>1. CASE local' = index
    BY <1>0, <1>5, <2>1, CommitAll DEF CommitRemovals
  <2>2. CASE UNCHANGED local
    BY <1>0, <1>5, <2>2, QuietStep, Naturals4 DEF CommitRemovals, github, tree, git
  <2>3. QED
    BY <1>5, <2>1, <2>2 DEF CommitRemovals
<1>6. CASE PushRemovals
  BY <1>0, <1>6, PushAll DEF PushRemovals, PushMain, PushMainFails
<1>7. QED
  BY <1>1, <1>2, <1>3, <1>4, <1>5, <1>6 DEF DeletionStep

\* Writing the file of r in a tree of files.
LEMMA VerWrite ==
  ASSUME DistinctShortNames, NEW f \in [Names -> Slot], NEW x \in Slot,
         NEW r \in Repos, NEW q \in Repos
  PROVE  Ver([f EXCEPT ![NameOf[r]] = x], q)
           = IF q = r THEN Version(x, r) ELSE Ver(f, q)
BY VerUpdate DEF Ver

\* git clone: the new directory is newer than every copy there is.
LEMMA CloneInv ==
  ASSUME DistinctShortNames, TypeOK, TypeOK', BackupInv,
         NEW r \in Repos, CloneRepo(r), NEW q \in Repos
  PROVE  RepoInv(q)'
<1>0. RepoInv(q) /\ dir \in [Names -> Slot]
  BY DEF BackupInv, TypeOK
<1> DEFINE copy == [repo |-> r, ver |-> head[r]]
<1>1. copy \in Slot /\ Version(copy, r) = head[r]
  BY DEF Slot, Archive, Version, TypeOK
<1> HIDE DEF copy
<1>2. UNCHANGED <<github, db, disk, git, hash>>
  BY DEF CloneRepo
<1>3. CASE /\ dir' = [dir EXCEPT ![NameOf[r]] = copy]
           /\ stage' = [stage EXCEPT ![r] = "cloned"]
  <2>1. Ver([dir EXCEPT ![NameOf[r]] = copy], q)
          = IF q = r THEN head[r] ELSE Ver(dir, q)
    <3>1. Ver([dir EXCEPT ![NameOf[r]] = copy], q)
            = IF q = r THEN Version(copy, r) ELSE Ver(dir, q)
      BY <1>0, <1>1, VerWrite, ZenonT(30)
    <3>2. QED
      BY <1>1, <3>1
  <2>2. Ver(dir', q) = IF q = r THEN head[r] ELSE Ver(dir, q)
    BY <1>3, <2>1 DEF Ver
  <2>3. stage'[q] = IF q = r THEN "cloned" ELSE stage[q]
    BY <1>3 DEF TypeOK
  <2>4. /\ head' = head /\ db' = db /\ hash' = hash /\ disk' = disk
        /\ index' = index /\ local' = local /\ remote' = remote
    BY <1>2 DEF github, git
  <2>5. CASE q # r
    BY <1>0, <1>2, <2>2, <2>3, <2>4, <2>5, QuietStep, Naturals4
  <2>6. CASE q = r
    BY <1>0, <2>2, <2>3, <2>4, <2>6, Naturals4
    DEF RepoInv, BoundedByHead, TreesInOrder, StageInOrder, MayReplace, Fresh
  <2>7. QED
    BY <2>5, <2>6
<1>4. CASE UNCHANGED dir /\ stage' = [stage EXCEPT ![r] = "broken"]
  <2>1. stage'[q] = stage[q] \/ stage'[q] \notin Tracked
    BY <1>4 DEF TypeOK, Tracked
  <2>2. head' = head /\ db' = db /\ hash' = hash /\ UNCHANGED git
    BY <1>2 DEF github
  <2>3. QED
    BY <1>0, <1>2, <1>4, <2>1, <2>2, QuietStep, Naturals4
<1>5. QED
  BY <1>3, <1>4 DEF CloneRepo, Move, copy

\* tar and rm: the archive is as new as the clone it was made from.
LEMMA ArchiveInv ==
  ASSUME DistinctShortNames, TypeOK, TypeOK', BackupInv,
         NEW r \in Repos, ArchiveRepo(r), NEW q \in Repos
  PROVE  RepoInv(q)'
<1>0. RepoInv(q) /\ dir \in [Names -> Slot] /\ disk \in [Names -> Slot]
  BY DEF BackupInv, TypeOK
<1> DEFINE tarred == [disk EXCEPT ![NameOf[r]] = dir[NameOf[r]]]
<1>1. /\ Ver(tarred, q) = IF q = r THEN Ver(dir, r) ELSE Ver(disk, q)
      /\ Ver([dir EXCEPT ![NameOf[r]] = NONE], q)
           = IF q = r THEN 0 ELSE Ver(dir, q)
  <2>1. dir[NameOf[r]] \in Slot
    BY <1>0
  <2>2. QED
    BY <1>0, <2>1, VerWrite, VerErase DEF Ver
<1>2. /\ head' = head /\ db' = db /\ hash' = hash /\ UNCHANGED git
      /\ stage[r] = "cloned"
  BY DEF ArchiveRepo, github
<1> HIDE DEF tarred
<1>3. CASE /\ disk' = tarred
           /\ dir' = [dir EXCEPT ![NameOf[r]] = NONE]
           /\ stage' = [stage EXCEPT ![r] = "archived"]
  <2>1. /\ Ver(disk', q) = IF q = r THEN Ver(dir, r) ELSE Ver(disk, q)
        /\ Ver(dir', q) = IF q = r THEN 0 ELSE Ver(dir, q)
    BY <1>1, <1>3
  <2>2. stage'[q] = IF q = r THEN "archived" ELSE stage[q]
    BY <1>3 DEF TypeOK
  <2>3. CASE q # r
    BY <1>0, <1>2, <2>1, <2>2, <2>3, QuietStep, Naturals4
  <2>4. CASE q = r
    BY <1>0, <1>2, <2>1, <2>2, <2>4, Naturals4
    DEF RepoInv, BoundedByHead, TreesInOrder, StageInOrder, MayReplace, Fresh, git
  <2>5. QED
    BY <2>3, <2>4
<1>4. CASE /\ disk' \in {disk, tarred}
           /\ UNCHANGED dir
           /\ stage' = [stage EXCEPT ![r] = "broken"]
  <2>1. Ver(disk', q) \in {Ver(disk, q), Ver(tarred, q)}
    BY <1>4
  <2>2. stage'[q] = IF q = r THEN "broken" ELSE stage[q]
    BY <1>4 DEF TypeOK
  <2>3. CASE q # r
    BY <1>0, <1>1, <1>2, <1>4, <2>1, <2>2, <2>3, QuietStep, Naturals4
  <2>4. CASE q = r
    BY <1>0, <1>1, <1>2, <1>4, <2>1, <2>2, <2>4, Naturals4
    DEF RepoInv, BoundedByHead, TreesInOrder, StageInOrder, MayReplace, git
  <2>5. QED
    BY <2>3, <2>4
<1>5. QED
  BY <1>3, <1>4 DEF ArchiveRepo, Move, tarred, tree

\* git add and git commit: the archive of r is fresh, and everything else that
\* is staged may replace what the local branch holds.
LEMMA CommitInv ==
  ASSUME DistinctShortNames, TypeOK, TypeOK', BackupInv,
         NEW r \in Repos, StageAndCommitRepo(r), NEW q \in Repos
  PROVE  RepoInv(q)'
<1>0. RepoInv(q) /\ index \in [Names -> Slot] /\ disk[NameOf[r]] \in Slot
  BY DEF BackupInv, TypeOK
<1> DEFINE staged == [index EXCEPT ![NameOf[r]] = disk[NameOf[r]]]
<1>1. Ver(staged, q) = IF q = r THEN Ver(disk, r) ELSE Ver(index, q)
  BY <1>0, VerWrite DEF Ver
<1>2. /\ head' = head /\ db' = db /\ hash' = hash /\ dir' = dir /\ disk' = disk
      /\ remote' = remote /\ stage[r] = "archived"
  BY DEF StageAndCommitRepo, github, tree
<1> HIDE DEF staged
<1>3. CASE /\ index' = staged /\ local' = staged
           /\ stage' = [stage EXCEPT ![r] = "committed"]
  <2>1. Ver(index', q) = Ver(staged, q) /\ Ver(local', q) = Ver(staged, q)
    BY <1>3
  <2>2. stage'[q] = IF q = r THEN "committed" ELSE stage[q]
    BY <1>3 DEF TypeOK
  <2>3. CASE q # r
    <3>1. stage[q] \notin {"committed", "pushed"}
      BY <2>3 DEF StageAndCommitRepo, Turn, AtAny
    <3>2. BoundedByHead(q)' /\ TreesInOrder(q)'
      BY <1>0, <1>1, <1>2, <2>1, <2>3, Naturals4
      DEF RepoInv, BoundedByHead, TreesInOrder, MayReplace
    <3>3. StageInOrder(q)'
      BY <1>0, <1>1, <1>2, <2>1, <2>2, <2>3, <3>1, Naturals4
      DEF RepoInv, StageInOrder, TreesInOrder, MayReplace, Fresh
    <3>4. QED
      BY <3>2, <3>3 DEF RepoInv
  <2>4. CASE q = r
    BY <1>0, <1>1, <1>2, <2>1, <2>2, <2>4, Naturals4
    DEF RepoInv, BoundedByHead, TreesInOrder, StageInOrder, MayReplace, Fresh
  <2>5. QED
    BY <2>3, <2>4
<1>4. CASE /\ index' \in {index, staged} /\ UNCHANGED local
           /\ stage' = [stage EXCEPT ![r] = "failed"]
  <2>1. Ver(index', q) \in {Ver(index, q), Ver(staged, q)}
    BY <1>4
  <2>2. stage'[q] = IF q = r THEN "failed" ELSE stage[q]
    BY <1>4 DEF TypeOK
  <2>3. CASE q # r
    BY <1>0, <1>1, <1>2, <1>4, <2>1, <2>2, <2>3, Naturals4
    DEF RepoInv, BoundedByHead, TreesInOrder, StageInOrder, MayReplace, Fresh
  <2>4. CASE q = r
    BY <1>0, <1>1, <1>2, <1>4, <2>1, <2>2, <2>4, Naturals4
    DEF RepoInv, BoundedByHead, TreesInOrder, StageInOrder, MayReplace, Fresh
  <2>5. QED
    BY <2>3, <2>4
<1>5. QED
  BY <1>3, <1>4 DEF StageAndCommitRepo, Move, staged

\* UpsertRepo: the hash of this run is no newer than the archive just pushed.
LEMMA RecordInv ==
  ASSUME TypeOK, TypeOK', BackupInv, NEW r \in Repos, UpsertRepo(r),
         NEW q \in Repos
  PROVE  RepoInv(q)'
<1>0. RepoInv(q)
  BY DEF BackupInv
<1>1. /\ head' = head /\ hash' = hash /\ dir' = dir /\ disk' = disk
      /\ index' = index /\ local' = local /\ remote' = remote
      /\ stage[r] = "pushed" /\ stage' = [stage EXCEPT ![r] = "done"]
  BY DEF UpsertRepo, UpsertRow, github, tree, git, Move
<1>2. stage'[q] = IF q = r THEN "done" ELSE stage[q]
  BY <1>1 DEF TypeOK
<1>3. db' = db \/ (hash[r] # 0 /\ db' = [db EXCEPT ![r] = hash[r]])
  BY DEF UpsertRepo, UpsertRow
<1>4. db'[q] = db[q] \/ (q = r /\ hash[r] # 0 /\ db'[q] = hash[r])
  BY <1>3 DEF TypeOK
<1>5. CASE db'[q] = db[q]
  <2>1. stage'[q] = stage[q] \/ stage'[q] \notin Tracked
    BY <1>2 DEF Tracked
  <2>2. QED
    BY <1>0, <1>1, <1>5, <2>1, QuietStep, Naturals4 DEF git
<1>6. CASE q = r /\ hash[r] # 0 /\ db'[q] = hash[r]
  <2>1. /\ Ver(remote, r) = Ver(local, r) /\ Ver(index, r) = Ver(local, r)
        /\ hash[r] <= Ver(local, r)
    BY <1>0, <1>1, <1>6, Naturals4 DEF RepoInv, StageInOrder, Fresh
  <2>2. QED
    BY <1>0, <1>1, <1>2, <1>6, <2>1, Naturals4
    DEF RepoInv, BoundedByHead, TreesInOrder, StageInOrder, MayReplace
<1>7. QED
  BY <1>4, <1>5, <1>6

LEMMA HashInv ==
  ASSUME TypeOK, TypeOK', BackupInv,
         NEW r \in Repos, HashUnknown(r) \/ HashKnown(r), NEW q \in Repos
  PROVE  RepoInv(q)'
<1>0. RepoInv(q)
  BY DEF BackupInv
<1>1. UNCHANGED <<github, db, tree, git>>
  BY DEF HashUnknown, HashKnown, RemoteHeadHash
<1>2. /\ head' = head /\ db' = db /\ dir' = dir /\ disk' = disk
      /\ index' = index /\ local' = local /\ remote' = remote
  BY <1>1 DEF github, tree, git
<1>3. \/ stage' = [stage EXCEPT ![r] = "todo"]
      \/ stage' = [stage EXCEPT ![r] = "skipped"]
  BY DEF HashUnknown, HashKnown, RemoteHeadHash, Move
<1>4. hash' = hash \/ hash' = [hash EXCEPT ![r] = head[r]]
  BY DEF HashUnknown, HashKnown, RemoteHeadHash
<1>5. /\ q # r => stage'[q] = stage[q]
      /\ q = r => stage'[q] \in {"todo", "skipped"}
      /\ hash'[q] = hash[q] \/ (q = r /\ hash'[q] = head[q])
  BY <1>3, <1>4 DEF TypeOK
<1>6. CASE hash'[q] = hash[q]
  <2>1. stage'[q] = stage[q] \/ stage'[q] \notin Tracked
    BY <1>5 DEF Tracked
  <2>2. QED
    BY <1>0, <1>1, <1>2, <1>6, <2>1, QuietStep, Naturals4
<1>7. CASE q = r /\ hash'[q] = head[q]
  BY <1>0, <1>2, <1>5, <1>7, Naturals4
  DEF RepoInv, BoundedByHead, TreesInOrder, StageInOrder, MayReplace
<1>8. QED
  BY <1>5, <1>6, <1>7

\* Steps that only move stages, to ones of which nothing is asked, or end the
\* process.
LEMMA MoveInv ==
  ASSUME TypeOK, TypeOK', BackupInv, UNCHANGED <<db, tree, git>>, NEW q \in Repos,
         head'[q] >= head[q],
         hash'[q] = hash[q] \/ hash'[q] = 0,
         stage'[q] = stage[q] \/ stage'[q] \notin Tracked
  PROVE  RepoInv(q)'
BY QuietStep DEF BackupInv, tree

LEMMA BackupStepInv ==
  ASSUME DistinctShortNames, TypeOK, TypeOK', BackupInv, BackupStep,
         NEW q \in Repos
  PROVE  RepoInv(q)'
<1>0. RepoInv(q)
  BY DEF BackupInv
<1>1. ASSUME NEW r \in Repos, CleanupExistingRepo(r) PROVE RepoInv(q)'
  <2>1. "clean" \in Stages \ Tracked
    BY DEF Stages, Tracked
  <2>2. QED
    BY <1>0, <1>1, <2>1, WipeStep DEF CleanupExistingRepo
<1>2. CASE NextBatch
  <2>1. UNCHANGED <<github, db, tree, git>>
    BY <1>2 DEF NextBatch
  <2>2. stage'[q] \in {stage[q], "queued", "out"}
    BY <1>2 DEF NextBatch, ExitProcess
  <2>3. hash'[q] = hash[q] \/ hash'[q] = 0
    BY <1>2 DEF NextBatch, ExitProcess
  <2>4. QED
    BY <2>1, <2>2, <2>3, MoveInv, Naturals4 DEF Tracked, github
<1>3. CASE EndCloning
  BY <1>3, MoveInv, Naturals4 DEF EndCloning, github
<1>4. ASSUME NEW r \in Repos, Drop(r) PROVE RepoInv(q)'
  <2>1. UNCHANGED <<github, db, tree, git, hash>>
    BY <1>4 DEF Drop
  <2>2. stage' \in {[stage EXCEPT ![r] = "failed"],
                    [stage EXCEPT ![r] = "oversized"]}
    BY <1>4 DEF Drop, Move
  <2>3. stage'[q] \in {stage[q], "failed", "oversized"}
    BY <2>2 DEF TypeOK
  <2>4. QED
    BY <2>1, <2>3, MoveInv, Naturals4 DEF Tracked, github
<1>5. ASSUME NEW r \in Repos, PushBackupRepo(r) PROVE RepoInv(q)'
  <2>1. /\ stage[r] = "committed"
        /\ UNCHANGED <<github, db, tree, index, local, hash>>
    BY <1>5 DEF PushBackupRepo
  <2>2. \/ remote' = local /\ stage' = [stage EXCEPT ![r] = "pushed"]
        \/ /\ remote' \in {remote, local}
           /\ stage' = [stage EXCEPT ![r] = "failed"]
    BY <1>5 DEF PushBackupRepo, PushMain, PushMainFails, Move
  <2>3. /\ remote' \in {remote, local}
        /\ \/ stage'[q] = stage[q]
           \/ stage'[q] \notin Tracked
           \/ /\ stage[q] = "committed" /\ stage'[q] = "pushed"
              /\ remote' = local
    BY <2>1, <2>2 DEF TypeOK, Tracked
  <2>4. QED
    BY <1>0, <2>1, <2>3, PushAll
<1>6. QED
  BY <1>1, <1>2, <1>3, <1>4, <1>5, HashInv, CloneInv, ArchiveInv, CommitInv,
     RecordInv
  DEF BackupStep

\* Every step preserves the invariant.
LEMMA BackupInvStep ==
  ASSUME DistinctShortNames, "dbDelete" \notin Faults, TypeOK, TypeOK',
         BackupInv, [Next]_vars
  PROVE  BackupInv'
<1> SUFFICES ASSUME NEW q \in Repos PROVE RepoInv(q)'
  BY DEF BackupInv
<1>1. CASE UNCHANGED vars
  BY <1>1, MoveInv, Naturals4 DEF vars, github, control
<1>2. CASE GitHubStep
  <2>1. PICK r \in Repos : OwnerPush(r) \/ OwnerDelete(r) \/ OwnerCreate(r)
    BY <1>2 DEF GitHubStep
  <2>2. UNCHANGED <<db, tree, git, control>>
    BY <2>1 DEF OwnerPush, OwnerDelete, OwnerCreate
  <2>3. head' = head \/ head' = [head EXCEPT ![r] = @ + 1]
    BY <2>1, PushMovesHead, CreateMovesHead DEF OwnerDelete
  <2>4. head'[q] >= head[q]
    BY <2>3 DEF TypeOK
  <2>5. QED
    BY <2>2, <2>4, MoveInv DEF control
<1>3. CASE BeginRun \/ EmptyRun \/ BeginPartial \/ BeginBlind
  <2>1. CASE EmptyRun
    BY <2>1, MoveInv, Naturals4 DEF EmptyRun, vars, github, control
  <2>2. ASSUME NEW L \in SUBSET Repos, NEW rowsRead \in BOOLEAN,
               Begin(L, rowsRead)
        PROVE  RepoInv(q)'
    <3>1. UNCHANGED <<github, db, tree, git>> /\ hash'[q] = 0
      BY <2>2 DEF Begin
    <3>2. stage'[q] \in {"listed", "doomed", "out"}
      BY <2>2 DEF Begin
    <3>3. QED
      BY <3>1, <3>2, MoveInv, Naturals4 DEF Tracked, github
  <2>3. onGitHub \in SUBSET Repos
    BY DEF TypeOK
  <2>4. QED
    BY <1>3, <2>1, <2>2, <2>3 DEF BeginRun, BeginPartial, BeginBlind
<1>4. CASE DeletionStep
  BY <1>4, DeletionInv
<1>5. CASE BackupStep
  BY <1>5, BackupStepInv
<1>6. CASE Crash
  <2>1. UNCHANGED <<github, db, tree, git>> /\ hash'[q] = 0 /\ stage'[q] = "out"
    BY <1>6 DEF Crash, ExitProcess
  <2>2. QED
    BY <2>1, MoveInv, Naturals4 DEF Tracked, github
<1>7. QED
  BY <1>1, <1>2, <1>3, <1>4, <1>5, <1>6 DEF Next, RunStep

LEMMA BackupInvInit == Init => BackupInv
BY DEF Init, BackupInv, RepoInv, BoundedByHead, TreesInOrder, StageInOrder,
       MayReplace, Ver, Version

LEMMA BackupInvCorrect ==
  ASSUME DistinctShortNames, "dbDelete" \notin Faults
  PROVE  Spec => []BackupInv
<1>1. TypeOK /\ TypeOK' /\ BackupInv /\ [Next]_vars => BackupInv'
  BY BackupInvStep
<1>2. QED
  BY <1>1, TypeCorrect, BackupInvInit, PTL DEF Spec

\* When short names are distinct and rows can be deleted, app.db never vouches
\* for an archive that the central repository does not hold: every later run
\* that skips a repository (parallelHashCheck) is right to skip it.
THEOREM RecordedNeverAhead ==
  ASSUME DistinctShortNames, "dbDelete" \notin Faults
  PROVE  Spec => []RecordedIsBackedUp
<1>1. BackupInv => RecordedIsBackedUp
  BY DEF BackupInv, RepoInv, TreesInOrder, RecordedIsBackedUp, ArchivedVersion, Ver
<1>2. QED
  BY <1>1, BackupInvCorrect, PTL

-----------------------------------------------------------------------------
(* BackupWorker implements BackupPromise.                                  *)

\* A step changes the remote (a push) or one row (an upsert or a delete), or
\* neither; never both.
LEMMA PromisedChanges ==
  ASSUME "dbDelete" \notin Faults, TypeOK, [Next]_vars
  PROVE  \/ UNCHANGED <<db, remote>>
         \/ remote' \in {remote, local} /\ UNCHANGED db
         \/ \E r \in Repos : UpsertRepo(r)
         \/ \E r \in Repos : db' = [db EXCEPT ![r] = 0] /\ UNCHANGED remote
<1>1. CASE UNCHANGED vars
  BY <1>1 DEF vars, git
<1>2. CASE GitHubStep
  BY <1>2 DEF GitHubStep, OwnerPush, OwnerDelete, OwnerCreate, git
<1>3. CASE BeginRun \/ EmptyRun \/ BeginPartial \/ BeginBlind
  BY <1>3 DEF BeginRun, EmptyRun, BeginPartial, BeginBlind, Begin, vars, git
<1>4. CASE DeletionStep
  <2>1. ASSUME NEW r \in Repos, WipeDoomed(r) \/ GitRemove(r)
        PROVE  UNCHANGED <<db, remote>>
    BY <2>1 DEF WipeDoomed, GitRemove, git
  <2>2. ASSUME NEW r \in Repos, DeleteRow(r)
        PROVE  db' = [db EXCEPT ![r] = 0] /\ UNCHANGED remote
    BY <2>2 DEF DeleteRow, DeleteRepo, Fault, git
  <2>3. CASE EndDeleting \/ CommitRemovals
    BY <2>3 DEF EndDeleting, CommitRemovals, git
  <2>4. CASE PushRemovals
    BY <2>4 DEF PushRemovals, PushMain, PushMainFails
  <2>5. QED
    BY <1>4, <2>1, <2>2, <2>3, <2>4 DEF DeletionStep
<1>5. CASE BackupStep
  <2>1. ASSUME NEW r \in Repos, HashUnknown(r) \/ HashKnown(r)
        PROVE  UNCHANGED <<db, remote>>
    BY <2>1 DEF HashUnknown, HashKnown, RemoteHeadHash, git
  <2>2. ASSUME NEW r \in Repos,
               CleanupExistingRepo(r) \/ CloneRepo(r) \/ ArchiveRepo(r)
        PROVE  UNCHANGED <<db, remote>>
    BY <2>2 DEF CleanupExistingRepo, CloneRepo, ArchiveRepo, git
  <2>3. CASE NextBatch \/ EndCloning
    BY <2>3 DEF NextBatch, EndCloning, git
  <2>4. ASSUME NEW r \in Repos, Drop(r) \/ StageAndCommitRepo(r)
        PROVE  UNCHANGED <<db, remote>>
    BY <2>4 DEF Drop, StageAndCommitRepo, git
  <2>5. ASSUME NEW r \in Repos, PushBackupRepo(r)
        PROVE  remote' \in {remote, local} /\ UNCHANGED db
    BY <2>5 DEF PushBackupRepo, PushMain, PushMainFails
  <2>6. QED
    BY <1>5, <2>1, <2>2, <2>3, <2>4, <2>5 DEF BackupStep
<1>6. CASE Crash
  BY <1>6 DEF Crash, git
<1>7. QED
  BY <1>1, <1>2, <1>3, <1>4, <1>5, <1>6 DEF Next, RunStep

\* Every step is a Publish, a Record, a Forget or a stutter of the promise.
LEMMA PromiseStep ==
  ASSUME "dbDelete" \notin Faults, TypeOK, TypeOK', BackupInv, [Next]_vars
  PROVE  [Promise!PNext]_(Promise!promiseVars)
<1>0. \A q \in Repos : /\ RepoInv(q)
                       /\ Ver(remote, q) \in Nat /\ Ver(remote', q) \in Nat
                       /\ db[q] \in Nat /\ hash[q] \in Nat
  BY VerType DEF BackupInv, TypeOK
<1>1. /\ \A q \in Repos : ArchivedVersion(q) = Ver(remote, q)
      /\ \A q \in Repos : ArchivedVersion(q)' = Ver(remote', q)
  BY DEF ArchivedVersion, Ver
<1>2. CASE UNCHANGED <<db, remote>>
  <2>1. UNCHANGED Promise!promiseVars
    BY <1>2 DEF Promise!promiseVars, ArchivedVersion
  <2>2. QED
    BY <2>1
<1>3. CASE remote' \in {remote, local} /\ UNCHANGED db
  <2>1. ASSUME NEW q \in Repos
        PROVE  \/ Ver(remote', q) >= Ver(remote, q)
               \/ Ver(remote', q) = 0 /\ db[q] = 0
    <3>1. MayReplace(local, remote, q)
      BY <1>0 DEF RepoInv, TreesInOrder
    <3>2. QED
      BY <1>0, <1>3, <3>1 DEF MayReplace
  <2>2. Promise!Publish
    BY <1>0, <1>1, <1>3, <2>1 DEF Promise!Publish
  <2>3. QED
    BY <2>2 DEF Promise!PNext
<1>4. ASSUME NEW r \in Repos, UpsertRepo(r)
      PROVE  [Promise!PNext]_(Promise!promiseVars)
  <2>1. UNCHANGED remote /\ stage[r] = "pushed"
    BY <1>4 DEF UpsertRepo, UpsertRow, git
  <2>2. CASE UNCHANGED db
    BY <1>2, <2>1, <2>2
  <2>3. CASE hash[r] # 0 /\ db' = [db EXCEPT ![r] = hash[r]]
    <3>1. /\ hash[r] \in 1..Ver(remote, r)
          /\ hash[r] >= db[r]
      <4>1. /\ hash[r] = 0 \/ db[r] <= hash[r]
            /\ hash[r] <= Ver(local, r) /\ Ver(remote, r) = Ver(local, r)
        BY <1>0, <2>1 DEF RepoInv, StageInOrder, Fresh
      <4>2. QED
        BY <1>0, <2>3, <4>1
    <3>2. UNCHANGED [q \in Repos |-> ArchivedVersion(q)]
      BY <2>1 DEF ArchivedVersion
    <3>3. Promise!Record(r)
      BY <1>1, <2>3, <3>1, <3>2 DEF Promise!Record
    <3>4. QED
      BY <3>3 DEF Promise!PNext
  <2>4. QED
    BY <1>4, <2>2, <2>3 DEF UpsertRepo, UpsertRow
<1>5. ASSUME NEW r \in Repos, db' = [db EXCEPT ![r] = 0], UNCHANGED remote
      PROVE  [Promise!PNext]_(Promise!promiseVars)
  <2>1. UNCHANGED [q \in Repos |-> ArchivedVersion(q)]
    BY <1>5 DEF ArchivedVersion
  <2>2. Promise!Forget(r)
    BY <1>5, <2>1 DEF Promise!Forget
  <2>3. QED
    BY <2>2 DEF Promise!PNext
<1>6. QED
  BY <1>2, <1>3, <1>4, <1>5, PromisedChanges

\* The worker, with every interleaving of owners, failures and crashes,
\* implements the promise: pushes never take a recorded archive away or make
\* one older, and rows follow archives.
THEOREM ImplementsPromise ==
  ASSUME DistinctShortNames, "dbDelete" \notin Faults
  PROVE  Spec => KeepsItsPromise
<1>1. Init => Promise!PInit
  BY DEF Init, Promise!PInit, ArchivedVersion, Version
<1>2. TypeOK /\ TypeOK' /\ BackupInv /\ [Next]_vars
        => [Promise!PNext]_(Promise!promiseVars)
  BY PromiseStep
<1>3. QED
  BY <1>1, <1>2, TypeCorrect, BackupInvCorrect, PTL
  DEF Spec, KeepsItsPromise, Promise!PSpec

-----------------------------------------------------------------------------
(* Archives of repositories that were always there survive.                *)

\* The stages of a repository that is being pruned.
Doomed == {"doomed", "wiped", "dropped", "kept", "rmDropped", "rmKept"}

\* A file is a version of the repository that has its name.  A repository that never was
\* gone is on GitHub since its first version, no run prunes it, and what one tree holds of
\* it the trees that may replace that one hold as well.
LiveInv(r) ==
  /\ r \in onGitHub \/ hash[r] # 0 \/ db[r] # 0 => head[r] # 0
  /\ dir[NameOf[r]] # NONE => Ver(dir, r) # 0
  /\ disk[NameOf[r]] # NONE => Ver(disk, r) # 0
  /\ r \notin gone =>
       /\ head[r] # 0 => r \in onGitHub
       /\ stage[r] \notin Doomed
       /\ Ver(remote, r) # 0 => Ver(local, r) # 0
       /\ Ver(local, r) # 0 => Ver(index, r) # 0

AllLive == \A r \in Repos : LiveInv(r)

\* A step that takes nothing away but files, hashes and rows, and dooms nothing.
LEMMA StaysLive ==
  ASSUME NEW q \in Repos, LiveInv(q),
         head'[q] = head[q], q \in onGitHub' <=> q \in onGitHub, q \in gone => q \in gone',
         hash'[q] \in {hash[q], 0}, db'[q] \in {db[q], 0},
         dir'[NameOf[q]] \in {dir[NameOf[q]], NONE},
         disk'[NameOf[q]] \in {disk[NameOf[q]], NONE},
         UNCHANGED git, stage'[q] \in Doomed => stage[q] \in Doomed
  PROVE  LiveInv(q)'
<1>1. index' = index /\ local' = local /\ remote' = remote
  BY DEF git
<1>2. /\ Ver(index, q)' = Ver(index, q) /\ Ver(local, q)' = Ver(local, q)
      /\ Ver(remote, q)' = Ver(remote, q)
  BY <1>1 DEF Ver
<1>3. dir'[NameOf[q]] # NONE => Ver(dir, q)' # 0
  BY DEF LiveInv, Ver
<1>4. disk'[NameOf[q]] # NONE => Ver(disk, q)' # 0
  BY DEF LiveInv, Ver
<1> QED
  BY <1>2, <1>3, <1>4 DEF LiveInv

LEMMA OwnersKeepLive ==
  ASSUME TypeOK, AllLive, GitHubStep, NEW q \in Repos
  PROVE  LiveInv(q)'
<1>0. LiveInv(q) /\ head[q] \in Nat
  BY DEF AllLive, TypeOK
<1>1. UNCHANGED <<db, tree, git, control>>
  BY DEF GitHubStep, OwnerPush, OwnerDelete, OwnerCreate
<1>2. /\ Ver(dir, q)' = Ver(dir, q) /\ Ver(disk, q)' = Ver(disk, q)
      /\ Ver(index, q)' = Ver(index, q) /\ Ver(local, q)' = Ver(local, q)
      /\ Ver(remote, q)' = Ver(remote, q)
      /\ dir' = dir /\ disk' = disk /\ hash' = hash /\ db' = db /\ stage' = stage
  BY <1>1 DEF Ver, tree, git, control
<1>3. ASSUME NEW r \in Repos, OwnerPush(r) PROVE LiveInv(q)'
  <2>1. head'[q] = IF q = r THEN head[q] + 1 ELSE head[q]
    BY <1>3, PushMovesHead DEF TypeOK
  <2>2. UNCHANGED <<onGitHub, gone>> /\ (q = r => q \in onGitHub)
    BY <1>3 DEF OwnerPush
  <2> QED
    BY <1>0, <1>2, <2>1, <2>2 DEF LiveInv
<1>4. ASSUME NEW r \in Repos, OwnerDelete(r) PROVE LiveInv(q)'
  <2>1. onGitHub' = onGitHub \ {r} /\ gone' = gone \cup {r} /\ UNCHANGED head
    BY <1>4 DEF OwnerDelete
  <2> QED
    BY <1>0, <1>2, <2>1 DEF LiveInv
<1>5. ASSUME NEW r \in Repos, OwnerCreate(r) PROVE LiveInv(q)'
  <2>1. head'[q] = IF q = r THEN head[q] + 1 ELSE head[q]
    BY <1>5, CreateMovesHead DEF TypeOK
  <2>2. onGitHub' = onGitHub \cup {r} /\ UNCHANGED gone
    BY <1>5 DEF OwnerCreate
  <2> QED
    BY <1>0, <1>2, <2>1, <2>2 DEF LiveInv
<1> QED
  BY <1>3, <1>4, <1>5 DEF GitHubStep

\* The listing is complete, so a repository with a row that is not in it has been deleted.
LEMMA BeginKeepsLive ==
  ASSUME TypeOK, AllLive, NEW rowsRead \in BOOLEAN, Begin(onGitHub, rowsRead), NEW q \in Repos
  PROVE  LiveInv(q)'
<1>0. LiveInv(q)
  BY DEF AllLive
<1>1. /\ stage'[q] = IF q \in onGitHub THEN "listed"
                     ELSE IF rowsRead /\ q \in ReposInDB THEN "doomed" ELSE "out"
      /\ hash'[q] = 0 /\ UNCHANGED <<github, db, tree, git>>
  BY DEF Begin
<1>2. CASE q \in gone \/ stage'[q] \notin Doomed
  <2>1. /\ Ver(dir, q)' = Ver(dir, q) /\ Ver(disk, q)' = Ver(disk, q)
        /\ Ver(index, q)' = Ver(index, q) /\ Ver(local, q)' = Ver(local, q)
        /\ Ver(remote, q)' = Ver(remote, q)
        /\ dir' = dir /\ disk' = disk /\ db' = db
        /\ head' = head /\ onGitHub' = onGitHub /\ gone' = gone
    BY <1>1 DEF Ver, tree, git, github
  <2> QED
    BY <1>0, <1>1, <1>2, <2>1 DEF LiveInv
<1>3. CASE q \notin gone /\ stage'[q] \in Doomed
  <2>1. q \notin onGitHub /\ db[q] # 0
    BY <1>1, <1>3 DEF Doomed, ReposInDB
  <2>2. FALSE
    BY <1>0, <1>3, <2>1 DEF LiveInv
  <2> QED
    BY <2>2
<1> QED
  BY <1>2, <1>3

LEMMA DeletionKeepsLive ==
  ASSUME DistinctShortNames, TypeOK, AllLive, DeletionStep, NEW q \in Repos
  PROVE  LiveInv(q)'
<1>0. LiveInv(q)
  BY DEF AllLive
<1>1. UNCHANGED github /\ head' = head /\ onGitHub' = onGitHub /\ gone' = gone /\ hash' = hash
  BY DEF DeletionStep, WipeDoomed, DeleteRow, GitRemove, EndDeleting, CommitRemovals,
         PushRemovals, github
<1>2. ASSUME NEW r \in Repos, WipeDoomed(r) PROVE LiveInv(q)'
  <2>1. stage'[q] \in Doomed => stage[q] \in Doomed
    BY <1>2 DEF WipeDoomed, Move, Doomed, TypeOK
  <2>2. /\ dir'[NameOf[q]] \in {dir[NameOf[q]], NONE} /\ disk'[NameOf[q]] \in {disk[NameOf[q]], NONE}
        /\ UNCHANGED git /\ UNCHANGED db
    BY <1>2 DEF WipeDoomed, WipeFiles, TypeOK
  <2> QED
    BY <1>0, <1>1, <2>1, <2>2, StaysLive
<1>3. ASSUME NEW r \in Repos, DeleteRow(r) PROVE LiveInv(q)'
  <2>1. stage'[q] \in Doomed => stage[q] \in Doomed
    BY <1>3 DEF DeleteRow, Move, Doomed, TypeOK
  <2>2. db'[q] \in {db[q], 0} /\ UNCHANGED git /\ dir' = dir /\ disk' = disk
    BY <1>3 DEF DeleteRow, DeleteRepo, TypeOK, tree
  <2> QED
    BY <1>0, <1>1, <2>1, <2>2, StaysLive
<1>4. ASSUME NEW r \in Repos, GitRemove(r) PROVE LiveInv(q)'
  <2>1. stage'[q] \in Doomed => stage[q] \in Doomed
    BY <1>4 DEF GitRemove, Move, Doomed, TypeOK
  <2>2. /\ dir' = dir /\ db' = db /\ local' = local /\ remote' = remote
        /\ disk'[NameOf[q]] \in {disk[NameOf[q]], NONE}
        /\ index' = index \/ index' = [index EXCEPT ![NameOf[r]] = NONE]
    BY <1>4 DEF GitRemove, TypeOK
  <2>3. q \notin gone => q # r
    BY <1>0, <1>4 DEF LiveInv, GitRemove, Doomed
  <2>4. q # r => index'[NameOf[q]] = index[NameOf[q]]
    BY <2>2 DEF DistinctShortNames, TypeOK
  <2>5. /\ Ver(local, q)' = Ver(local, q) /\ Ver(remote, q)' = Ver(remote, q)
        /\ Ver(dir, q)' = Ver(dir, q) /\ q # r => Ver(index, q)' = Ver(index, q)
    BY <2>2, <2>4 DEF Ver
  <2>6. disk'[NameOf[q]] # NONE => Ver(disk, q)' # 0
    BY <1>0, <2>2 DEF LiveInv, Ver
  <2> QED
    BY <1>0, <1>1, <2>1, <2>2, <2>3, <2>5, <2>6 DEF LiveInv
<1>5. CASE EndDeleting
  <2>1. stage' = stage /\ UNCHANGED git /\ dir' = dir /\ disk' = disk /\ db' = db
    BY <1>5 DEF EndDeleting, tree
  <2> QED
    BY <1>0, <1>1, <2>1, StaysLive
<1>6. CASE CommitRemovals \/ PushRemovals
  <2>1. /\ stage' = stage /\ dir' = dir /\ disk' = disk /\ db' = db /\ index' = index
        /\ \/ local' \in {local, index} /\ remote' = remote
           \/ remote' \in {remote, local} /\ local' = local
    BY <1>6 DEF CommitRemovals, PushRemovals, PushMain, PushMainFails, tree
  <2>2. /\ Ver(dir, q)' = Ver(dir, q) /\ Ver(disk, q)' = Ver(disk, q)
        /\ Ver(index, q)' = Ver(index, q)
        /\ \/ Ver(local, q)' \in {Ver(local, q), Ver(index, q)} /\ Ver(remote, q)' = Ver(remote, q)
           \/ Ver(remote, q)' \in {Ver(remote, q), Ver(local, q)} /\ Ver(local, q)' = Ver(local, q)
    BY <2>1
  <2> QED
    BY <1>0, <1>1, <2>1, <2>2 DEF LiveInv
<1> QED
  BY <1>2, <1>3, <1>4, <1>5, <1>6 DEF DeletionStep

LEMMA BackupKeepsLive ==
  ASSUME DistinctShortNames, TypeOK, AllLive, BackupStep, NEW q \in Repos
  PROVE  LiveInv(q)'
<1>0. LiveInv(q)
  BY DEF AllLive
<1>1. UNCHANGED github /\ head' = head /\ onGitHub' = onGitHub /\ gone' = gone
  BY DEF BackupStep, HashUnknown, HashKnown, CleanupExistingRepo, CloneRepo, ArchiveRepo,
         NextBatch, EndCloning, Drop, StageAndCommitRepo, PushBackupRepo, UpsertRepo, github
<1>2. ASSUME NEW r \in Repos, NEW s \in Stages \ Doomed, Move(r, s)
      PROVE  stage'[q] \in Doomed => stage[q] \in Doomed
  BY <1>2 DEF Move, TypeOK
<1>3. ASSUME NEW r \in Repos, HashUnknown(r) \/ Drop(r) \/ CleanupExistingRepo(r) PROVE LiveInv(q)'
  <2>1. stage'[q] \in Doomed => stage[q] \in Doomed
    BY <1>3 DEF HashUnknown, Drop, CleanupExistingRepo, Move, Doomed, TypeOK
  <2>2. /\ dir'[NameOf[q]] \in {dir[NameOf[q]], NONE} /\ disk'[NameOf[q]] \in {disk[NameOf[q]], NONE}
        /\ UNCHANGED git /\ UNCHANGED <<db, hash>>
    BY <1>3 DEF HashUnknown, Drop, CleanupExistingRepo, WipeFiles, TypeOK, tree
  <2> QED
    BY <1>0, <1>1, <2>1, <2>2, StaysLive
<1>4. ASSUME NEW r \in Repos, HashKnown(r) PROVE LiveInv(q)'
  <2>1. stage'[q] \in Doomed => stage[q] \in Doomed
    BY <1>4 DEF HashKnown, Move, Doomed, TypeOK
  <2>2. /\ dir' = dir /\ disk' = disk /\ index' = index /\ local' = local /\ remote' = remote
        /\ db' = db
    BY <1>4 DEF HashKnown, tree, git
  <2>3. hash'[q] = IF q = r THEN head[q] ELSE hash[q]
    BY <1>4 DEF HashKnown, RemoteHeadHash, TypeOK
  <2>4. /\ Ver(dir, q)' = Ver(dir, q) /\ Ver(disk, q)' = Ver(disk, q)
        /\ Ver(index, q)' = Ver(index, q) /\ Ver(local, q)' = Ver(local, q)
        /\ Ver(remote, q)' = Ver(remote, q)
    BY <2>2
  <2> QED
    BY <1>0, <1>1, <2>1, <2>2, <2>3, <2>4 DEF LiveInv
<1>5. CASE NextBatch \/ EndCloning
  <2>1. stage'[q] \in {stage[q], "queued", "out"} /\ hash'[q] \in {hash[q], 0}
    BY <1>5 DEF NextBatch, ExitProcess, EndCloning
  <2>2. dir' = dir /\ disk' = disk /\ db' = db /\ UNCHANGED git
    BY <1>5 DEF NextBatch, EndCloning, tree
  <2>3. stage'[q] \in Doomed => stage[q] \in Doomed
    BY <2>1 DEF Doomed
  <2> QED
    BY <1>0, <1>1, <2>1, <2>2, <2>3, StaysLive
<1>6. ASSUME NEW r \in Repos, CloneRepo(r) PROVE LiveInv(q)'
  <2>1. stage'[q] \in Doomed => stage[q] \in Doomed
    BY <1>6 DEF CloneRepo, Move, Doomed, TypeOK
  <2>2. disk' = disk /\ db' = db /\ hash' = hash /\ UNCHANGED git
    BY <1>6 DEF CloneRepo
  <2>3. CASE dir' = dir
    BY <1>0, <1>1, <2>1, <2>2, <2>3, StaysLive
  <2>4. CASE dir' # dir
    <3>1. r \in onGitHub /\ dir' = [dir EXCEPT ![NameOf[r]] = [repo |-> r, ver |-> head[r]]]
      BY <1>6, <2>4 DEF CloneRepo
    <3>2. dir'[NameOf[q]] # NONE => Ver(dir, q)' # 0
      <4>1. CASE q = r
        <5>1. dir'[NameOf[q]] = [repo |-> r, ver |-> head[r]]
          BY <3>1, <4>1 DEF TypeOK
        <5>2. head[r] # 0
          BY <1>0, <3>1, <4>1 DEF LiveInv
        <5>3. Ver(dir, q)' = Version(dir'[NameOf[q]], q)
          BY DEF Ver
        <5>4. [repo |-> r, ver |-> head[r]] # NONE
          BY DEF Archive, TypeOK
        <5> QED
          BY <4>1, <5>1, <5>2, <5>3, <5>4 DEF Version
      <4>2. CASE q # r
        <5>1. dir'[NameOf[q]] = dir[NameOf[q]]
          BY <3>1, <4>2 DEF DistinctShortNames, TypeOK
        <5> QED
          BY <1>0, <5>1 DEF LiveInv, Ver
      <4> QED
        BY <4>1, <4>2
    <3>3. /\ Ver(disk, q)' = Ver(disk, q)
          /\ Ver(index, q)' = Ver(index, q) /\ Ver(local, q)' = Ver(local, q)
          /\ Ver(remote, q)' = Ver(remote, q)
      BY <2>2 DEF git
    <3> QED
      BY <1>0, <1>1, <2>1, <2>2, <3>2, <3>3 DEF LiveInv
  <2> QED
    BY <2>3, <2>4
<1>7. ASSUME NEW r \in Repos, ArchiveRepo(r) PROVE LiveInv(q)'
  <2>1. stage'[q] \in Doomed => stage[q] \in Doomed
    BY <1>7 DEF ArchiveRepo, Move, Doomed, TypeOK
  <2>2. db' = db /\ hash' = hash /\ UNCHANGED git
    BY <1>7 DEF ArchiveRepo
  <2>3. /\ dir'[NameOf[q]] \in {dir[NameOf[q]], NONE}
        /\ disk'[NameOf[q]] \in {disk[NameOf[q]], dir[NameOf[q]], NONE}
    <3>1. dir' = dir \/ dir' = [dir EXCEPT ![NameOf[r]] = NONE]
      BY <1>7 DEF ArchiveRepo, tree
    <3>2. disk' = disk \/ disk' = [disk EXCEPT ![NameOf[r]] = dir[NameOf[r]]]
      BY <1>7 DEF ArchiveRepo, tree
    <3>3. [disk EXCEPT ![NameOf[r]] = dir[NameOf[r]]][NameOf[q]] \in {disk[NameOf[q]], dir[NameOf[q]]}
      BY DEF TypeOK
    <3> QED
      BY <3>1, <3>2, <3>3 DEF TypeOK
  <2>4. dir'[NameOf[q]] # NONE => Ver(dir, q)' # 0
    BY <1>0, <2>3 DEF LiveInv, Ver
  <2>5. disk'[NameOf[q]] # NONE => Ver(disk, q)' # 0
    BY <1>0, <2>3 DEF LiveInv, Ver
  <2>6. /\ Ver(index, q)' = Ver(index, q) /\ Ver(local, q)' = Ver(local, q)
        /\ Ver(remote, q)' = Ver(remote, q)
    BY <2>2 DEF git
  <2> QED
    BY <1>0, <1>1, <2>1, <2>2, <2>4, <2>5, <2>6 DEF LiveInv
<1>8. ASSUME NEW r \in Repos, StageAndCommitRepo(r) PROVE LiveInv(q)'
  <2> DEFINE staged == [index EXCEPT ![NameOf[r]] = disk[NameOf[r]]]
  <2>1. stage'[q] \in Doomed => stage[q] \in Doomed
    BY <1>8 DEF StageAndCommitRepo, Move, Doomed, TypeOK
  <2>2. /\ dir' = dir /\ disk' = disk /\ remote' = remote /\ db' = db /\ hash' = hash
        /\ disk[NameOf[r]] # NONE
    BY <1>8 DEF StageAndCommitRepo, tree
  <2>3. \/ index' = staged /\ local' = staged
        \/ index' \in {index, staged} /\ local' = local
    BY <1>8 DEF StageAndCommitRepo
  <2>4. IF q = r THEN Ver(staged, q) # 0 ELSE Ver(staged, q) = Ver(index, q)
    <3>1. index \in [Names -> Slot] /\ NameOf[q] \in Names /\ NameOf[r] \in Names
      BY DEF TypeOK
    <3>2. CASE q = r
      <4>1. staged[NameOf[q]] = disk[NameOf[q]]
        BY <3>1, <3>2
      <4>2. Ver(disk, q) # 0
        BY <1>0, <2>2, <3>2 DEF LiveInv
      <4> HIDE DEF staged
      <4> QED
        BY <3>2, <4>1, <4>2 DEF Ver
    <3>3. CASE q # r
      <4>1. staged[NameOf[q]] = index[NameOf[q]]
        BY <3>1, <3>3 DEF DistinctShortNames
      <4> HIDE DEF staged
      <4> QED
        BY <3>3, <4>1 DEF Ver
    <3> QED
      BY <3>2, <3>3
  <2> HIDE DEF staged
  <2>5. /\ Ver(dir, q)' = Ver(dir, q) /\ Ver(disk, q)' = Ver(disk, q)
        /\ Ver(remote, q)' = Ver(remote, q)
        /\ \/ Ver(index, q)' = Ver(staged, q) /\ Ver(local, q)' = Ver(staged, q)
           \/ Ver(index, q)' \in {Ver(index, q), Ver(staged, q)} /\ Ver(local, q)' = Ver(local, q)
    BY <2>2, <2>3
  <2> QED
    BY <1>0, <1>1, <2>1, <2>2, <2>4, <2>5 DEF LiveInv
<1>9. ASSUME NEW r \in Repos, PushBackupRepo(r) PROVE LiveInv(q)'
  <2>1. stage'[q] \in Doomed => stage[q] \in Doomed
    BY <1>9 DEF PushBackupRepo, Move, Doomed, TypeOK
  <2>2. /\ dir' = dir /\ disk' = disk /\ db' = db /\ hash' = hash /\ index' = index
        /\ local' = local /\ remote' \in {remote, local}
    BY <1>9 DEF PushBackupRepo, PushMain, PushMainFails, tree
  <2>3. /\ Ver(dir, q)' = Ver(dir, q) /\ Ver(disk, q)' = Ver(disk, q)
        /\ Ver(index, q)' = Ver(index, q) /\ Ver(local, q)' = Ver(local, q)
        /\ Ver(remote, q)' \in {Ver(remote, q), Ver(local, q)}
    BY <2>2
  <2> QED
    BY <1>0, <1>1, <2>1, <2>2, <2>3 DEF LiveInv
<1>10. ASSUME NEW r \in Repos, UpsertRepo(r) PROVE LiveInv(q)'
  <2>1. stage'[q] \in Doomed => stage[q] \in Doomed
    BY <1>10 DEF UpsertRepo, Move, Doomed, TypeOK
  <2>2. /\ dir' = dir /\ disk' = disk /\ hash' = hash
        /\ index' = index /\ local' = local /\ remote' = remote
    BY <1>10 DEF UpsertRepo, tree, git
  <2>3. db'[q] \in {db[q], hash[q]}
    BY <1>10 DEF UpsertRepo, UpsertRow, TypeOK
  <2>4. /\ Ver(dir, q)' = Ver(dir, q) /\ Ver(disk, q)' = Ver(disk, q)
        /\ Ver(index, q)' = Ver(index, q) /\ Ver(local, q)' = Ver(local, q)
        /\ Ver(remote, q)' = Ver(remote, q)
    BY <2>2
  <2> QED
    BY <1>0, <1>1, <2>1, <2>2, <2>3, <2>4 DEF LiveInv
<1> QED
  BY <1>3, <1>4, <1>5, <1>6, <1>7, <1>8, <1>9, <1>10 DEF BackupStep

LEMMA LiveStep ==
  ASSUME DistinctShortNames, "partialListing" \notin Faults, TypeOK, AllLive, [Next]_vars
  PROVE  AllLive'
<1> SUFFICES ASSUME NEW q \in Repos PROVE LiveInv(q)'
  BY DEF AllLive
<1>1. CASE UNCHANGED vars \/ EmptyRun
  BY <1>1, StaysLive DEF vars, EmptyRun, AllLive, github, tree, control
<1>2. CASE GitHubStep
  BY <1>2, OwnersKeepLive
<1>3. CASE BeginRun \/ BeginPartial \/ BeginBlind
  <2>1. BeginRun \/ BeginBlind
    BY <1>3 DEF BeginPartial, Fault
  <2> QED
    BY <2>1, BeginKeepsLive DEF BeginRun, BeginBlind
<1>4. CASE DeletionStep
  BY <1>4, DeletionKeepsLive
<1>5. CASE BackupStep
  BY <1>5, BackupKeepsLive
<1>6. CASE Crash
  <2>1. /\ stage'[q] = "out" /\ hash'[q] = 0 /\ UNCHANGED git /\ db' = db /\ dir' = dir
        /\ disk' = disk /\ head' = head /\ onGitHub' = onGitHub /\ gone' = gone
    BY <1>6 DEF Crash, ExitProcess, github, tree
  <2>2. stage'[q] \in Doomed => stage[q] \in Doomed
    BY <2>1 DEF Doomed
  <2> QED
    BY <2>1, <2>2, StaysLive DEF AllLive
<1> QED
  BY <1>1, <1>2, <1>3, <1>4, <1>5, <1>6 DEF Next, RunStep

\* The remote changes by a push of the local branch only, whatever rows can be deleted.
LEMMA RemoteChanges ==
  ASSUME [Next]_vars
  PROVE  remote' \in {remote, local}
<1>1. CASE UNCHANGED vars \/ EmptyRun
  BY <1>1 DEF vars, EmptyRun, git
<1>2. CASE GitHubStep
  BY <1>2 DEF GitHubStep, OwnerPush, OwnerDelete, OwnerCreate, git
<1>3. CASE BeginRun \/ BeginPartial \/ BeginBlind
  BY <1>3 DEF BeginRun, BeginPartial, BeginBlind, Begin, git
<1>4. CASE DeletionStep
  BY <1>4 DEF DeletionStep, WipeDoomed, DeleteRow, GitRemove, EndDeleting, CommitRemovals,
              PushRemovals, PushMain, PushMainFails, git
<1>5. CASE BackupStep
  BY <1>5 DEF BackupStep, HashUnknown, HashKnown, CleanupExistingRepo, CloneRepo, ArchiveRepo,
              NextBatch, EndCloning, Drop, StageAndCommitRepo, PushBackupRepo, UpsertRepo,
              PushMain, PushMainFails, git
<1>6. CASE Crash
  BY <1>6 DEF Crash, git
<1> QED
  BY <1>1, <1>2, <1>3, <1>4, <1>5, <1>6 DEF Next, RunStep

\* When short names are distinct and the listing of GitHub is complete, no push takes the
\* archive of a repository away that was never gone, also when rows cannot be deleted, and
\* through every failure and crash that leaves commits behind for a later push.
THEOREM LiveArchivesSurvive ==
  ASSUME DistinctShortNames, "partialListing" \notin Faults
  PROVE  Spec => KeepsLiveArchives
<1>1. Init => AllLive
  BY DEF Init, AllLive, LiveInv, Ver, Version, Doomed
<1>2. TypeOK /\ AllLive /\ [Next]_vars => AllLive'
  BY LiveStep
<1>3. ASSUME TypeOK, AllLive, [Next]_vars
      PROVE  [\A r \in Repos \ gone : ArchivedVersion(r) # 0 => ArchivedVersion(r)' # 0]_vars
  <2> SUFFICES ASSUME NEW r \in Repos \ gone, ArchivedVersion(r) # 0
               PROVE  ArchivedVersion(r)' # 0
    OBVIOUS
  <2>1. remote' \in {remote, local}
    BY <1>3, RemoteChanges
  <2>2. LiveInv(r) /\ ArchivedVersion(r) = Ver(remote, r)
    BY <1>3 DEF AllLive, ArchivedVersion, Ver
  <2>3. ArchivedVersion(r)' \in {Ver(remote, r), Ver(local, r)}
    BY <2>1 DEF ArchivedVersion, Ver
  <2> QED
    BY <2>2, <2>3 DEF LiveInv
<1> QED
  BY <1>1, <1>2, <1>3, TypeCorrect, PTL DEF Spec, KeepsLiveArchives
=============================================================================
