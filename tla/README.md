# Verification of the GitHub backup automation system

This directory holds TLA+ models of the system in this repository, the TLC
configurations that check them on small instances, and proofs that TLAPS checks
for every instance. Definitions are named after the functions they model;
`PROJECT.json` gives the source lines of each.

## 1. The system

| Part | State it keeps | Operations | Interacts with |
|------|----------------|------------|----------------|
| **backup-worker** (Go, one process per run, started by a scheduler) | `app.db` (SQLite: a row with the last backed-up HEAD hash per repository), `_Repos/` (clone directories, archives, a git working copy of the central backup repository) | `RunBackupFlow`: list repositories, prune, hash-check, clone + archive in batches, commit + push + record one by one, sync `app.db` | GitHub API, `git` and `sh` processes, the central backup repository, PostgreSQL through the run monitor |
| **run monitor** (in the worker) | `backup_runs`, `backup_results`, `execution_logs` in PostgreSQL | `StartRun`, `UpdateProgress`, `LogRepoResult`, `CompleteRun`, `Log` | the backend reads and repairs the same tables |
| **backend** (Go, HTTP) | the PostgreSQL schema, WebSocket clients, embedding generations, jobs and checkpoints | REST handlers, `FinalizeStaleRunningRuns`, the log hub, the embedding job queue, the migrator, the embedding client with its key pool | worker (tables), observatory (HTTP and tables), frontend |
| **agentic-observatory** (Python, FastAPI) | investigations, sessions, embedding generations and jobs in PostgreSQL; confirmations, key pools and metrics in memory | agent loop with tool calls and confirmations, SSE streaming, embedding pipeline, reports | backend, OpenRouter, frontend |
| **frontend** (Next.js) | one tab's view state, hooks, the local storage | pages over the two APIs: chat, embeddings, account and sidebar, backup runs, live log, tools, telemetry, search | backend, observatory |
| **scripts, git hooks, workflows** | - | developer tooling | - |

### Where it is hard

* *Worker.* The row in `app.db` is what lets every later run skip a repository,
  so it must never be ahead of the central repository. Between the hash check
  and the recording lie minutes, a clone, an archive, a commit and a push, each
  of which may fail; owners push, delete and recreate repositories meanwhile;
  the process may be killed anywhere; a commit whose push failed stays on the
  local branch and is published by somebody else's push. Clones run in
  parallel in one shared directory.
* *Runs.* The worker writes a run's status from one process while the backend
  decides from another, by a time limit, that the run is dead.
* *Log hub.* A poller turns table rows into broadcasts, with clients coming,
  going and falling behind.
* *Several machines.* `app.db` travels through the root repository, `_Repos/`
  does not.
* *Embeddings.* Jobs are claimed, reclaimed, retried and cancelled by several
  workers and two code bases; a generation must be complete when it goes live.
* *Agent.* A stream waits for confirmations that arrive on another request; key
  pools rotate while calls are in flight.
* *Pages.* No request of the frontend is ever cancelled and hardly one is told
  from another, so handlers overlap: two streams write one feed, a load answers
  after the question it does not know of, two loops process one index, a list
  read before a deletion arrives after it, a component is gone when its answer
  comes.

What would be wrong is listed line by line under `hazards` in `PROJECT.json`.

## 2. Plan

In this order, the most important behaviour first. Done:

1. `BackupPromise`, `BackupWorker`: the worker's run; `BackupWorker_proofs`.
2. `RunMonitor`: the worker's monitor against the backend's finalizer;
   `RunMonitor_proofs`.
3. `LogHub`: the log stream; `LogHub_proofs`.
4. `ChatConsole`: the chat page with the agent's streams, tool rounds and
   confirmations; `ChatConsole_proofs`.
5. `IndexPage`: the embeddings page with the agent's embedding pipeline;
   `IndexPage_proofs`.
6. `Account`, `RunsPage`, `ModelMenu`, `LiveFeed`, `ToolBench`, `ToolStats`,
   `SearchBench`, composed by `Tab`: the other pages with state of their own;
   `Tab_proofs`, `TabTypes_proofs`.

Left, in this order:

7. Abstract specifications that `LogHub` (a queue per browser) and `IndexPage`
   (a lease per job) implement, and the proofs of it.
8. `MachineSync`: several machines that share `app.db` through the root
   repository but not `_Repos/`; `RetryCommand`; `RepoListing`.
9. The backend's own embedding jobs, its migrator, and the two key pools.

Abstract specifications: the promise of the worker (done). Theorems: type
correctness and the central safety invariant of each module, and refinement
where there is an abstract specification. The runs stay few: per component one
that takes everything together and one for each behaviour where code and
documentation disagree.

## 3. `BackupWorker` and `BackupPromise`

`BackupPromise` says in two variables what somebody who restores a backup
relies on: a row of `app.db` (`recorded`) is never ahead of the archive in the
central repository (`archived`), an archive that a row vouches for is only
replaced by a newer one, and rows are written after the archives.

`BackupWorker` is one machine, run after run.

| State | Code |
|-------|------|
| `head`, `commits`, `onGitHub` | the source repositories; a version is a place in the history of a HEAD, and `commits[r][v]` is the commit it names there. HEAD may come back to a commit it has named before (a forced push, another default branch, a repository created again with its old history) |
| `db` | `repos.latest_commit_hash` (0: no row), as the version at which it was read. The code has the commit only, and the comparison of hashes (`Unchanged`) compares commits; the version is there for the properties to say what is newer |
| `dir`, `disk` | `_Repos/<name>` and `_Repos/<name>.tar.gz`, by short name as in the code |
| `index`, `local`, `remote` | the working copy's index, its `main`, and `main` of the central repository |
| `pc`, `stage`, `hash` | where `ProcessRepos` is, how far each repository is, `CurrentHash` of phase 1 |

Actions follow the functions of `process.service.go` in the order of the calls:
`BeginRun`/`BeginPartial`/`BeginBlind` (`GetAllRepos`, `GetAllReposFromDB`),
`WipeDoomed`, `DeleteRow`, `EndDeleting`, `GitRemove`, `CommitRemovals`,
`PushRemovals` (`processDeletedRepos`), `HashUnknown`/`HashKnown`
(`parallelHashCheck`), `NextBatch`, `CleanupExistingRepo`, `CloneRepo`,
`ArchiveRepo`, `EndCloning` (`parallelCloneAndArchive`; each of the three per
repository is a step, so the goroutines of a batch interleave),
`Drop`, `StageAndCommitRepo`, `PushBackupRepo`, `UpsertRepo` (the serial part).
Every external command can fail, a failed `git push` may have reached the
remote, and `Crash` may come anywhere. `OwnerPush`, `OwnerDelete` and
`OwnerCreate` happen between any two steps.

Abstracted: the contents of repositories and archives (a repository and a
version), commit messages, the retries inside a command (a fault is what is left
after them), and the size limit (a set of archives that are above it). A `git
push` publishes the local branch as a whole; nobody else pushes archives to the
central repository here.

What is checked:

* `RecordedIsBackedUp`: the row is never ahead of the remote. It takes a failed
  push, a commit that stays on the local branch and a later push of some other
  repository, or a HEAD that moves between hash check and clone, to endanger it.
* `KeepsItsPromise`: the worker implements `BackupPromise`.
* `KeepsLiveArchives`: with complete listings, no push takes away the archive
  of a repository that was there all the time.
* `EventuallyBackedUp`: once failures and owners stop, every repository that
  fits has the commit of its HEAD recorded and archived, and keeps it. Owners
  stop because versions are bounded, failures because `MaxFaults` bounds them.
  One case is excepted, because the code does not do better: HEAD names commit 1
  when its hash is read, commit 2 when the repository is cloned, and then commit
  1 again. Commit 1 is recorded, commit 2 is archived, and every later run skips
  the repository as unchanged (`process.service.go:279`). TLC finds this
  behaviour as soon as the exception (`db[r] < v /\ v < head[r]`) is taken out.

Bounds: two repositories (one can be pruned, broken or pushed while the other is
half way), two versions each (one between hash check and clone, or one before
and one after re-creation) or three of one and one of the other (HEAD leaves a
commit after the hash check and comes back after the clone), batches of one and
of two, one archive that is too large, one or two faults of any kind. `faults` and `MaxVersion` are the only
bounds of the behaviour; runs are repeated without limit.

Fairness: a started run goes on, and the next one is started. The worker is a
scheduled job (`docs/ARCHITECTURE.md:84` "Scheduled Cron Runner",
`backup-worker/database/schema.database.go:8` "because there will be a new
run"). Nothing is assumed of owners, and not every repository gets its turn by
assumption: weak fairness is on the run as a whole.

Where the code does something else than its words, each shown by a run:

* `backup_same_name`: archives carry the short name only. `owner1/site` and
  `owner2/site` overwrite each other, and both are then skipped as unchanged.
* `backup_partial`: if a page of the private listing fails after the first, the
  loop breaks, and everything on the later pages is pruned as deleted.

And, visible in the model but without a run of their own: a repository whose
`ls-remote` failed is pushed without a row, so once it is deleted nobody prunes
its archive; a row whose `DELETE` failed loses its archive all the same, and if
the repository is listed again it is skipped as unchanged.

## 4. `RunMonitor`

The table `backup_runs` between the worker (`StartRun`, `HashChecked`,
`UpdateProgress`, `CompleteRun`, `CompleteRunError`, `GenerateAnalytics`,
`Crash`) and the requests of the backend (`FindRunning`, `JudgeStale`,
`FinalizeRun`, `FinalizeError`: the statements of `FinalizeStaleRunningRuns`,
which requests execute concurrently). A statement may be lost with an error
that is only logged. Time is what the finalizer asks of it: `aged` (started at
least 30 minutes ago) and `silent` (no log line since).

`deceived` is a history variable: the runs whose log lines were lost or could
not be read, or whose worker waited longer than the threshold. The finalizer
must leave all others alone:

* `FinalizesOnlyTheDead`: the row of a worker at work stays running, unless
  deceived.
* `FailedStaysFailed`: the finalizer writes "completed" by id without looking at
  the status again; a run that its worker completes as failed in between keeps
  its status.
* `ProgressOnlyGrows`: counters never shrink and never exceed the total, though
  any statement between may be lost.
* `EventuallyNotRunning`: no row is running for ever, also not one that is
  hidden behind a newer one, whose completion was lost or whose worker died.

One worker, run after run, with two requests, two rows, one repository per run
and one fault (loss of log lines and silence are not counted as faults and may
always happen). A second worker adds nothing: workers touch their own rows only,
and a dead run behind a live one arises from a crash and a new start.
One timing fact is assumed: a request takes seconds (its context ends after 15)
and the threshold is 30 minutes, so a run that was completed while a request is
busy with it does not fall silent under that request. Fairness: workers go on,
the dashboard is polled, time passes.

`runs_slow` shows that a live run can be finalized: five attempts of twenty
minutes each may pass in one `git clone` or `git push` without a log line, and
the comment at the threshold takes silence for death. The same happens when the
query for the newest log line fails, since its error is dropped
(`run_status.db.go:34`). A run whose `INSERT` failed goes on with id 0, and its
snapshot, with a pointer to 0, is refused by the foreign key.

## 5. `LogHub`

Writers insert rows (an id is taken from the sequence at `Insert`, visible at
`Commit`, used up at `Rollback`), browsers `Register`, `Unregister` and `Stall`
(a write runs into its deadline), and the poller goes through `Tick`,
`CountClients`, `QueryPage`, `Broadcast` and `EndPage`, with `Stop`/`Stopped`.
`got[c]` is what browser `c` has received, `before[c]` which logs are older
than its connection or the hub's first tick.

* `InOrder`: nothing is received twice or out of order, over reconnects, failed
  queries and pages that break off while slow clients are written to.
* `NothingSkipped`: the cursor does not pass a log that a connected browser has
  not received.
* `EventuallyDelivered`: and every such log arrives.

Two writers, one browser that connects up to three times, pages of two, up to
five logs of which one is older than the hub, and two faults: a page can be
full, broken off in the middle and read again while a third connection begins.
Browsers do not influence each other except through the question whether there
are any; the proofs hold for any number. Fairness: the ticker (two seconds) and
the loop go on; browsers and writers may stop for ever.

`hub_late`: ids are handed out before commits. If a larger id commits first and
is read, the smaller one is never broadcast (`LateCommits = TRUE`; every other
run and theorem about completeness assumes commits in the order of ids). Also in
the code, without a run: if the very first query fails the cursor stays at 0 and
the whole table is broadcast as live logs; a browser that connects before the
first tick misses the logs up to it; a client whose write timed out stays
registered and gets nothing more.

## 6. `ChatConsole`

One tab's chat page, and the agent behind it.

| State | Code |
|-------|------|
| `route`, `active`, `signedIn` | the path, `activeSessionId`, the token |
| `feed` | `messages`: each with its turn, its role, whether it is the copy made on sending or the stored one, its text, `streaming`, and the tools shown as running or ended |
| `asks[t]` | the call of `handleSendMessage` for question `t`: creating the session, connecting, reading; `here` is false once the page it was asked on is gone |
| `loads`, `removing`, `drops`, `posts` | requests for stored messages, deletions whose animation runs, deletions and confirmations under way |
| `gen[t]`, `link[t]`, `wire[t]` | the agent's generator for question `t`, its connection, and what it has written and the page not yet read |
| `registry`, `responses`, `fired` | `active_confirmations` (numbered as they are made, so its first entry is the least), `active_responses`, the events that are set |
| `modal`, `approved`, `mailed` | the confirmation shown; history: what the user said yes to, what was mailed |

`Ask`, `AskNew`, `CreateSucceeds`/`CreateFails`, `Connect`/`ConnectFails`,
`Read`, `ReadEnds`, `ReadFails`, `Confirm`, `ClickDelete`, `FinishDelete`,
`Visit`, `Reload`, `Logout`, `Login` are the page; `LlmAnswers`, `LlmGivesUp`,
`LlmCallsTools`, `StartCall`, `Resume`, `TimeOut`, `EndRound`, `Save`, `Cancel`
are the agent, whose tool calls of one round run concurrently; `LinkCut` and
`Restart` are the trouble between them.

* `FeedInTurns`: no message twice, every question directly followed by its
  answer. `deleteMessage` relies on it: it takes the next message along.
* `MessagesStay`: a message leaves a page that shows it only by deletion.
  `useChat.loadMessages` merges for this.
* `MailsWithinApprovals`: never more mails than approvals, though the mail tool
  waits for whichever confirmation was registered first.
* `ShownToolsRun`: a tool shown as running is one the agent is at, or its end is
  under way, and never stands next to a complete answer. A connection that was
  cut is excepted: an error replaces the text and an end without `done` nothing,
  and in both cases the tools stay shown as running until the page is left
  (`useStreamingAgent.ts:164`). That is what the code does, and no property says
  that it would not.
* `ComposerReturns`: `sending` is reset whatever breaks.

`chat_mail` shows that an approval is not tied to its mail: `_run_stream_tool`
takes the first entry of `active_confirmations`. Two mails in one answer, one
confirmation that times out, and a second question are enough for a report
nobody agreed to.

Bounds: one old question and two new ones (both may be asked from a new chat,
before either session exists), one tool round each with one mail (`chat_mail`:
two mails, two questions), and four events, where a question counts as two: a
question and two troubles, or two questions. Fairness: a handler and the agent's
generator go on; a model answers, a call ends by itself or by its timeout. An
answer to a confirmation, a load or a deletion may stay away for ever.

## 7. `IndexPage`

The embeddings page with `poll`, the auto-processing loop and the five buttons;
`embedding_generations` and `embedding_jobs` behind it; and the source records,
which are stored and deleted by everybody else (`RecordAppears`,
`RecordDeleted`). A call of the page is followed through the server's
statements: `CleanUp`, `Look`, `Insert`, `Scan`, `Enqueue` (a start), `Claim`,
`LookUp`, `FoundNone`, `Count`, `Commit` (a batch), `Activate`. Another client
starts, prunes and deletes; `FiveMinutes` makes every claim there is stale;
`Restart` stops the agent.

* `Scan` reads the records there are, `Enqueue` adds a job for each that has
  none and sets `total_items` to the number of records found. Jobs of records
  that were deleted stay, so the total can be below the number of jobs.
* A batch keeps its claimed jobs in `todo` until `LookUp` has asked for their
  records, then in `found` or, if the record is not there, in `gone`. A job that
  goes to `gone` is failed at once, in its own transaction (`_fail_job`), and may
  be claimed by another batch while this one goes on. If the API then fails, the
  batch writes all its jobs again, those in `gone` too (`Writes`).
* `locks` is the order in which transactions wait for a generation's row;
  `LockedJobs` are the jobs they have written, which a claim skips.
* `complete`, `built` and `recounted` are history: the generations that had all
  jobs completed, that had as many completed as their total, and whose total was
  set below the number of jobs.

The properties:

* `OneHolder`: while a batch embeds a record, no other embeds it or is going to,
  unless a batch outlived its claim of five minutes. Two batches may have a job
  whose record is gone; the failure of one can then overwrite the claim of the
  other, which can only fail as well.
* `NeverOverstated`: the stored number of completed jobs is not too high.
* `ActivatesOnlyBuilt`: what is activated had, at some time, as many jobs
  completed as the last scan had found records, and these were all its jobs
  unless a scan had found fewer records than there were jobs; however old the
  status was from which the page offered it.
* `AutoEnds`: the auto-processing stops by itself, also when every job fails and
  two loops run side by side.
* `PageCatchesUp`: a page that shows a generation as being built notices that it
  is not any more.

`outlived` excuses the first three: a batch that takes more than five minutes
may be taken over and still write its outcome, which the code does nothing
against. `recounted` excuses half of the third, for the reason in section 9.

Abstracted: all source tables are read at once, and each record has one chunk; a
record whose content became empty counts as deleted (its job fails the same
way); a transaction locks the jobs it writes in one step, with its count; no
batch takes an hour, so that `prune_stale_generations` deletes no failed job of
a batch under way.

Bounds: two models, two records, batches of one and two, two attempts per job,
two generations, two calls at once (a loop and a second loop, a batch, a poll or
another client), three events, records coming and going among them. `Records`
says what had become of the records when the tab opens: both there, one deleted
since the scan, or one still to come; so a failing job or a recount costs no
event, and a deletion in between costs one. Two records and batches of one are
the least at which two batches can overlap and a job can be left over; more
attempts repeat the second. TLC visits 969,344 states. Fairness: calls go on and
the timer of the poll fires; nothing is assumed of users and other clients.

## 8. The pages of `Tab`

`Tab` is a tab on one of seven pages. The pages share nothing but what each
module itself has of the account and the local storage, so a behaviour stays
with its page; one run checks them all.

| Module | Page, and its hooks | What is checked |
|--------|---------------------|-----------------|
| `Account` | `useAuth`, `useSessions` and the sidebar: validation, login, sign-out, list, create, rename, delete | `QuietListRight`: once nothing is under way the list is the agent's, roll-backs included; `DeletingEnds` |
| `RunsPage` | table, pagination, the two dialogs, creating a fix | `LoggedOnce`: only reads are retried; `SubmittingEnds` |
| `ModelMenu` | `useModels` and the menu over several visits | `SelectedOffered`; `ChoiceReplaced`: a late answer does not undo a choice |
| `LiveFeed` | the first request, the socket, its reconnects, the feed | `OneSocket`, `FeedKeysUnique`, `TriesAnew` |
| `ToolBench` | loads, selection, arguments, execution | `ResultIsLatest` |
| `ToolStats` | loads of two requests each, filters | `OneLoadShown` |
| `SearchBench` | settings, searches, the panel, the login form | `LatestSearch` |

`PagesSettle` says of the last three that loading, refreshing, executing and
searching end. A call is in flight from the click to the handler's last
statement and may be answered, refused, or lost at any time and in any order; it
carries the token that its closure captured.

`RunsPage` counts the first page among the pages also when no run has failed,
because the user begins there.

Bounds, per page: two sessions, two calls started and one lost (a deletion
beside another change); three failed runs on two pages, two submissions, two
page visits, two failures, one retry; two models, one of which a search finds,
two visits; a buffer and a request of two logs, four logs, two visits (the feed
overflows and the page is opened again while the last socket closes); two lists
of tools, two loads, two executions; two rerankers, two searches, two logins;
two tools, two overlapping loads. Two of a kind are what an overlap takes.
`Submits = TRUE` is the browser that submits a form that has just been removed;
without it no fix can be created at all. Fairness: calls are answered or fail,
timers fire, and a closed socket has its close event. Nothing is assumed of
users, and a call is not assumed to succeed.

### False of this code, and therefore not stated

The models of sections 6 to 8 have the following behaviours; no document of the
repository says otherwise.

* *Embeddings.* Activating a generation that another client has deleted finds no
  row and deletes all others. Of two batches that count at the same time the
  later overwrites the number with one that is too low, and since a batch
  without jobs returns early nothing corrects it: the page then never offers the
  activation. A loop that was left behind goes on beside its successor. An old
  ACTIVE shown over a newer BUILDING stops the polling. A generation can be
  activated while jobs of it are open: a start scans again, after records were
  deleted, and sets the total to fewer than there are jobs; the page compares the
  number of completed jobs with it, which are not those of the same records.
* *Account.* A list that was read before a deletion brings the row back; `astray`
  marks such a list until a clean one arrives, which nothing triggers. A
  validation that is answered after a login replaces the new token or clears the
  storage; a 401 for a call of the old session signs out the new one. The
  session override of `/ai` is cleared only when the dashboard mounts.
* *Backup runs.* Both dialogs lie inside the button that is their backdrop and no
  click is stopped, so a click on anything closes them: the edit form cannot be
  reached (and `PUT /backup-fixes/{id}` has no route on the server), no other run
  stays ticked, and the form is gone before the browser submits it. The answer to
  a creation closes whichever create dialog is open by then and reads the page
  the user was on when submitting. An error hides table and pagination
  until the page is left.
* *Models, tools.* `useModels` and the loads of the tools page turn an error into
  an empty list, so the panels with a Retry are never shown.
* *Live log.* The first rows come newest first and the socket appends; a log may
  be there twice.
* *Search.* "No results found" is shown for a query that was typed and never
  searched.
* *Telemetry.* Of two loads the one that ends last is shown, also if it is the
  older.
* *Chat.* A stream that ends without `done` leaves its message streaming, with
  its tools running.

## 9. Runs

| Run | Shows |
|-----|-------|
| `backup_live` | types, `RecordedIsBackedUp`, refinement and liveness under every failure but a failing `DELETE` |
| `backup_keeps` | `KeepsLiveArchives`, two failures, complete listings |
| `backup_same_name`, `backup_partial` | the two disagreements of section 3 |
| `runs_live` | everything about runs at once |
| `runs_slow` | a live run is finalized |
| `hub_stream` | everything about the stream at once |
| `hub_late` | a late commit is skipped |
| `chat_feed` | everything about the chat at once |
| `chat_mail` | a mail that nobody approved |
| `index` | everything about the embeddings page and pipeline at once |
| `tab` | the other seven pages |

`CHECK_DEADLOCK FALSE` stands where the bounds on rows, logs, connections,
events and clicks let the instance come to rest. Each passing property is also
broken on purpose: the definitions marked "Seeded bug" are the code with a
plausible mistake, and under them TLC refutes the property.

## 10. Proofs

TLAPS checks, for all values of the constants that satisfy the named assumptions
of each module:

* `BackupWorker_proofs`: `TypeCorrect`; `RecordedNeverAhead`; `ImplementsPromise`;
  `LiveArchivesSurvive`. The middle two assume `DistinctShortNames` and that rows can be deleted
  (`"dbDelete"` is not among the faults), and no more: listings may be cut short
  and everything else may fail any number of times. Without either assumption
  the properties are false, as section 3 says.
  The argument: `RecordedIsBackedUp` is not inductive, since a push publishes
  the local branch. `BackupInv` (in `BackupWorker`) adds, per repository, that
  nothing is newer than HEAD (`BoundedByHead`), that the index may replace the
  local branch and both may replace the remote without taking away or ageing a
  recorded archive (`TreesInOrder`), and that a copy on its way through clone,
  archive and commit is at least as new as the hash of this run and as every
  tree (`StageInOrder`, `Fresh`). Each action is shown to preserve it by a lemma
  about one repository's trees and stage; the refinement step then reads off it
  that a push is a `Publish`, an upsert a `Record`, a deletion a `Forget`, and
  everything else a stutter.
  `LiveArchivesSurvive` (`KeepsLiveArchives`) assumes `DistinctShortNames` and
  complete listings (`"partialListing"` is not among the faults), and section 3
  shows what happens without either; deletions of rows may fail. Its own
  invariant, `LiveInv`, is not about versions but about presence: a repository
  that was never gone is on GitHub once it has a first version, so a complete
  listing never dooms it; and what the remote holds of it the local branch holds,
  and what that holds the index holds, so neither a removal of others nor the
  push of a commit that was left behind takes it away.
* `LogHub_proofs`: `TypeCorrect`, `DeliversInOrder` (under any order of
  commits) and `SkipsNothing` (if commits come in the order of ids). The
  invariant relates the page to the cursor (`PageBehind`, `PageComplete`), what
  was received to the cursor (`ReceivedBefore`), and inserts under way to the
  logs there are (`CommitOrder`).
* `RunMonitor_proofs`: `TypeCorrect`, `OnlyTheDead`, `FailedForGood`,
  `CountersGrow`, from no assumption but those on the constants. `MonitorInv`
  says of a worker that it owns its row alone, that the row's counters are not
  ahead of its own, that it has not fallen silent undeceived, and that the row is
  running while it works; of a request, that a row it judged stale belongs to no
  live worker or has deceived, and has not failed since it was found. All steps
  of a process are brought to one form (`OwnStep`), for which the invariant is
  proved once.
* `Subsequences_proofs`: what the subsequence of a sequence at a set of
  positions is (`Kept`, the form in which the models write a JavaScript `filter`
  or `splice`): its length, its order, where each element comes from, and that
  deleting whole pairs leaves whole pairs. The prover cannot instantiate the
  library's induction theorems, but these facts are by induction on the length.
  `Smallest` gets the least element of a set of numbers from the library's
  theorem that strict inclusion of finite sets is well founded, applied to the
  intervals `0..k`; `Induction` follows for sets of numbers, and each inductive
  fact about `Kept` is stated as the set of lengths for which it holds.
* `ChatConsole_proofs`, from no assumption but those on the constants:
  * `TypeCorrect`.
  * `MailsNeedApprovals` (`MailsWithinApprovals`): a count of mails says nothing
    of where they come from. `MailInv` adds that a recorded yes is of an approved
    confirmation that is still in the registry (`Unused`), and that each mail
    used up one approved confirmation, which has left it (`Spent`); confirmations
    are known only after they were made, so none is approved in advance
    (`Minted`).
  * `FeedStaysInTurns`: `FeedInv` adds that no identifier occurs twice (`Apart`),
    that what is being deleted is whole turns (`RemovingTurns`), that local
    messages are of questions this page sent (`Ours`), of which the server knew
    nothing before (`Early`), and that stored turns and the answers to loads list
    a turn once (`SavedOnce`): the merge of `loadMessages` puts stored turns
    before local ones, and only this keeps one turn from entering twice.
  * `MessagesNeverLost` (`MessagesStay`), an action property, from `FeedInv`.
  * `ShownToolsAreLive` (`ShownToolsRun`): `Goes` follows an answer through
    its stream. As long as the connection is open, the tools shown as running are
    those of the server's round, and the event that ends them comes before the
    one that completes the answer.
* `IndexPage_proofs`, from no assumption but those on the constants, on one
  invariant, `IndexInv`:
  * `IndexTypes`, `ClaimsAreExclusive` (`OneHolder`), `ProgressIsReal`
    (`NeverOverstated`), `OnlyBuiltIsActivated` (`ActivatesOnlyBuilt`).
  * `Holding`: in a generation in use of which no batch outlived its claim, a
    record that a call embeds, or is going to embed because it is not deleted,
    has a job that is being processed and that no other call has; a job that a
    call has at all is not completed. The second part holds also of jobs whose
    record is gone, and is what keeps the late failure of such a job from taking
    away a success.
  * `Known`, `Recorded`: calls and jobs are of records that have come, so a
    deleted record never returns to a job; all jobs completed is remembered, and
    so is a total below the number of jobs.
  * `Locked`: those in the queue for the row locks are exactly the calls that
    have counted. `Counted`: a batch counts what is completed before it waits for
    the row that it stores the count in, so between the two others may store
    theirs; the count is not too high because, while no claim was outlived, no
    other batch embeds what it counted. `Progress` says the same of what is
    stored, and that full progress was earned.
  * `Full` carries what was earned (`Won`) through the status that an answer
    brings, that the page shows and that a click offers, and `Sound` through the
    call which that click makes.
* `Tab_proofs`: the invariants of all seven pages, from no assumption but those
  on the constants. A page does not touch another's state, so its invariant is
  proved for its own steps and carried over to the tab by `TabSteps`.
  * `OneConnection`, `KeysApart`: sockets that connect or are open, sockets that
    close and timers are at most one together; all keys in the feed are behind
    the sequence that the next one is taken from.
  * `FixesLoggedOnce`: every submission has at most one request under way
    (`Numbered`), and those whose creation is not served yet (`Pending`) count
    together with the fixes there are; a read, which is what gets retried, is
    never counted.
  * `OnlyOffered`: as long as this visit's request is under way, the page has
    neither models nor a choice.
  * `LatestResult`, `LatestOutcome`: at most one execution or search is under
    way, and it is the latest.
  * `OneLoad`: inductive as it stands.
  * `QuietList`: a session on which the list and the agent differ has a list or
    a change under way that excuses the difference (`Agree`, `Excused`); a
    session whose deletion is under way is hidden (`Hidden`), and one whose
    deletion was served is gone unless it was created since (`Removed`). Each
    handler is shown to keep this by the one or two calls it adds or takes.
* `TabTypes_proofs`, from no assumption but those on the constants:
  * `TabWellFormed` (`TabTypeOK`). The types of four pages are not inductive
    alone. On `RunsPage` an answered read is a page's rows, and the create dialog
    is open only over a table; on `LiveFeed` the key counters are numbers and the
    feed exceeds its buffer by one log at the most, but for an answer that was
    longer; on `SearchBench` the rerankers are asked for while there are none;
    on `ToolStats` no tool was used more often than there were calls.
  * `ChoiceStays` (`ChoiceReplaced`), an action property: the remembered choice
    changes only by another choice, or when a visit was offered models without it.

Every property of a passing run that is an invariant or an action property is
thereby proved. Only model-checked are the liveness properties
(`EventuallyBackedUp`, `EventuallyNotRunning`, `EventuallyDelivered`,
`ComposerReturns`, `AutoEnds`, `PageCatchesUp`, `DeletingEnds`, `SubmittingEnds`,
`TriesAnew`, `PagesSettle`): the prover handles neither fairness arguments over
data nor ENABLED. The runs that end in a violation show a behaviour and have
nothing to prove; where a theorem assumes away what they rely on, it says so.

## 11. Not modelled

See `components` in `PROJECT.json`. Left out for good:

* REST handlers that turn SQL reads into JSON, metrics and logging,
  configuration, and the failure log (an append-only table nobody reads back to
  decide anything);
* the rendering of messages and reports, charts and tables: pure functions of
  the state the pages have;
* the home and analytics pages, which the server renders from one set of reads
  and which keep no state;
* of the pages that are modelled, what decides nothing: collapsing and resizing,
  the folders of the sidebar, copy buttons, the choice of a page size (a page
  visit like another), the weights and source types of a search, and the edit
  form of a fix, which cannot be reached;
* developer scripts, hooks and workflows.

The rest (several machines, retried commands, the paged listing, the backend's
own embedding jobs, the migrator, the key pools) is in the plan above.
