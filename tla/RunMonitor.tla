----------------------------- MODULE RunMonitor -----------------------------
(***************************************************************************)
(* The table backup_runs between two programs: workers insert a row per    *)
(* run, report progress and complete it; the backend's request handlers    *)
(* look for a row that is "running" without a sign of life and finalize    *)
(* it.  Every statement may be lost, workers may be killed, and the        *)
(* handlers read, decide and write in separate statements.                 *)
(*                                                                         *)
(* Time is abstracted to what the finalizer asks of it: aged are the runs  *)
(* that started at least threshold ago, silent the ones without a log      *)
(* entry since.                                                            *)
(***************************************************************************)
EXTENDS Naturals, Sequences, FiniteSets

CONSTANTS
  Workers,      \* machines that run the backup worker
  Handlers,     \* concurrent requests of the backend
  Totals,       \* numbers of repositories a run may list
  Silences,     \* may a live worker log nothing for threshold?
  Faults,       \* the kinds of failure this instance explores
  MaxRuns,      \* bound: rows of backup_runs
  MaxFaults     \* bound: failures of one behaviour

ASSUME ConstantsAssumption ==
  /\ Totals \subseteq Nat \ {0}
  /\ Silences \in BOOLEAN
  /\ Faults \subseteq {"start", "progress", "complete", "log", "lastlog", "finalize",
                       "crash"}
  /\ MaxRuns \in Nat
  /\ MaxFaults \in Nat

VARIABLES
  runs,         \* backup_runs, backup_run_errors: the row with id i is runs[i]
  aged,         \* ids of runs that started at least threshold ago
  silent,       \* ids of runs without a log entry since
  worker,       \* worker[w]: the process on machine w
  handler,      \* handler[h]: FinalizeStaleRunningRuns in request h
  deceived,     \* history: ids of runs a handler may take for dead though they
                \* are not: a log line was lost or could not be read, or the
                \* worker waited for threshold
  faults        \* failures so far

clock == <<aged, silent>>
vars == <<runs, clock, worker, handler, deceived, faults>>

Row == [status : {"running", "completed", "failed"}, total : Nat, successful : Nat,
        failed : Nat, skipped : Nat, error : {"none", "repos failed", "stale"}]

\* id is Monitor.runID: 0 without a row.
Process == [pc : {"idle", "hashing", "backup", "complete", "error", "analytics"},
            id : Nat, total : Nat, successful : Nat, failed : Nat, skipped : Nat]

Finalizer == [pc : {"idle", "found", "stale", "marked"}, id : Nat]

Idle == [pc |-> "idle", id |-> 0, total |-> 0, successful |-> 0, failed |-> 0,
         skipped |-> 0]

TypeOK ==
  /\ runs \in Seq(Row)
  /\ aged \subseteq DOMAIN runs
  /\ silent \subseteq DOMAIN runs
  /\ worker \in [Workers -> Process]
  /\ handler \in [Handlers -> Finalizer]
  /\ \A w \in Workers : worker[w].id \in {0} \cup DOMAIN runs
  /\ \A h \in Handlers : handler[h].id \in {0} \cup DOMAIN runs
  /\ deceived \subseteq DOMAIN runs
  /\ faults \in Nat

Fault(kind) ==
  /\ kind \in Faults
  /\ faults < MaxFaults
  /\ faults' = faults + 1

\* A statement is executed, or lost with an error that is only logged.
Exec(kind, done, lost) == (done /\ UNCHANGED faults) \/ (lost /\ Fault(kind))

RowsWith(status) == {i \in DOMAIN runs : runs[i].status = status}

\* id of a live process's row
Owns(w, i) == worker[w].pc # "idle" /\ worker[w].id = i

Alive(i) == \E w \in Workers : Owns(w, i)

-----------------------------------------------------------------------------
(* Monitor: the worker's side.                                             *)

\* Every log line that is stored is a sign of life of its run.
Log(i) ==
  \/ silent' = silent \ {i} /\ UNCHANGED deceived
  \/ /\ "log" \in Faults
     /\ deceived' = deceived \cup ({i} \cap DOMAIN runs)
     /\ UNCHANGED silent

\* Seeded bug: the id is taken from a count of the rows before the insert.
StartRunByCount(w, n) ==
  /\ worker[w].pc = "idle"
  /\ Len(runs) < MaxRuns
  /\ worker' = [worker EXCEPT ![w] = [Idle EXCEPT !.pc = "hashing", !.total = n,
                                                  !.id = Len(runs) + 1]]
  /\ Fault("start")
  /\ UNCHANGED <<runs, clock, handler, deceived>>

StartRun(w, n) ==
  LET started == [Idle EXCEPT !.pc = "hashing", !.total = n] IN
  /\ worker[w].pc = "idle"
  /\ Len(runs) < MaxRuns
  /\ \/ /\ runs' = Append(runs, [status |-> "running", total |-> n, successful |-> 0,
                                 failed |-> 0, skipped |-> 0, error |-> "none"])
        /\ worker' = [worker EXCEPT ![w] = [started EXCEPT !.id = Len(runs) + 1]]
        /\ \/ UNCHANGED <<silent, deceived>>
           \/ /\ "log" \in Faults
              /\ silent' = silent \cup {Len(runs) + 1}
              /\ deceived' = deceived \cup {Len(runs) + 1}
        /\ UNCHANGED faults
     \/ /\ Fault("start")
        /\ worker' = [worker EXCEPT ![w] = started]
        /\ UNCHANGED <<runs, silent, deceived>>
  /\ UNCHANGED <<aged, handler>>

\* Phase 1 is over: k repositories are unchanged and skipped.
HashChecked(w, k) ==
  /\ worker[w].pc = "hashing"
  /\ k <= worker[w].total
  /\ worker' = [worker EXCEPT ![w].skipped = k,
                  ![w].pc = IF k = worker[w].total THEN "complete" ELSE "backup"]
  /\ UNCHANGED <<runs, clock, handler, deceived, faults>>

Count(w, outcome) ==
  [worker[w] EXCEPT !.successful = IF outcome = "completed" THEN @ + 1 ELSE @,
                    !.failed = IF outcome = "failed" THEN @ + 1 ELSE @,
                    !.skipped = IF outcome = "oversized" THEN @ + 1 ELSE @]

Done(p) == p.successful + p.failed + p.skipped = p.total

Counters(row, p) ==
  [row EXCEPT !.successful = p.successful, !.failed = p.failed, !.skipped = p.skipped]

\* One repository is through: the log line, then the progress of the run.
UpdateProgress(w, outcome) ==
  LET p == Count(w, outcome)
      i == p.id
  IN
  /\ worker[w].pc = "backup"
  /\ worker' = [worker EXCEPT ![w] = [p EXCEPT !.pc = IF Done(p) THEN "complete"
                                                      ELSE "backup"]]
  /\ Log(i)
  /\ IF i = 0 THEN UNCHANGED <<runs, faults>>
     ELSE Exec("progress", runs' = [runs EXCEPT ![i] = Counters(@, p)], UNCHANGED runs)
  /\ UNCHANGED <<aged, handler>>

\* Seeded bug: the summary forgets the skipped repositories.
CompleteRunZero(w) ==
  LET p == worker[w]
      row == [status |-> IF p.failed > 0 THEN "failed" ELSE "completed",
              total |-> p.total, successful |-> p.successful, failed |-> p.failed,
              skipped |-> 0, error |-> "none"]
  IN
  /\ p.pc = "complete"
  /\ p.id # 0
  /\ runs' = [runs EXCEPT ![p.id] = row]
  /\ worker' = [worker EXCEPT ![w].pc = "error"]
  /\ UNCHANGED <<clock, handler, deceived, faults>>

CompleteRun(w) ==
  LET p == worker[w]
      status == IF p.failed > 0 THEN "failed" ELSE "completed"
  IN
  /\ p.pc = "complete"
  /\ worker' = [worker EXCEPT ![w].pc = "error"]
  /\ IF p.id = 0 THEN UNCHANGED <<runs, faults>>
     ELSE Exec("complete",
               runs' = [runs EXCEPT ![p.id] = [Counters(@, p) EXCEPT !.status = status]],
               UNCHANGED runs)
  /\ UNCHANGED <<clock, handler, deceived>>

\* The second statement of CompleteRun, an upsert that is made if repositories
\* failed, and the last log line.
CompleteRunError(w) ==
  LET p == worker[w] IN
  /\ p.pc = "error"
  /\ worker' = [worker EXCEPT ![w].pc = "analytics"]
  /\ Log(p.id)
  /\ IF p.id = 0 \/ p.failed = 0 THEN UNCHANGED <<runs, faults>>
     ELSE Exec("complete", runs' = [runs EXCEPT ![p.id].error = "repos failed"],
               UNCHANGED runs)
  /\ UNCHANGED <<aged, handler>>

\* The snapshot of the run is written; the process ends.
GenerateAnalytics(w) ==
  /\ worker[w].pc = "analytics"
  /\ worker' = [worker EXCEPT ![w] = Idle]
  /\ UNCHANGED <<runs, clock, handler, deceived, faults>>

Crash(w) ==
  /\ worker[w].pc # "idle"
  /\ Fault("crash")
  /\ worker' = [worker EXCEPT ![w] = Idle]
  /\ UNCHANGED <<runs, clock, handler, deceived>>

-----------------------------------------------------------------------------
(* FinalizeStaleRunningRuns: three statements of a request.                *)

\* Seeded bug: the newest row, whatever its status.
FindRunningAny(h) ==
  /\ handler[h].pc = "idle"
  /\ runs # <<>>
  /\ handler' = [handler EXCEPT ![h] = [pc |-> "found", id |-> Len(runs)]]
  /\ UNCHANGED <<runs, clock, worker, deceived, faults>>

\* The newest row that is running.
FindRunning(h) ==
  /\ handler[h].pc = "idle"
  /\ \E i \in RowsWith("running") :
       /\ \A j \in RowsWith("running") : j <= i
       /\ handler' = [handler EXCEPT ![h] = [pc |-> "found", id |-> i]]
  /\ UNCHANGED <<runs, clock, worker, deceived, faults>>

\* Seeded bug: only the start of the run counts.
JudgeByAge(h) ==
  /\ handler[h].pc = "found"
  /\ handler' = [handler EXCEPT ![h].pc = IF handler[h].id \in aged THEN "stale"
                                          ELSE "idle"]
  /\ UNCHANGED <<runs, clock, worker, deceived, faults>>

\* The later of the start and the last log line is compared with now; a query
\* for the last log line that fails counts as no log line.
JudgeStale(h) ==
  LET judged(dead) == handler' = [handler EXCEPT ![h].pc = IF handler[h].id \in dead
                                                           THEN "stale" ELSE "idle"]
  IN
  /\ handler[h].pc = "found"
  /\ Exec("lastlog",
          judged(aged \cap silent) /\ UNCHANGED deceived,
          judged(aged) /\ deceived' = deceived \cup {handler[h].id})
  /\ UNCHANGED <<runs, clock, worker>>

\* UPDATE ... WHERE id = $1: the status is not looked at again.
FinalizeRun(h) ==
  /\ handler[h].pc = "stale"
  /\ \/ /\ runs' = [runs EXCEPT ![handler[h].id].status = "completed"]
        /\ handler' = [handler EXCEPT ![h].pc = "marked"]
        /\ UNCHANGED faults
     \/ /\ Fault("finalize")
        /\ handler' = [handler EXCEPT ![h].pc = "idle"]
        /\ UNCHANGED runs
  /\ UNCHANGED <<clock, worker, deceived>>

\* INSERT ... ON CONFLICT DO NOTHING
FinalizeError(h) ==
  LET i == handler[h].id IN
  /\ handler[h].pc = "marked"
  /\ handler' = [handler EXCEPT ![h].pc = "idle"]
  /\ Exec("finalize",
          runs' = [runs EXCEPT ![i].error = IF @ = "none" THEN "stale" ELSE @],
          UNCHANGED runs)
  /\ UNCHANGED <<clock, worker, deceived>>

-----------------------------------------------------------------------------
\* A run gets old.
Age(i) ==
  /\ i \notin aged
  /\ aged' = aged \cup {i}
  /\ UNCHANGED <<runs, silent, worker, handler, deceived, faults>>

\* threshold passes without a log line: the process is gone, or it waits for
\* git: one clone or push may take five times twenty minutes.  A request takes
\* seconds (its context ends after 15), so a run that was completed, and logged,
\* while a request is busy with it does not fall silent under that request.
FallSilent(i) ==
  /\ i \notin silent
  /\ \/ Alive(i) /\ Silences /\ deceived' = deceived \cup {i}
     \/ /\ ~Alive(i)
        /\ \/ runs[i].status = "running"
           \/ \A h \in Handlers : handler[h].pc = "idle" \/ handler[h].id # i
        /\ UNCHANGED deceived
  /\ silent' = silent \cup {i}
  /\ aged' = aged \cup {i}
  /\ UNCHANGED <<runs, worker, handler, faults>>

Init ==
  /\ runs = <<>>
  /\ aged = {} /\ silent = {} /\ deceived = {}
  /\ worker = [w \in Workers |-> Idle]
  /\ handler = [h \in Handlers |-> [pc |-> "idle", id |-> 0]]
  /\ faults = 0

WorkerStep(w) ==
  \/ \E k \in 0..worker[w].total : HashChecked(w, k)
  \/ \E outcome \in {"completed", "failed", "oversized"} : UpdateProgress(w, outcome)
  \/ CompleteRun(w) \/ CompleteRunError(w) \/ GenerateAnalytics(w)

HandlerStep(h) == FindRunning(h) \/ JudgeStale(h) \/ FinalizeRun(h) \/ FinalizeError(h)

TimeStep == \E i \in DOMAIN runs : Age(i) \/ FallSilent(i)

Next ==
  \/ \E w \in Workers : (\E n \in Totals : StartRun(w, n)) \/ WorkerStep(w) \/ Crash(w)
  \/ \E h \in Handlers : HandlerStep(h)
  \/ TimeStep

Spec == Init /\ [][Next]_vars

\* A live worker goes on, the dashboard is polled, and time passes.
FairSpec ==
  /\ Spec
  /\ \A w \in Workers : WF_vars(WorkerStep(w))
  /\ \A h \in Handlers : WF_vars(HandlerStep(h))
  /\ WF_vars(TimeStep)

-----------------------------------------------------------------------------
(* Properties.                                                             *)

\* The finalizer leaves the row of a process alone that is still at work
\* ("assume the process died"), whatever it reads, judges and writes between
\* the statements of the worker, except where the log has deceived it.
AtWork(w) == worker[w].pc \in {"hashing", "backup", "complete"} /\ worker[w].id # 0

FinalizesOnlyTheDead ==
  \A w \in Workers :
    AtWork(w) /\ worker[w].id \notin deceived => runs[worker[w].id].status = "running"

\* The same without the exception: what the comment at the threshold assumes.
LiveRunsAreRunning ==
  \A w \in Workers : AtWork(w) => runs[worker[w].id].status = "running"

\* A run that its worker reported as failed stays failed: the finalizer writes
\* without looking at the status again, so a run that completes between its
\* statements must not have been judged stale.
FailedStaysFailed ==
  [][\A i \in RowsWith("failed") \ deceived : runs'[i].status = "failed"]_vars

\* What the dashboard shows of a run only grows, up to the number of listed
\* repositories: progress lost on the way is made good by a later statement,
\* and nothing is counted twice.
ProgressOnlyGrows ==
  [][\A i \in DOMAIN runs :
       /\ runs'[i].successful >= runs[i].successful
       /\ runs'[i].failed >= runs[i].failed
       /\ runs'[i].skipped >= runs[i].skipped
       /\ runs'[i].successful + runs'[i].failed + runs'[i].skipped
            <= runs'[i].total]_vars

\* No run is shown as running for ever, also not one whose worker died, whose
\* completion was lost, or that is hidden behind a newer run.
EventuallyNotRunning == <>[](RowsWith("running") = {})

=============================================================================
