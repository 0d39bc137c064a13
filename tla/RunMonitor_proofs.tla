------------------------- MODULE RunMonitor_proofs -------------------------
(***************************************************************************)
(* Proofs about RunMonitor for any number of workers, requests, rows and   *)
(* failures.                                                               *)
(***************************************************************************)
EXTENDS RunMonitor, TLAPS

LEMMA AppendRow ==
  ASSUME NEW s \in Seq(Row), NEW row \in Row
  PROVE  /\ Append(s, row) \in Seq(Row)
         /\ DOMAIN Append(s, row) = DOMAIN s \cup {Len(s) + 1}
         /\ \A i \in DOMAIN s : Append(s, row)[i] = s[i]
         /\ Append(s, row)[Len(s) + 1] = row
         /\ Len(s) + 1 \notin DOMAIN s /\ Len(s) + 1 # 0 /\ Len(s) + 1 \in Nat
  OBVIOUS

LEMMA SetRow ==
  ASSUME NEW s \in Seq(Row), NEW i \in DOMAIN s, NEW row \in Row
  PROVE  /\ [s EXCEPT ![i] = row] \in Seq(Row)
         /\ DOMAIN [s EXCEPT ![i] = row] = DOMAIN s
         /\ [s EXCEPT ![i] = row][i] = row
         /\ \A j \in DOMAIN s : j # i => [s EXCEPT ![i] = row][j] = s[j]
  OBVIOUS

LEMMA DomainRows ==
  ASSUME NEW s \in Seq(Row)
  PROVE  /\ DOMAIN s \subseteq Nat \ {0}
         /\ \A i \in DOMAIN s : s[i] \in Row
  OBVIOUS

-----------------------------------------------------------------------------
(* Type correctness, one lemma per kind of step.                           *)

LEMMA InitType == Init => TypeOK
  BY DEF Init, TypeOK, Idle, Process, Finalizer

LEMMA StartRunType ==
  ASSUME TypeOK, NEW w \in Workers, NEW n \in Totals, StartRun(w, n)
  PROVE  TypeOK'
<1> DEFINE started == [Idle EXCEPT !.pc = "hashing", !.total = n]
           row == [status |-> "running", total |-> n, successful |-> 0, failed |-> 0,
                   skipped |-> 0, error |-> "none"]
<1>1. started \in Process /\ started.id = 0
  BY ConstantsAssumption DEF Process, Idle
<1>2. row \in Row
  BY ConstantsAssumption DEF Row
<1>3. runs \in Seq(Row) /\ worker \in [Workers -> Process] /\ faults \in Nat
  BY DEF TypeOK
<1>4. /\ Append(runs, row) \in Seq(Row)
      /\ DOMAIN Append(runs, row) = DOMAIN runs \cup {Len(runs) + 1}
      /\ Len(runs) + 1 \in Nat
  BY <1>2, <1>3, AppendRow
<1>5. CASE /\ runs' = Append(runs, row)
           /\ worker' = [worker EXCEPT ![w] = [started EXCEPT !.id = Len(runs) + 1]]
           /\ \/ UNCHANGED <<silent, deceived>>
              \/ /\ silent' = silent \cup {Len(runs) + 1}
                 /\ deceived' = deceived \cup {Len(runs) + 1}
           /\ UNCHANGED <<faults, aged, handler>>
  <2>1. [started EXCEPT !.id = Len(runs) + 1] \in Process
    BY <1>1, <1>4 DEF Process
  <2>2. [started EXCEPT !.id = Len(runs) + 1].id = Len(runs) + 1
    BY <1>1 DEF Process
  <2> HIDE DEF started, row
  <2>3. worker' \in [Workers -> Process]
    BY <1>3, <1>5, <2>1
  <2>4. \A v \in Workers : worker'[v].id \in {0} \cup DOMAIN runs'
    BY <1>3, <1>4, <1>5, <2>2 DEF TypeOK
  <2> QED
    BY <1>4, <1>5, <2>3, <2>4 DEF TypeOK
<1>6. CASE /\ worker' = [worker EXCEPT ![w] = started]
           /\ faults' = faults + 1
           /\ UNCHANGED <<runs, silent, deceived, aged, handler>>
  <2> HIDE DEF started
  <2>1. worker' \in [Workers -> Process]
    BY <1>1, <1>3, <1>6
  <2>2. \A v \in Workers : worker'[v].id \in {0} \cup DOMAIN runs
    BY <1>1, <1>3, <1>6 DEF TypeOK
  <2> QED
    BY <1>3, <1>6, <2>1, <2>2 DEF TypeOK
<1> QED
  BY <1>5, <1>6 DEF StartRun, Fault

\* A process that keeps its id or ends, while its row changes or does not.
LEMMA OwnStepType ==
  ASSUME TypeOK, NEW w \in Workers, NEW p \in Process, worker' = [worker EXCEPT ![w] = p],
         p.id \in {0, worker[w].id},
         runs' \in Seq(Row), DOMAIN runs' = DOMAIN runs,
         silent' \subseteq silent, deceived' \subseteq DOMAIN runs,
         faults' \in Nat, UNCHANGED <<aged, handler>>
  PROVE  TypeOK'
<1>1. worker' \in [Workers -> Process]
  BY DEF TypeOK
<1>2. \A v \in Workers : worker'[v].id \in {0} \cup DOMAIN runs
  BY DEF TypeOK
<1> QED
  BY <1>1, <1>2 DEF TypeOK

\* What the steps of a run do to the table: at most the row of the run changes.
LEMMA Rewrite ==
  ASSUME TypeOK, NEW i \in DOMAIN runs, NEW row \in Row, runs' = [runs EXCEPT ![i] = row]
  PROVE  /\ runs' \in Seq(Row) /\ DOMAIN runs' = DOMAIN runs
         /\ runs'[i] = row
         /\ \A j \in DOMAIN runs : j # i => runs'[j] = runs[j]
  BY SetRow DEF TypeOK

LEMMA CountersRow ==
  ASSUME NEW row \in Row, NEW p \in Process
  PROVE  /\ Counters(row, p) \in Row
         /\ Counters(row, p).status = row.status
         /\ Counters(row, p).total = row.total
         /\ Counters(row, p).successful = p.successful
         /\ Counters(row, p).failed = p.failed
         /\ Counters(row, p).skipped = p.skipped
  BY DEF Counters, Row, Process

-----------------------------------------------------------------------------
(* The invariant.                                                          *)

Working == {"hashing", "backup", "complete"}

Counted(x) == x.successful + x.failed + x.skipped

\* No counter of x is above the one of y.
Below(x, y) ==
  x.successful <= y.successful /\ x.failed <= y.failed /\ x.skipped <= y.skipped

\* A process counts every repository once.
CountsOnce(p) ==
  /\ Counted(p) <= p.total
  /\ p.pc = "hashing" => Counted(p) = 0
  /\ p.pc = "backup" => Counted(p) < p.total
  /\ p.pc = "idle" => p = Idle

\* No two processes share a row; the row is not ahead of its process, and is
\* running while the process works, unless the log deceives.
WorkerInv(w) ==
  LET i == worker[w].id IN
  /\ CountsOnce(worker[w])
  /\ i # 0 => /\ \A v \in Workers : worker[v].id = i => v = w
              /\ runs[i].total = worker[w].total
              /\ Below(runs[i], worker[w])
              /\ i \in silent => i \in deceived
              /\ worker[w].pc \in Working /\ i \notin deceived
                   => runs[i].status = "running"

\* A run that was judged stale, or is about to be, is dead or has deceived; and
\* it has not failed since it was found.
HandlerInv(h) ==
  LET i == handler[h].id IN
  /\ handler[h].pc # "idle" => i # 0
  /\ handler[h].pc = "stale" => i \in deceived \/ \A w \in Workers : worker[w].id # i
  /\ \/ handler[h].pc = "stale"
     \/ handler[h].pc = "found" /\ i \in silent
     => i \in deceived \/ runs[i].status # "failed"

RowInv(i) == Counted(runs[i]) <= runs[i].total

MonitorInv ==
  /\ \A w \in Workers : WorkerInv(w)
  /\ \A h \in Handlers : HandlerInv(h)
  /\ \A i \in DOMAIN runs : RowInv(i)

-----------------------------------------------------------------------------
(* What a step of a running process does, all at once.                     *)

\* p is the process afterwards; it has ended, or it goes on with its row and
\* has counted no repository twice.
GoesOn(w, p) ==
  /\ p.id = worker[w].id
  /\ p.total = worker[w].total
  /\ p.pc \notin {"idle", "hashing"}
  /\ Below(worker[w], p)
  /\ CountsOnce(p)

\* The row of the run before and after: its counters stay or become those of
\* the process; only a working process changes the status, and stops working.
RowStep(w, p, row, row1) ==
  /\ row1.total = row.total
  /\ Below(row, row1)
  /\ p # Idle => Below(row1, p)
  /\ Counted(row1) <= row1.total
  /\ row1.status # row.status => worker[w].pc \in Working /\ p.pc \notin Working

OwnStep(w, p) ==
  /\ p \in Process
  /\ worker[w].pc # "idle"
  /\ worker' = [worker EXCEPT ![w] = p]
  /\ p = Idle \/ GoesOn(w, p)
  /\ p.pc \in Working => worker[w].pc \in Working
  /\ runs' \in Seq(Row) /\ DOMAIN runs' = DOMAIN runs
  /\ \A j \in DOMAIN runs : j # worker[w].id => runs'[j] = runs[j]
  /\ worker[w].id # 0 => RowStep(w, p, runs[worker[w].id], runs'[worker[w].id])
  /\ silent' \subseteq silent
  /\ deceived \subseteq deceived' /\ deceived' \subseteq DOMAIN runs
  /\ faults' \in Nat
  /\ UNCHANGED <<aged, handler>>

\* The facts every lemma below starts from.
LEMMA OfWorker ==
  ASSUME TypeOK, MonitorInv, NEW w \in Workers
  PROVE  /\ worker[w] \in Process /\ worker \in [Workers -> Process]
         /\ CountsOnce(worker[w])
         /\ runs \in Seq(Row)
         /\ silent \subseteq DOMAIN runs /\ deceived \subseteq DOMAIN runs
         /\ faults \in Nat
         /\ worker[w].id # 0 => /\ worker[w].id \in DOMAIN runs
                                /\ runs[worker[w].id] \in Row
                                /\ runs[worker[w].id].total = worker[w].total
                                /\ Below(runs[worker[w].id], worker[w])
                                /\ RowInv(worker[w].id)
<1>1. /\ worker[w] \in Process /\ worker \in [Workers -> Process]
      /\ runs \in Seq(Row)
      /\ silent \subseteq DOMAIN runs /\ deceived \subseteq DOMAIN runs
      /\ faults \in Nat
      /\ worker[w].id \in {0} \cup DOMAIN runs
  BY DEF TypeOK
<1>2. WorkerInv(w)
  BY DEF MonitorInv
<1>3. CountsOnce(worker[w])
  BY <1>2 DEF WorkerInv
<1>4. ASSUME worker[w].id # 0
      PROVE  /\ worker[w].id \in DOMAIN runs
             /\ runs[worker[w].id] \in Row
             /\ runs[worker[w].id].total = worker[w].total
             /\ Below(runs[worker[w].id], worker[w])
             /\ RowInv(worker[w].id)
  <2>1. worker[w].id \in DOMAIN runs
    BY <1>1, <1>4
  <2> QED
    BY <1>1, <1>2, <1>4, <2>1, DomainRows DEF WorkerInv, MonitorInv
<1> QED
  BY <1>1, <1>3, <1>4

LEMMA CountersAreNumbers ==
  /\ \A row \in Row : /\ row.successful \in Nat /\ row.failed \in Nat
                      /\ row.skipped \in Nat /\ row.total \in Nat
  /\ \A p \in Process : /\ p.successful \in Nat /\ p.failed \in Nat
                        /\ p.skipped \in Nat /\ p.total \in Nat
  BY DEF Row, Process

LEMMA BelowTransitive ==
  ASSUME NEW row \in Row, NEW q \in Process, NEW p \in Process,
         Below(row, q), Below(q, p)
  PROVE  Below(row, p)
  BY CountersAreNumbers DEF Below

LEMMA BelowReflexive == \A row \in Row : Below(row, row)
  BY CountersAreNumbers DEF Below

\* A row that stays as it is.
LEMMA RowStays ==
  ASSUME TypeOK, MonitorInv, NEW w \in Workers, NEW p \in Process,
         p = Idle \/ GoesOn(w, p), UNCHANGED runs
  PROVE  /\ runs' \in Seq(Row) /\ DOMAIN runs' = DOMAIN runs
         /\ \A j \in DOMAIN runs : j # worker[w].id => runs'[j] = runs[j]
         /\ worker[w].id # 0 => RowStep(w, p, runs[worker[w].id], runs'[worker[w].id])
<1>1. ASSUME NEW row \in Row, Below(row, worker[w]), Counted(row) <= row.total
      PROVE  RowStep(w, p, row, row)
  <2>1. Below(row, row)
    BY BelowReflexive
  <2>2. p # Idle => Below(row, p)
    BY <1>1, BelowTransitive, OfWorker DEF GoesOn
  <2> QED
    BY <1>1, <2>1, <2>2 DEF RowStep
<1> QED
  BY <1>1, OfWorker DEF RowInv

-----------------------------------------------------------------------------
(* Each step of a process is an OwnStep.                                   *)

LEMMA HashCheckedStep ==
  ASSUME TypeOK, MonitorInv, NEW w \in Workers, NEW k \in 0..worker[w].total,
         HashChecked(w, k)
  PROVE  \E p \in Process : OwnStep(w, p)
<1> DEFINE p == [worker[w] EXCEPT
                   !.skipped = k,
                   !.pc = IF k = worker[w].total THEN "complete" ELSE "backup"]
<1>1. worker[w] \in Process /\ CountsOnce(worker[w]) /\ worker[w].pc = "hashing"
  BY OfWorker DEF HashChecked
<1>2. k \in Nat /\ k <= worker[w].total
  BY <1>1 DEF Process
<1>3. /\ p \in Process /\ p.id = worker[w].id /\ p.total = worker[w].total
      /\ p.successful = worker[w].successful /\ p.failed = worker[w].failed
      /\ p.skipped = k
      /\ p.pc = IF k = worker[w].total THEN "complete" ELSE "backup"
  BY <1>1, <1>2 DEF Process
<1>4. worker[w].successful = 0 /\ worker[w].failed = 0 /\ worker[w].skipped = 0
  BY <1>1 DEF CountsOnce, Counted, Process
<1>5. worker' = [worker EXCEPT ![w] = p]
  BY DEF HashChecked
<1> HIDE DEF p
<1>6. GoesOn(w, p)
  BY <1>1, <1>2, <1>3, <1>4 DEF GoesOn, Below, CountsOnce, Counted, Process
<1>7. UNCHANGED <<runs, aged, silent, handler, deceived, faults>>
  BY DEF HashChecked, clock
<1>8. OwnStep(w, p)
  BY <1>1, <1>3, <1>5, <1>6, <1>7, RowStays, OfWorker DEF OwnStep, Working
<1> QED
  BY <1>3, <1>8

\* A row that gets the counters of its process.
LEMMA RowCounted ==
  ASSUME TypeOK, MonitorInv, NEW w \in Workers, worker[w].id # 0,
         NEW p \in Process, GoesOn(w, p), NEW row \in Row,
         row.total = worker[w].total,
         row.successful = p.successful, row.failed = p.failed, row.skipped = p.skipped,
         row.status # runs[worker[w].id].status
           => worker[w].pc \in Working /\ p.pc \notin Working,
         runs' = [runs EXCEPT ![worker[w].id] = row]
  PROVE  /\ runs' \in Seq(Row) /\ DOMAIN runs' = DOMAIN runs
         /\ \A j \in DOMAIN runs : j # worker[w].id => runs'[j] = runs[j]
         /\ RowStep(w, p, runs[worker[w].id], runs'[worker[w].id])
<1>1. /\ worker[w].id \in DOMAIN runs /\ runs[worker[w].id] \in Row
      /\ Below(runs[worker[w].id], worker[w])
      /\ runs[worker[w].id].total = worker[w].total
      /\ worker[w] \in Process
  BY OfWorker
<1>2. /\ runs' \in Seq(Row) /\ DOMAIN runs' = DOMAIN runs
      /\ runs'[worker[w].id] = row
      /\ \A j \in DOMAIN runs : j # worker[w].id => runs'[j] = runs[j]
  BY <1>1, Rewrite
<1>3. Below(runs[worker[w].id], p)
  BY <1>1, BelowTransitive DEF GoesOn
<1>4. Below(runs[worker[w].id], row) /\ Below(row, p)
  BY <1>3, CountersAreNumbers DEF Below
<1>5. Counted(row) <= row.total
  BY DEF GoesOn, CountsOnce, Counted
<1> QED
  BY <1>1, <1>2, <1>4, <1>5 DEF RowStep

LEMMA CountStep ==
  ASSUME TypeOK, NEW w \in Workers, NEW outcome \in {"completed", "failed", "oversized"}
  PROVE  /\ Count(w, outcome) \in Process
         /\ Count(w, outcome).id = worker[w].id
         /\ Count(w, outcome).total = worker[w].total
         /\ Below(worker[w], Count(w, outcome))
         /\ Counted(Count(w, outcome)) = Counted(worker[w]) + 1
<1>1. worker[w] \in Process
  BY DEF TypeOK
<1>2. /\ Count(w, outcome) \in Process
      /\ Count(w, outcome).id = worker[w].id
      /\ Count(w, outcome).total = worker[w].total
      /\ Count(w, outcome).successful =
           IF outcome = "completed" THEN worker[w].successful + 1 ELSE worker[w].successful
      /\ Count(w, outcome).failed =
           IF outcome = "failed" THEN worker[w].failed + 1 ELSE worker[w].failed
      /\ Count(w, outcome).skipped =
           IF outcome = "oversized" THEN worker[w].skipped + 1 ELSE worker[w].skipped
  <2> DEFINE x == IF outcome = "completed" THEN worker[w].successful + 1
                  ELSE worker[w].successful
             y == IF outcome = "failed" THEN worker[w].failed + 1 ELSE worker[w].failed
             z == IF outcome = "oversized" THEN worker[w].skipped + 1
                  ELSE worker[w].skipped
  <2>1. x \in Nat /\ y \in Nat /\ z \in Nat
    BY <1>1, CountersAreNumbers
  <2>2. Count(w, outcome) = [worker[w] EXCEPT !.successful = x, !.failed = y, !.skipped = z]
    BY DEF Count
  <2> HIDE DEF x, y, z
  <2>3. /\ Count(w, outcome) \in Process
        /\ Count(w, outcome).id = worker[w].id
        /\ Count(w, outcome).total = worker[w].total
        /\ Count(w, outcome).successful = x
        /\ Count(w, outcome).failed = y
        /\ Count(w, outcome).skipped = z
    BY <1>1, <2>1, <2>2 DEF Process
  <2> QED
    BY <2>3 DEF x, y, z
<1> QED
  BY <1>1, <1>2, CountersAreNumbers DEF Below, Counted

LEMMA UpdateProgressStep ==
  ASSUME TypeOK, MonitorInv, NEW w \in Workers,
         NEW outcome \in {"completed", "failed", "oversized"}, UpdateProgress(w, outcome)
  PROVE  \E p \in Process : OwnStep(w, p)
<1> DEFINE q == Count(w, outcome)
           p == [q EXCEPT !.pc = IF Done(q) THEN "complete" ELSE "backup"]
<1>1. /\ worker[w] \in Process /\ CountsOnce(worker[w]) /\ worker[w].pc = "backup"
      /\ runs \in Seq(Row) /\ faults \in Nat
      /\ silent \subseteq DOMAIN runs /\ deceived \subseteq DOMAIN runs
  BY OfWorker DEF UpdateProgress
<1>2. /\ q \in Process /\ q.id = worker[w].id /\ q.total = worker[w].total
      /\ Below(worker[w], q) /\ Counted(q) = Counted(worker[w]) + 1
  BY CountStep
<1>3. worker' = [worker EXCEPT ![w] = p]
  BY DEF UpdateProgress
<1>4. IF q.id = 0 THEN UNCHANGED <<runs, faults>>
      ELSE Exec("progress", runs' = [runs EXCEPT ![q.id] = Counters(@, q)], UNCHANGED runs)
  BY DEF UpdateProgress
<1>5. /\ Log(q.id) /\ UNCHANGED <<aged, handler>>
  BY DEF UpdateProgress
<1>6. /\ p \in Process /\ p.id = q.id /\ p.total = q.total
      /\ p.successful = q.successful /\ p.failed = q.failed /\ p.skipped = q.skipped
      /\ p.pc = IF Done(q) THEN "complete" ELSE "backup"
  <2> HIDE DEF q
  <2> QED
    BY <1>2 DEF Process
<1> HIDE DEF p, q
<1>7. Counted(worker[w]) \in Nat /\ Counted(worker[w]) < worker[w].total /\ worker[w].total \in Nat
  BY <1>1, CountersAreNumbers DEF CountsOnce, Counted
<1>8. Counted(p) = Counted(q) /\ Counted(q) = q.successful + q.failed + q.skipped
  BY <1>6 DEF Counted
<1>9. GoesOn(w, p)
  <2>1. Below(worker[w], p)
    BY <1>2, <1>6 DEF Below
  <2>2. CountsOnce(p)
    BY <1>2, <1>6, <1>7, <1>8 DEF CountsOnce, Done
  <2> QED
    BY <1>2, <1>6, <2>1, <2>2 DEF GoesOn
<1>10. /\ silent' \subseteq silent
       /\ deceived \subseteq deceived' /\ deceived' \subseteq DOMAIN runs
  BY <1>1, <1>5 DEF Log
<1>11. faults' \in Nat
  BY <1>1, <1>4 DEF Exec, Fault
<1>12. /\ runs' \in Seq(Row) /\ DOMAIN runs' = DOMAIN runs
       /\ \A j \in DOMAIN runs : j # worker[w].id => runs'[j] = runs[j]
       /\ worker[w].id # 0 => RowStep(w, p, runs[worker[w].id], runs'[worker[w].id])
  <2>1. CASE UNCHANGED runs
    BY <1>6, <1>9, <2>1, RowStays
  <2>2. CASE /\ worker[w].id # 0
             /\ runs' = [runs EXCEPT ![worker[w].id] = Counters(@, q)]
    <3> DEFINE row == Counters(runs[worker[w].id], q)
    <3>1. /\ row \in Row /\ row.status = runs[worker[w].id].status
          /\ row.total = worker[w].total
          /\ row.successful = p.successful /\ row.failed = p.failed
          /\ row.skipped = p.skipped
      BY <1>2, <1>6, <2>2, OfWorker, CountersRow
    <3>2. runs' = [runs EXCEPT ![worker[w].id] = row]
      BY <2>2
    <3> HIDE DEF row
    <3> QED
      BY <1>6, <1>9, <2>2, <3>1, <3>2, RowCounted
  <2> QED
    BY <1>2, <1>4, <2>1, <2>2 DEF Exec
<1>13. OwnStep(w, p)
  BY <1>1, <1>3, <1>5, <1>6, <1>9, <1>10, <1>11, <1>12 DEF OwnStep, Working
<1> QED
  BY <1>6, <1>13

\* A process that counts nothing and goes on to the next statement.
LEMMA MoveOn ==
  ASSUME TypeOK, MonitorInv, NEW w \in Workers, NEW pc \in {"error", "analytics"},
         worker[w].pc # "idle"
  PROVE  LET p == [worker[w] EXCEPT !.pc = pc] IN
         /\ p \in Process /\ p.pc = pc /\ p.pc \notin Working
         /\ p.id = worker[w].id
         /\ p.successful = worker[w].successful /\ p.failed = worker[w].failed
         /\ p.skipped = worker[w].skipped
         /\ GoesOn(w, p)
<1> DEFINE p == [worker[w] EXCEPT !.pc = pc]
<1>1. worker[w] \in Process /\ CountsOnce(worker[w])
  BY OfWorker
<1>2. /\ p \in Process /\ p.pc = pc
      /\ p.id = worker[w].id /\ p.total = worker[w].total
      /\ p.successful = worker[w].successful /\ p.failed = worker[w].failed
      /\ p.skipped = worker[w].skipped
  BY <1>1 DEF Process
<1> HIDE DEF p
<1>3. Below(worker[w], p)
  BY <1>1, <1>2, CountersAreNumbers DEF Below
<1>4. CountsOnce(p)
  BY <1>1, <1>2 DEF CountsOnce, Counted
<1>5. p.pc \notin Working /\ GoesOn(w, p)
  BY <1>2, <1>3, <1>4 DEF GoesOn, Working
<1> QED
  BY <1>2, <1>5 DEF p

LEMMA CompleteRunStep ==
  ASSUME TypeOK, MonitorInv, NEW w \in Workers, CompleteRun(w)
  PROVE  \E p \in Process : OwnStep(w, p)
<1> DEFINE p == [worker[w] EXCEPT !.pc = "error"]
           status == IF worker[w].failed > 0 THEN "failed" ELSE "completed"
           row == [Counters(runs[worker[w].id], worker[w]) EXCEPT !.status = status]
<1>1. /\ worker[w] \in Process /\ worker[w].pc = "complete"
      /\ silent \subseteq DOMAIN runs /\ deceived \subseteq DOMAIN runs
      /\ faults \in Nat
  BY OfWorker DEF CompleteRun
<1>2. /\ p \in Process /\ p.pc \notin Working
      /\ p.id = worker[w].id
      /\ p.successful = worker[w].successful /\ p.failed = worker[w].failed
      /\ p.skipped = worker[w].skipped
      /\ GoesOn(w, p)
  BY <1>1, MoveOn
<1>3. worker' = [worker EXCEPT ![w] = p]
  BY DEF CompleteRun
<1>4. /\ \/ UNCHANGED runs
         \/ worker[w].id # 0 /\ runs' = [runs EXCEPT ![worker[w].id] = row]
      /\ faults' \in {faults, faults + 1}
      /\ UNCHANGED <<aged, silent, handler, deceived>>
  BY DEF CompleteRun, Exec, Fault, clock
<1> HIDE DEF p
<1>5. /\ runs' \in Seq(Row) /\ DOMAIN runs' = DOMAIN runs
      /\ \A j \in DOMAIN runs : j # worker[w].id => runs'[j] = runs[j]
      /\ worker[w].id # 0 => RowStep(w, p, runs[worker[w].id], runs'[worker[w].id])
  <2>1. CASE UNCHANGED runs
    BY <1>2, <2>1, RowStays
  <2>2. CASE worker[w].id # 0 /\ runs' = [runs EXCEPT ![worker[w].id] = row]
    <3>1. /\ runs[worker[w].id] \in Row /\ runs[worker[w].id].total = worker[w].total
          /\ Counters(runs[worker[w].id], worker[w]) \in Row
          /\ Counters(runs[worker[w].id], worker[w]).total = worker[w].total
          /\ Counters(runs[worker[w].id], worker[w]).successful = worker[w].successful
          /\ Counters(runs[worker[w].id], worker[w]).failed = worker[w].failed
          /\ Counters(runs[worker[w].id], worker[w]).skipped = worker[w].skipped
      BY <1>1, <2>2, OfWorker, CountersRow
    <3>2. status \in {"failed", "completed"}
      OBVIOUS
    <3>3. /\ row \in Row /\ row.total = worker[w].total
          /\ row.successful = p.successful /\ row.failed = p.failed
          /\ row.skipped = p.skipped
      <4> HIDE DEF status
      <4> QED
        BY <1>2, <3>1, <3>2 DEF Row
    <3> HIDE DEF row
    <3>4. worker[w].pc \in Working
      BY <1>1 DEF Working
    <3> QED
      BY <1>2, <2>2, <3>3, <3>4, RowCounted
  <2> QED
    BY <1>4, <2>1, <2>2
<1>6. OwnStep(w, p)
  BY <1>1, <1>2, <1>3, <1>4, <1>5 DEF OwnStep
<1> QED
  BY <1>2, <1>6

LEMMA CompleteRunErrorStep ==
  ASSUME TypeOK, MonitorInv, NEW w \in Workers, CompleteRunError(w)
  PROVE  \E p \in Process : OwnStep(w, p)
<1> DEFINE p == [worker[w] EXCEPT !.pc = "analytics"]
           row == [runs[worker[w].id] EXCEPT !.error = "repos failed"]
<1>1. /\ worker[w] \in Process /\ worker[w].pc = "error"
      /\ silent \subseteq DOMAIN runs /\ deceived \subseteq DOMAIN runs
      /\ faults \in Nat
  BY OfWorker DEF CompleteRunError
<1>2. /\ p \in Process /\ p.pc \notin Working /\ p.id = worker[w].id
      /\ GoesOn(w, p)
  BY <1>1, MoveOn
<1>3. worker' = [worker EXCEPT ![w] = p]
  BY DEF CompleteRunError
<1>4. \/ UNCHANGED runs
      \/ worker[w].id # 0 /\ runs' = [runs EXCEPT ![worker[w].id] = row]
  BY DEF CompleteRunError, Exec
<1>7. Log(worker[w].id) /\ UNCHANGED <<aged, handler>>
  BY DEF CompleteRunError
<1> HIDE DEF p, row
<1>9. faults' \in Nat
  <2>1. faults' \in {faults, faults + 1}
    BY DEF CompleteRunError, Exec, Fault
  <2> QED
    BY <1>1, <2>1
<1>5. /\ silent' \subseteq silent
      /\ deceived \subseteq deceived' /\ deceived' \subseteq DOMAIN runs
  BY <1>1, <1>7 DEF Log
<1>6. /\ runs' \in Seq(Row) /\ DOMAIN runs' = DOMAIN runs
      /\ \A j \in DOMAIN runs : j # worker[w].id => runs'[j] = runs[j]
      /\ worker[w].id # 0 => RowStep(w, p, runs[worker[w].id], runs'[worker[w].id])
  <2>1. CASE UNCHANGED runs
    BY <1>2, <2>1, RowStays
  <2>2. CASE worker[w].id # 0 /\ runs' = [runs EXCEPT ![worker[w].id] = row]
    <3>1. /\ worker[w].id \in DOMAIN runs /\ runs[worker[w].id] \in Row
          /\ Below(runs[worker[w].id], worker[w]) /\ RowInv(worker[w].id)
      BY <2>2, OfWorker
    <3>2. /\ row \in Row /\ row.total = runs[worker[w].id].total
          /\ row.status = runs[worker[w].id].status
          /\ row.successful = runs[worker[w].id].successful
          /\ row.failed = runs[worker[w].id].failed
          /\ row.skipped = runs[worker[w].id].skipped
      BY <3>1 DEF Row, row
    <3>3. /\ runs' \in Seq(Row) /\ DOMAIN runs' = DOMAIN runs
          /\ runs'[worker[w].id] = row
          /\ \A j \in DOMAIN runs : j # worker[w].id => runs'[j] = runs[j]
      BY <2>2, <3>1, <3>2, Rewrite
    <3>4. Below(runs[worker[w].id], row) /\ Below(row, p)
      <4>1. Below(row, worker[w])
        BY <3>1, <3>2 DEF Below
      <4>2. Below(row, p)
        BY <1>1, <1>2, <3>2, <4>1, BelowTransitive DEF GoesOn
      <4> QED
        BY <3>1, <3>2, <4>2, CountersAreNumbers DEF Below
    <3>5. Counted(row) <= row.total
      BY <3>1, <3>2 DEF RowInv, Counted
    <3> QED
      BY <3>2, <3>3, <3>4, <3>5 DEF RowStep
  <2> QED
    BY <1>4, <2>1, <2>2
<1>8. OwnStep(w, p)
  BY <1>1, <1>2, <1>3, <1>5, <1>6, <1>7, <1>9 DEF OwnStep
<1> QED
  BY <1>2, <1>8

\* The end of a process, its regular one and the other.
LEMMA EndStep ==
  ASSUME TypeOK, MonitorInv, NEW w \in Workers, GenerateAnalytics(w) \/ Crash(w)
  PROVE  \E p \in Process : OwnStep(w, p)
<1>1. Idle \in Process /\ Idle.pc \notin Working
  BY DEF Idle, Process, Working
<1>2. /\ worker[w].pc # "idle"
      /\ worker' = [worker EXCEPT ![w] = Idle]
      /\ faults' \in {faults, faults + 1}
      /\ UNCHANGED <<runs, aged, silent, handler, deceived>>
  BY DEF GenerateAnalytics, Crash, Fault, clock
<1>3. OwnStep(w, Idle)
  BY <1>1, <1>2, RowStays, OfWorker DEF OwnStep
<1> QED
  BY <1>1, <1>3

LEMMA WorkerStepIsOwn ==
  ASSUME TypeOK, MonitorInv, NEW w \in Workers, WorkerStep(w) \/ Crash(w)
  PROVE  \E p \in Process : OwnStep(w, p)
  BY HashCheckedStep, UpdateProgressStep, CompleteRunStep, CompleteRunErrorStep, EndStep
  DEF WorkerStep

-----------------------------------------------------------------------------
(* The invariant is kept.                                                  *)

LEMMA InitInv == Init => MonitorInv
<1> SUFFICES ASSUME Init PROVE MonitorInv
  OBVIOUS
<1>1. ASSUME NEW w \in Workers PROVE WorkerInv(w)
  BY DEF Init, WorkerInv, CountsOnce, Counted, Idle
<1>2. ASSUME NEW h \in Handlers PROVE HandlerInv(h)
  BY DEF Init, HandlerInv
<1>3. DOMAIN runs = {}
  BY DEF Init
<1> QED
  BY <1>1, <1>2, <1>3 DEF MonitorInv

LEMMA OwnStepTypeOK ==
  ASSUME TypeOK, NEW w \in Workers, NEW p \in Process, OwnStep(w, p)
  PROVE  TypeOK'
<1>1. p.id \in {0, worker[w].id}
  BY DEF OwnStep, GoesOn, Idle
<1> QED
  BY <1>1, OwnStepType DEF OwnStep

LEMMA OwnStepInv ==
  ASSUME TypeOK, MonitorInv, NEW w \in Workers, NEW p \in Process, OwnStep(w, p)
  PROVE  MonitorInv'
<1>1. /\ worker \in [Workers -> Process]
      /\ worker' = [worker EXCEPT ![w] = p]
      /\ DOMAIN runs' = DOMAIN runs /\ handler' = handler
      /\ silent' \subseteq silent /\ deceived \subseteq deceived'
      /\ \A j \in DOMAIN runs : j # worker[w].id => runs'[j] = runs[j]
  BY DEF OwnStep, TypeOK
<1>2. p.id = 0 \/ p.id = worker[w].id
  BY DEF OwnStep, GoesOn, Idle
<1>3. \A v \in Workers : worker[v].id \in {0} \cup DOMAIN runs
  BY DEF TypeOK
<1>4. \A v \in Workers : WorkerInv(v)
  BY DEF MonitorInv
<1>5. ASSUME NEW v \in Workers PROVE WorkerInv(v)'
  <2>1. CASE v = w /\ p = Idle
    <3>1. worker'[v] = Idle
      BY <1>1, <2>1
    <3> QED
      BY <3>1 DEF WorkerInv, CountsOnce, Counted, Idle
  <2>2. CASE v = w /\ p # Idle
    <3>1. worker'[v] = p /\ GoesOn(w, p) /\ CountsOnce(p)
      BY <1>1, <2>2 DEF OwnStep, GoesOn
    <3>2. ASSUME p.id # 0
          PROVE  /\ \A u \in Workers : worker'[u].id = p.id => u = v
                 /\ runs'[p.id].total = p.total
                 /\ Below(runs'[p.id], p)
                 /\ p.id \in silent' => p.id \in deceived'
                 /\ p.pc \in Working /\ p.id \notin deceived'
                      => runs'[p.id].status = "running"
      <4>1. p.id = worker[w].id /\ p.total = worker[w].total
        BY <3>1 DEF GoesOn
      <4>2. RowStep(w, p, runs[p.id], runs'[p.id])
        BY <3>2, <4>1 DEF OwnStep
      <4>3. /\ \A u \in Workers : worker[u].id = p.id => u = w
            /\ runs[p.id].total = worker[w].total
            /\ p.id \in silent => p.id \in deceived
            /\ worker[w].pc \in Working /\ p.id \notin deceived
                 => runs[p.id].status = "running"
        BY <1>4, <3>2, <4>1 DEF WorkerInv
      <4>4. \A u \in Workers : worker'[u].id = p.id => u = v
        BY <1>1, <2>2, <4>3
      <4>5. p.pc \in Working => worker[w].pc \in Working
        BY DEF OwnStep
      <4> QED
        BY <1>1, <2>2, <4>1, <4>2, <4>3, <4>4, <4>5 DEF RowStep
    <3> QED
      BY <3>1, <3>2 DEF WorkerInv
  <2>3. CASE v # w
    <3>1. worker'[v] = worker[v]
      BY <1>1, <2>3
    <3>2. ASSUME worker[v].id # 0
          PROVE  /\ runs'[worker[v].id] = runs[worker[v].id]
                 /\ \A u \in Workers : worker'[u].id = worker[v].id => u = v
      <4>1. worker[v].id \in DOMAIN runs /\ worker[v].id # worker[w].id
        BY <1>3, <1>4, <2>3, <3>2 DEF WorkerInv
      <4>2. \A u \in Workers : worker[u].id = worker[v].id => u = v
        BY <1>4, <3>2 DEF WorkerInv
      <4> QED
        BY <1>1, <1>2, <3>2, <4>1, <4>2
    <3>3. WorkerInv(v)
      BY <1>4
    <3> QED
      BY <1>1, <3>1, <3>2, <3>3 DEF WorkerInv
  <2> QED
    BY <2>1, <2>2, <2>3
<1>6. ASSUME NEW h \in Handlers PROVE HandlerInv(h)'
  <2> DEFINE i == handler[h].id
  <2>1. HandlerInv(h) /\ i \in {0} \cup DOMAIN runs
    BY DEF MonitorInv, TypeOK
  <2>2. ASSUME handler[h].pc = "stale"
        PROVE  i \in deceived' \/ \A v \in Workers : worker'[v].id # i
    <3>1. i # 0 /\ (i \in deceived \/ \A v \in Workers : worker[v].id # i)
      BY <2>1, <2>2 DEF HandlerInv
    <3> QED
      BY <1>1, <1>2, <3>1
  <2>3. ASSUME handler[h].pc = "stale" \/ (handler[h].pc = "found" /\ i \in silent')
        PROVE  i \in deceived' \/ runs'[i].status # "failed"
    <3>1. i # 0 /\ i \in DOMAIN runs
      BY <2>1, <2>3 DEF HandlerInv
    <3>2. CASE i = worker[w].id
      BY <1>1, <1>4, <2>1, <2>3, <3>1, <3>2 DEF HandlerInv, WorkerInv
    <3>3. CASE i # worker[w].id
      BY <1>1, <2>1, <2>3, <3>1, <3>3 DEF HandlerInv
    <3> QED
      BY <3>2, <3>3
  <2>4. handler[h].pc # "idle" => i # 0
    BY <2>1 DEF HandlerInv
  <2> QED
    BY <1>1, <2>2, <2>3, <2>4 DEF HandlerInv
<1>7. ASSUME NEW i \in DOMAIN runs PROVE RowInv(i)'
  <2>1. CASE i # worker[w].id
    BY <1>1, <2>1 DEF MonitorInv, RowInv
  <2>2. CASE i = worker[w].id
    <3>1. i # 0
      BY DomainRows DEF TypeOK
    <3> QED
      BY <2>2, <3>1 DEF OwnStep, RowStep, RowInv
  <2> QED
    BY <2>1, <2>2
<1> QED
  BY <1>1, <1>5, <1>6, <1>7 DEF MonitorInv

\* The id of a new row has never been seen before.
LEMMA StartRunInv ==
  ASSUME TypeOK, MonitorInv, NEW w \in Workers, NEW n \in Totals, StartRun(w, n)
  PROVE  MonitorInv'
<1> DEFINE started == [Idle EXCEPT !.pc = "hashing", !.total = n]
           row == [status |-> "running", total |-> n, successful |-> 0, failed |-> 0,
                   skipped |-> 0, error |-> "none"]
           new == Len(runs) + 1
<1>1. /\ n \in Nat \ {0}
      /\ runs \in Seq(Row) /\ worker \in [Workers -> Process]
      /\ silent \subseteq DOMAIN runs /\ deceived \subseteq DOMAIN runs
      /\ \A v \in Workers : worker[v].id \in {0} \cup DOMAIN runs
      /\ \A h \in Handlers : handler[h].id \in {0} \cup DOMAIN runs
  BY ConstantsAssumption DEF TypeOK
<1>2. started \in Process /\ started.id = 0 /\ CountsOnce(started)
  <2>1. /\ started \in Process /\ started.id = 0 /\ started.total = n
        /\ started.pc = "hashing" /\ started.successful = 0
        /\ started.failed = 0 /\ started.skipped = 0
    BY <1>1 DEF Process, Idle
  <2> HIDE DEF started
  <2> QED
    BY <1>1, <2>1 DEF CountsOnce, Counted
<1>3. row \in Row
  BY <1>1 DEF Row
<1>4. handler' = handler
  BY DEF StartRun
<1> HIDE DEF started
<1>5. CASE /\ worker' = [worker EXCEPT ![w] = started]
           /\ UNCHANGED <<runs, silent, deceived>>
  <2>1. ASSUME NEW v \in Workers PROVE WorkerInv(v)'
    <3>1. CASE v = w
      <4>1. worker'[v] = started
        BY <1>1, <1>5, <3>1
      <4> QED
        BY <1>2, <4>1 DEF WorkerInv
    <3>2. CASE v # w
      <4>1. worker'[v] = worker[v] /\ WorkerInv(v)
        BY <1>5, <3>2 DEF MonitorInv
      <4>2. \A u \in Workers : worker'[u].id \in {0, worker[u].id}
        BY <1>1, <1>2, <1>5
      <4> QED
        BY <1>5, <4>1, <4>2 DEF WorkerInv
    <3> QED
      BY <3>1, <3>2
  <2>2. \A v \in Workers : worker'[v].id \in {0, worker[v].id}
    BY <1>1, <1>2, <1>5
  <2>3. ASSUME NEW h \in Handlers PROVE HandlerInv(h)'
    BY <1>4, <1>5, <2>2 DEF MonitorInv, HandlerInv
  <2>4. ASSUME NEW i \in DOMAIN runs PROVE RowInv(i)'
    BY <1>5 DEF MonitorInv, RowInv
  <2> QED
    BY <1>5, <2>1, <2>3, <2>4 DEF MonitorInv
<1>6. CASE /\ runs' = Append(runs, row)
           /\ worker' = [worker EXCEPT ![w] = [started EXCEPT !.id = new]]
           /\ \/ UNCHANGED <<silent, deceived>>
              \/ silent' = silent \cup {new} /\ deceived' = deceived \cup {new}
  <2>1. /\ DOMAIN runs' = DOMAIN runs \cup {new}
        /\ \A i \in DOMAIN runs : runs'[i] = runs[i]
        /\ runs'[new] = row
        /\ new \notin DOMAIN runs /\ new # 0 /\ new \in Nat
    BY <1>1, <1>3, <1>6, AppendRow
  <2>2. /\ [started EXCEPT !.id = new].id = new
        /\ [started EXCEPT !.id = new].total = started.total
        /\ [started EXCEPT !.id = new].pc = started.pc
        /\ [started EXCEPT !.id = new].successful = started.successful
        /\ [started EXCEPT !.id = new].failed = started.failed
        /\ [started EXCEPT !.id = new].skipped = started.skipped
    BY <1>2 DEF Process
  <2>3. /\ started.total = n /\ started.pc = "hashing" /\ started.successful = 0
        /\ started.failed = 0 /\ started.skipped = 0
    BY DEF started, Idle
  <2>4. row.total = n /\ row.status = "running" /\ Counted(row) = 0
        /\ row.successful = 0 /\ row.failed = 0 /\ row.skipped = 0
    BY DEF Counted
  <2> HIDE DEF new, row
  <2>5. worker'[w].id = new /\ \A v \in Workers : v # w => worker'[v] = worker[v]
    BY <1>1, <1>6, <2>2
  <2>6. /\ new \in silent' => new \in deceived'
        /\ \A i \in DOMAIN runs : /\ i \in silent' <=> i \in silent
                                  /\ i \in deceived' <=> i \in deceived
    BY <1>1, <1>6, <2>1
  <2>7. ASSUME NEW v \in Workers PROVE WorkerInv(v)'
    <3>1. CASE v = w
      <4>1. /\ worker'[v].id = new /\ worker'[v].pc = "hashing" /\ worker'[v].total = n
            /\ worker'[v].successful = 0 /\ worker'[v].failed = 0
            /\ worker'[v].skipped = 0
        BY <1>1, <1>6, <2>2, <2>3, <3>1
      <4>2. CountsOnce(worker'[v])
        BY <1>1, <4>1 DEF CountsOnce, Counted
      <4>3. \A u \in Workers : worker'[u].id = new => u = v
        BY <1>1, <2>1, <2>5, <3>1
      <4>4. Below(row, worker'[v])
        BY <2>4, <4>1 DEF Below
      <4> QED
        BY <2>1, <2>4, <2>6, <4>1, <4>2, <4>3, <4>4 DEF WorkerInv
    <3>2. CASE v # w
      <4>1. worker'[v] = worker[v] /\ WorkerInv(v)
        BY <2>5, <3>2 DEF MonitorInv
      <4>2. ASSUME worker[v].id # 0
            PROVE  /\ worker[v].id \in DOMAIN runs
                   /\ \A u \in Workers : worker'[u].id = worker[v].id => u = v
        BY <1>1, <2>1, <2>5, <4>1, <4>2 DEF WorkerInv
      <4> QED
        BY <2>1, <2>6, <4>1, <4>2 DEF WorkerInv
    <3> QED
      BY <3>1, <3>2
  <2>8. ASSUME NEW h \in Handlers PROVE HandlerInv(h)'
    <3>1. HandlerInv(h) /\ handler[h].id \in {0} \cup DOMAIN runs
      BY <1>1 DEF MonitorInv
    <3>2. \A v \in Workers : worker'[v].id = handler[h].id /\ handler[h].id # 0
                               => worker[v].id = handler[h].id
      BY <1>1, <2>1, <2>5, <3>1
    <3> QED
      BY <1>4, <2>1, <2>6, <3>1, <3>2 DEF HandlerInv
  <2>9. ASSUME NEW i \in DOMAIN runs' PROVE RowInv(i)'
    <3>1. CASE i = new
      BY <1>1, <2>1, <2>4, <3>1 DEF RowInv
    <3>2. CASE i # new
      BY <2>1, <2>9, <3>2 DEF MonitorInv, RowInv
    <3> QED
      BY <3>1, <3>2
  <2> QED
    BY <2>7, <2>8, <2>9 DEF MonitorInv
<1> QED
  BY <1>5, <1>6 DEF StartRun, started

\* A step that leaves the workers and all counters alone.
LEMMA BystanderInv ==
  ASSUME TypeOK, MonitorInv, UNCHANGED worker, DOMAIN runs' = DOMAIN runs,
         \A j \in DOMAIN runs : /\ runs'[j].total = runs[j].total
                                /\ runs'[j].successful = runs[j].successful
                                /\ runs'[j].failed = runs[j].failed
                                /\ runs'[j].skipped = runs[j].skipped,
         deceived \subseteq deceived',
         \A v \in Workers : worker[v].id # 0 /\ worker[v].id \notin deceived'
           => /\ worker[v].id \in silent' => worker[v].id \in silent
              /\ runs'[worker[v].id].status = runs[worker[v].id].status,
         \A h \in Handlers : HandlerInv(h)'
  PROVE  MonitorInv'
<1>1. ASSUME NEW v \in Workers PROVE WorkerInv(v)'
  <2>1. WorkerInv(v) /\ worker[v].id \in {0} \cup DOMAIN runs
    BY DEF MonitorInv, TypeOK
  <2>2. CASE worker[v].id = 0
    BY <2>1, <2>2 DEF WorkerInv
  <2>3. CASE worker[v].id # 0
    <3>1. worker[v].id \in DOMAIN runs
      BY <2>1, <2>3
    <3> QED
      BY <2>1, <2>3, <3>1 DEF WorkerInv, Below
  <2> QED
    BY <2>2, <2>3
<1>2. ASSUME NEW i \in DOMAIN runs PROVE RowInv(i)'
  BY DEF MonitorInv, RowInv, Counted
<1> QED
  BY <1>1, <1>2 DEF MonitorInv

\* What a request may know of a row: nothing but that it is there.
LEMMA OfHandler ==
  ASSUME TypeOK, MonitorInv, NEW h \in Handlers
  PROVE  /\ handler[h] \in Finalizer /\ handler \in [Handlers -> Finalizer]
         /\ HandlerInv(h)
         /\ handler[h].pc # "idle" => /\ handler[h].id \in DOMAIN runs
                                      /\ handler[h].id \in Nat \ {0}
                                      /\ runs[handler[h].id] \in Row
         /\ runs \in Seq(Row)
<1>1. handler[h].id \in {0} \cup DOMAIN runs /\ HandlerInv(h) /\ runs \in Seq(Row)
  BY DEF TypeOK, MonitorInv
<1>2. handler[h] \in Finalizer /\ handler \in [Handlers -> Finalizer]
  BY DEF TypeOK
<1>3. handler[h].pc # "idle" => handler[h].id \in DOMAIN runs
  BY <1>1 DEF HandlerInv
<1> QED
  BY <1>1, <1>2, <1>3, DomainRows

LEMMA FindRunningInv ==
  ASSUME TypeOK, MonitorInv, NEW h \in Handlers, FindRunning(h)
  PROVE  TypeOK' /\ MonitorInv'
<1>1. PICK i \in RowsWith("running") :
        handler' = [handler EXCEPT ![h] = [pc |-> "found", id |-> i]]
  BY DEF FindRunning
<1>2. UNCHANGED <<runs, aged, silent, worker, deceived, faults>>
  BY DEF FindRunning, clock
<1>3. i \in DOMAIN runs /\ i \in Nat \ {0} /\ runs[i].status = "running"
  BY DomainRows DEF RowsWith, TypeOK
<1>4. [pc |-> "found", id |-> i] \in Finalizer
  BY <1>3 DEF Finalizer
<1>5. TypeOK'
  BY <1>1, <1>2, <1>3, <1>4 DEF TypeOK
<1>6. ASSUME NEW g \in Handlers PROVE HandlerInv(g)'
  <2>1. handler'[g] = IF g = h THEN [pc |-> "found", id |-> i] ELSE handler[g]
    BY <1>1, OfHandler
  <2>2. HandlerInv(g)
    BY DEF MonitorInv
  <2> QED
    BY <1>2, <1>3, <2>1, <2>2 DEF HandlerInv
<1> QED
  BY <1>2, <1>5, <1>6, BystanderInv

\* Silence convicts only the dead and those who have deceived.
LEMMA JudgeStaleInv ==
  ASSUME TypeOK, MonitorInv, NEW h \in Handlers, JudgeStale(h)
  PROVE  TypeOK' /\ MonitorInv'
<1> DEFINE i == handler[h].id
<1>1. /\ handler[h].pc = "found" /\ UNCHANGED <<runs, aged, silent, worker>>
      /\ i \in DOMAIN runs /\ i # 0 /\ HandlerInv(h)
      /\ handler \in [Handlers -> Finalizer] /\ handler[h] \in Finalizer
  BY OfHandler DEF JudgeStale, clock
<1>2. PICK pc \in {"stale", "idle"} : handler' = [handler EXCEPT ![h].pc = pc]
  <2>1. \/ handler' = [handler EXCEPT ![h].pc = IF i \in aged \cap silent THEN "stale"
                                                ELSE "idle"]
        \/ handler' = [handler EXCEPT ![h].pc = IF i \in aged THEN "stale" ELSE "idle"]
    BY DEF JudgeStale, Exec
  <2> QED
    BY <2>1
<1>3. /\ deceived \subseteq deceived' /\ deceived' \subseteq deceived \cup {i}
      /\ faults' \in {faults, faults + 1}
  BY DEF JudgeStale, Exec, Fault
<1>4. pc = "stale" => i \in silent \/ i \in deceived'
  <2>1. handler'[h].pc = pc
    BY <1>1, <1>2 DEF Finalizer
  <2>2. CASE handler' = [handler EXCEPT ![h].pc = IF i \in aged \cap silent THEN "stale"
                                                  ELSE "idle"]
    <3>1. handler'[h].pc = IF i \in aged \cap silent THEN "stale" ELSE "idle"
      BY <1>1, <2>2 DEF Finalizer
    <3> QED
      BY <2>1, <3>1
  <2> QED
    BY <2>2 DEF JudgeStale, Exec
<1>5. \A g \in Handlers :
        /\ handler'[g].id = handler[g].id
        /\ handler'[g].pc = IF g = h THEN pc ELSE handler[g].pc
        /\ handler'[g] \in Finalizer
  BY <1>1, <1>2 DEF Finalizer
<1>6. TypeOK'
  <2>1. handler' \in [Handlers -> Finalizer]
    BY <1>1, <1>2 DEF Finalizer
  <2>2. deceived' \subseteq DOMAIN runs
    BY <1>1, <1>3 DEF TypeOK
  <2>3. \A g \in Handlers : handler'[g].id \in {0} \cup DOMAIN runs
    BY <1>5 DEF TypeOK
  <2>4. faults' \in Nat
    BY <1>3 DEF TypeOK
  <2> QED
    BY <1>1, <2>1, <2>2, <2>3, <2>4 DEF TypeOK
<1>7. ASSUME NEW g \in Handlers PROVE HandlerInv(g)'
  <2>1. CASE g # h
    <3>1. HandlerInv(g) /\ handler'[g].id = handler[g].id /\ handler'[g].pc = handler[g].pc
      BY <1>5, <2>1 DEF MonitorInv
    <3> QED
      BY <1>1, <1>3, <3>1 DEF HandlerInv
  <2>2. CASE g = h
    <3>1. ASSUME pc = "stale", i \notin deceived'
          PROVE  /\ \A w \in Workers : worker[w].id # i
                 /\ runs[i].status # "failed"
      <4>1. i \in silent /\ i \notin deceived
        BY <1>3, <1>4, <3>1
      <4>2. \A w \in Workers : worker[w].id # i
        BY <1>1, <4>1 DEF MonitorInv, WorkerInv
      <4> QED
        BY <1>1, <4>1, <4>2 DEF HandlerInv
    <3>2. handler'[g].id = i /\ handler'[g].pc = pc
      BY <1>5, <2>2
    <3> HIDE DEF i
    <3> QED
      BY <1>1, <3>1, <3>2 DEF HandlerInv
  <2> QED
    BY <2>1, <2>2
<1> QED
  BY <1>1, <1>3, <1>6, <1>7, BystanderInv

\* The statements that write only change status or error of their row.
LEMMA FinalizeStep ==
  ASSUME TypeOK, MonitorInv, NEW h \in Handlers, FinalizeRun(h) \/ FinalizeError(h)
  PROVE  LET i == handler[h].id IN
         /\ i \in DOMAIN runs /\ i # 0
         /\ runs' \in Seq(Row) /\ DOMAIN runs' = DOMAIN runs
         /\ \A j \in DOMAIN runs : /\ runs'[j].total = runs[j].total
                                   /\ runs'[j].successful = runs[j].successful
                                   /\ runs'[j].failed = runs[j].failed
                                   /\ runs'[j].skipped = runs[j].skipped
         /\ \A j \in DOMAIN runs : runs'[j].status # runs[j].status
              => j = i /\ runs'[j].status = "completed" /\ handler[h].pc = "stale"
         /\ \E pc \in {"marked", "idle"} : handler' = [handler EXCEPT ![h].pc = pc]
         /\ faults' \in {faults, faults + 1}
         /\ UNCHANGED <<aged, silent, worker, deceived>>
<1> DEFINE i == handler[h].id
           completed == [runs[i] EXCEPT !.status = "completed"]
           noted == [runs[i] EXCEPT !.error = IF @ = "none" THEN "stale" ELSE @]
<1>1. handler[h].pc # "idle" /\ i \in DOMAIN runs /\ i # 0 /\ runs[i] \in Row
  BY OfHandler DEF FinalizeRun, FinalizeError
<1>2. /\ completed \in Row /\ completed.status = "completed"
      /\ completed.total = runs[i].total /\ completed.successful = runs[i].successful
      /\ completed.failed = runs[i].failed /\ completed.skipped = runs[i].skipped
  BY <1>1 DEF Row
<1>3. /\ noted \in Row /\ noted.status = runs[i].status
      /\ noted.total = runs[i].total /\ noted.successful = runs[i].successful
      /\ noted.failed = runs[i].failed /\ noted.skipped = runs[i].skipped
  BY <1>1 DEF Row
<1>4. \/ UNCHANGED runs
      \/ runs' = [runs EXCEPT ![i] = completed] /\ handler[h].pc = "stale"
      \/ runs' = [runs EXCEPT ![i] = noted]
  BY DEF FinalizeRun, FinalizeError, Exec
<1>5. /\ \E pc \in {"marked", "idle"} : handler' = [handler EXCEPT ![h].pc = pc]
      /\ UNCHANGED <<aged, silent, worker, deceived>>
  BY DEF FinalizeRun, FinalizeError, clock
<1>6. faults' \in {faults, faults + 1}
  BY DEF FinalizeRun, FinalizeError, Exec, Fault
<1> HIDE DEF i, completed, noted
<1>7. CASE UNCHANGED runs
  BY <1>1, <1>5, <1>6, <1>7 DEF TypeOK, i
<1>8. CASE runs' = [runs EXCEPT ![i] = completed] /\ handler[h].pc = "stale"
  BY <1>1, <1>2, <1>5, <1>6, <1>8, Rewrite DEF i
<1>9. CASE runs' = [runs EXCEPT ![i] = noted]
  BY <1>1, <1>3, <1>5, <1>6, <1>9, Rewrite DEF i
<1> QED
  BY <1>4, <1>7, <1>8, <1>9

LEMMA FinalizeInv ==
  ASSUME TypeOK, MonitorInv, NEW h \in Handlers, FinalizeRun(h) \/ FinalizeError(h)
  PROVE  TypeOK' /\ MonitorInv'
<1> DEFINE i == handler[h].id
<1>1. /\ i \in DOMAIN runs /\ i # 0
      /\ runs' \in Seq(Row) /\ DOMAIN runs' = DOMAIN runs
      /\ faults' \in {faults, faults + 1}
      /\ UNCHANGED <<aged, silent, worker, deceived>>
  BY FinalizeStep
<1>2. \A j \in DOMAIN runs : /\ runs'[j].total = runs[j].total
                             /\ runs'[j].successful = runs[j].successful
                             /\ runs'[j].failed = runs[j].failed
                             /\ runs'[j].skipped = runs[j].skipped
  BY FinalizeStep
<1>3. \A j \in DOMAIN runs : runs'[j].status # runs[j].status
        => j = i /\ runs'[j].status = "completed" /\ handler[h].pc = "stale"
  BY FinalizeStep
<1>4. PICK pc \in {"marked", "idle"} : handler' = [handler EXCEPT ![h].pc = pc]
  BY FinalizeStep
<1>5. /\ handler' \in [Handlers -> Finalizer]
      /\ \A g \in Handlers : /\ handler'[g].id = handler[g].id
                             /\ handler'[g].pc = IF g = h THEN pc ELSE handler[g].pc
  BY <1>4, OfHandler DEF Finalizer
<1>6. TypeOK'
  <2>1. \A g \in Handlers : handler'[g].id \in {0} \cup DOMAIN runs
    BY <1>5 DEF TypeOK
  <2>2. faults' \in Nat
    BY <1>1 DEF TypeOK
  <2> QED
    BY <1>1, <1>5, <2>1, <2>2 DEF TypeOK
<1>7. ASSUME NEW g \in Handlers PROVE HandlerInv(g)'
  <2>1. HandlerInv(g) /\ handler[g].id \in {0} \cup DOMAIN runs
    BY DEF MonitorInv, TypeOK
  <2>2. CASE g = h
    BY <1>1, <1>5, <2>2 DEF HandlerInv
  <2>3. CASE g # h
    <3>1. handler'[g].id = handler[g].id /\ handler'[g].pc = handler[g].pc
      BY <1>5, <2>3
    <3>2. handler[g].pc # "idle"
            => runs'[handler[g].id].status \in {runs[handler[g].id].status, "completed"}
      BY <1>3, <2>1 DEF HandlerInv
    <3> QED
      BY <1>1, <2>1, <3>1, <3>2 DEF HandlerInv
  <2> QED
    BY <2>2, <2>3
<1>8. ASSUME NEW v \in Workers, worker[v].id # 0, worker[v].id \notin deceived
      PROVE  runs'[worker[v].id].status = runs[worker[v].id].status
  <2>1. worker[v].id \in DOMAIN runs
    BY <1>8 DEF TypeOK
  <2>2. CASE handler[h].pc = "stale" /\ worker[v].id = i
    BY <1>8, <2>2 DEF MonitorInv, HandlerInv
  <2> QED
    BY <1>3, <2>1, <2>2
<1> QED
  BY <1>1, <1>2, <1>6, <1>7, <1>8, BystanderInv

\* A run that falls silent is dead or deceives; one that a request has found
\* does not fall silent once it has failed.
LEMMA TimeInv ==
  ASSUME TypeOK, MonitorInv, NEW i \in DOMAIN runs, Age(i) \/ FallSilent(i)
  PROVE  TypeOK' /\ MonitorInv'
<1>1. /\ UNCHANGED <<runs, worker, handler, faults>>
      /\ aged' \subseteq aged \cup {i} /\ silent' \subseteq silent \cup {i}
      /\ deceived \subseteq deceived' /\ deceived' \subseteq deceived \cup {i}
  BY DEF Age, FallSilent
<1>2. TypeOK'
  BY <1>1 DEF TypeOK
<1>3. i # 0
  BY DomainRows DEF TypeOK
<1>4. ASSUME i \in silent', i \notin silent, i \notin deceived'
      PROVE  /\ \A w \in Workers : worker[w].id # i
             /\ \/ runs[i].status = "running"
                \/ \A h \in Handlers : handler[h].pc = "idle" \/ handler[h].id # i
  <2>1. FallSilent(i) /\ ~Alive(i)
    BY <1>4 DEF Age, FallSilent
  <2>2. ASSUME NEW w \in Workers PROVE worker[w].id # i
    BY <1>3, <2>1 DEF Alive, Owns, MonitorInv, WorkerInv, CountsOnce, Idle
  <2>3. \/ runs[i].status = "running"
        \/ \A h \in Handlers : handler[h].pc = "idle" \/ handler[h].id # i
    BY <2>1 DEF FallSilent
  <2> QED
    BY <2>2, <2>3
<1>5. ASSUME NEW h \in Handlers PROVE HandlerInv(h)'
  <2>1. HandlerInv(h)
    BY DEF MonitorInv
  <2> QED
    BY <1>1, <1>4, <2>1 DEF HandlerInv
<1>6. ASSUME NEW v \in Workers, worker[v].id # 0, worker[v].id \notin deceived',
             worker[v].id \in silent'
      PROVE  worker[v].id \in silent
  BY <1>1, <1>4, <1>6
<1> QED
  BY <1>1, <1>2, <1>5, <1>6, BystanderInv

LEMMA NextInv ==
  ASSUME TypeOK, MonitorInv, [Next]_vars
  PROVE  TypeOK' /\ MonitorInv'
<1>1. ASSUME NEW w \in Workers, WorkerStep(w) \/ Crash(w) PROVE TypeOK' /\ MonitorInv'
  BY <1>1, WorkerStepIsOwn, OwnStepTypeOK, OwnStepInv
<1>2. ASSUME NEW w \in Workers, NEW n \in Totals, StartRun(w, n)
      PROVE  TypeOK' /\ MonitorInv'
  BY <1>2, StartRunType, StartRunInv
<1>3. ASSUME NEW h \in Handlers, HandlerStep(h) PROVE TypeOK' /\ MonitorInv'
  BY <1>3, FindRunningInv, JudgeStaleInv, FinalizeInv DEF HandlerStep
<1>4. CASE UNCHANGED vars
  BY <1>4 DEF vars, clock, TypeOK, MonitorInv, WorkerInv, HandlerInv, RowInv
<1> QED
  BY <1>1, <1>2, <1>3, <1>4, TimeInv DEF Next, TimeStep

-----------------------------------------------------------------------------
(* What it is for.                                                         *)

\* The invariant holds in every reachable state, for all constants.
THEOREM Invariance == Spec => [](TypeOK /\ MonitorInv)
<1>1. Init => TypeOK /\ MonitorInv
  BY InitType, InitInv
<1>2. TypeOK /\ MonitorInv /\ [Next]_vars => TypeOK' /\ MonitorInv'
  BY NextInv
<1> QED
  BY <1>1, <1>2, PTL DEF Spec

\* The variables keep their types; in particular no process and no request ever
\* refers to a row that does not exist.
THEOREM TypeCorrect == Spec => []TypeOK
  BY Invariance, PTL

\* However many machines, requests and rows there are, whichever statements are
\* lost and whenever processes die: the finalizer does not touch the row of a
\* live run whose log can be trusted.
THEOREM OnlyTheDead == Spec => []FinalizesOnlyTheDead
<1>1. MonitorInv => FinalizesOnlyTheDead
  BY DEF MonitorInv, WorkerInv, FinalizesOnlyTheDead, AtWork, Working
<1> QED
  BY <1>1, Invariance, PTL

\* Most steps leave the rows that are there as they are.
LEMMA RowsStay ==
  ASSUME TypeOK, NEW i \in DOMAIN runs,
         \/ \E w \in Workers, n \in Totals : StartRun(w, n)
         \/ \E h \in Handlers : FindRunning(h) \/ JudgeStale(h)
         \/ TimeStep
         \/ UNCHANGED vars
  PROVE  runs'[i] = runs[i]
<1>1. ASSUME NEW w \in Workers, NEW n \in Totals, StartRun(w, n)
      PROVE  runs'[i] = runs[i]
  <2> DEFINE row == [status |-> "running", total |-> n, successful |-> 0, failed |-> 0,
                     skipped |-> 0, error |-> "none"]
  <2>1. row \in Row
    BY ConstantsAssumption DEF Row
  <2>2. runs' = Append(runs, row) \/ runs' = runs
    BY <1>1 DEF StartRun
  <2> QED
    BY <2>1, <2>2, AppendRow DEF TypeOK
<1> QED
  BY <1>1 DEF FindRunning, JudgeStale, TimeStep, Age, FallSilent, vars

\* A run that its worker completed as failed is never shown as completed, unless
\* its log deceives: a run changes its status only while its worker works, and
\* the finalizer writes only what it judged after the run fell silent.
THEOREM FailedForGood == Spec => FailedStaysFailed
<1> DEFINE A == \A i \in RowsWith("failed") \ deceived : runs'[i].status = "failed"
<1>1. ASSUME TypeOK, MonitorInv, [Next]_vars PROVE A
  <2> SUFFICES ASSUME NEW i \in DOMAIN runs, runs[i].status = "failed", i \notin deceived
               PROVE  runs'[i].status = "failed"
    BY DEF RowsWith
  <2> USE <1>1
  <2>1. ASSUME NEW w \in Workers, NEW p \in Process, OwnStep(w, p)
        PROVE  runs'[i].status = "failed"
    <3>1. CASE i # worker[w].id
      BY <2>1, <3>1 DEF OwnStep
    <3>2. CASE i = worker[w].id
      <4>1. i # 0
        BY DomainRows DEF TypeOK
      <4>2. RowStep(w, p, runs[i], runs'[i])
        BY <2>1, <3>2, <4>1 DEF OwnStep
      <4>3. worker[w].pc \notin Working
        BY <3>2, <4>1 DEF MonitorInv, WorkerInv
      <4> QED
        BY <4>2, <4>3 DEF RowStep
    <3> QED
      BY <3>1, <3>2
  <2>2. ASSUME NEW h \in Handlers, FinalizeRun(h) \/ FinalizeError(h)
        PROVE  runs'[i].status = "failed"
    <3>1. runs'[i].status # runs[i].status => i = handler[h].id /\ handler[h].pc = "stale"
      BY <2>2, FinalizeStep
    <3>2. HandlerInv(h)
      BY DEF MonitorInv
    <3> QED
      BY <3>1, <3>2 DEF HandlerInv
  <2>3. ASSUME NEW w \in Workers, WorkerStep(w) \/ Crash(w)
        PROVE  runs'[i].status = "failed"
    BY <2>1, <2>3, WorkerStepIsOwn
  <2> QED
    BY <1>1, <2>2, <2>3, RowsStay DEF Next, HandlerStep
<1>2. TypeOK /\ MonitorInv /\ [Next]_vars => [A]_vars
  BY <1>1
<1> QED
  BY <1>2, Invariance, PTL DEF Spec, FailedStaysFailed

\* Whatever statement is lost, the counters of a row never shrink and never
\* exceed the number of repositories of the run.
THEOREM CountersGrow == Spec => ProgressOnlyGrows
<1> DEFINE A == \A i \in DOMAIN runs :
                  /\ runs'[i].successful >= runs[i].successful
                  /\ runs'[i].failed >= runs[i].failed
                  /\ runs'[i].skipped >= runs[i].skipped
                  /\ runs'[i].successful + runs'[i].failed + runs'[i].skipped
                       <= runs'[i].total
<1>1. ASSUME TypeOK, MonitorInv, [Next]_vars PROVE A
  <2> SUFFICES ASSUME NEW i \in DOMAIN runs
               PROVE  /\ runs'[i].successful >= runs[i].successful
                      /\ runs'[i].failed >= runs[i].failed
                      /\ runs'[i].skipped >= runs[i].skipped
                      /\ runs'[i].successful + runs'[i].failed + runs'[i].skipped
                           <= runs'[i].total
    OBVIOUS
  <2> USE <1>1
  <2> DEFINE Grows == Below(runs[i], runs'[i]) /\ Counted(runs'[i]) <= runs'[i].total
  <2>1. runs[i] \in Row /\ RowInv(i)
    BY DomainRows DEF TypeOK, MonitorInv
  <2>2. ASSUME runs'[i] = runs[i] PROVE Grows
    BY <2>1, <2>2, BelowReflexive DEF RowInv
  <2>3. ASSUME NEW w \in Workers, NEW p \in Process, OwnStep(w, p) PROVE Grows
    <3>1. CASE i # worker[w].id
      BY <2>2, <2>3, <3>1 DEF OwnStep
    <3>2. CASE i = worker[w].id
      <4>1. i # 0
        BY DomainRows DEF TypeOK
      <4>2. RowStep(w, p, runs[i], runs'[i])
        BY <2>3, <3>2, <4>1 DEF OwnStep
      <4> QED
        BY <4>2 DEF RowStep
    <3> QED
      BY <3>1, <3>2
  <2>4. ASSUME NEW h \in Handlers, FinalizeRun(h) \/ FinalizeError(h) PROVE Grows
    <3>1. /\ runs'[i].total = runs[i].total
          /\ runs'[i].successful = runs[i].successful
          /\ runs'[i].failed = runs[i].failed
          /\ runs'[i].skipped = runs[i].skipped
      BY <2>4, FinalizeStep
    <3> QED
      BY <2>1, <3>1, BelowReflexive DEF RowInv, Below, Counted
  <2>5. Grows
    <3>1. ASSUME NEW w \in Workers, WorkerStep(w) \/ Crash(w) PROVE Grows
      BY <2>3, <3>1, WorkerStepIsOwn
    <3> QED
      BY <1>1, <2>2, <2>4, <3>1, RowsStay DEF Next, HandlerStep
  <2> QED
    BY <2>5 DEF Below, Counted
<1>2. TypeOK /\ MonitorInv /\ [Next]_vars => [A]_vars
  BY <1>1
<1> QED
  BY <1>2, Invariance, PTL DEF Spec, ProgressOnlyGrows

=============================================================================
