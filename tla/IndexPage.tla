----------------------------- MODULE IndexPage -----------------------------
(***************************************************************************)
(* The embeddings page of one browser tab and the embedding generations of *)
(* the agent server: building an index batch by batch, by hand or with the *)
(* auto-processing loop, following its progress, and activating it, while  *)
(* other clients start, prune and delete generations.                      *)
(*                                                                         *)
(* The records are those of all source tables together, which are read at  *)
(* once; they come and go by themselves, and an id is not used again.      *)
(* Every record has one chunk; whether the chunks, the metadata and the    *)
(* errors of a job are written is what the state of the job stands for.    *)
(* An answer of the server is with the page at once, except that of a      *)
(* status request, which may be overtaken.                                 *)
(***************************************************************************)
EXTENDS Naturals, FiniteSets, Sequences, Subsequences

CONSTANTS
  Models,       \* embedding models
  Items,        \* ids of the source records, numbers
  Sizes,        \* batch sizes offered
  Default,      \* the batch size of a fresh page
  MaxAttempts,  \* embedding_jobs.max_attempts (3 in the code)
  MaxGens,      \* bound: generations
  MaxCalls,     \* bound: calls under way
  Records,      \* what had become of the records by the time the tab opens
  MaxEvents     \* bound: clicks other than refresh, failures, crashes, slow
                \*   batches, navigations, calls of other clients and records
                \*   that come or go

ASSUME ConstantsAssumption ==
  /\ Models # {} /\ Items # {} /\ Sizes # {}
  /\ Default \in Sizes
  /\ IsFiniteSet(Items) /\ Items \subseteq Nat /\ Sizes \subseteq Nat \ {0}
  /\ {MaxAttempts, MaxGens, MaxCalls} \subseteq Nat \ {0}
  /\ Records \subseteq [Items -> {"to come", "there", "deleted"}]
  /\ MaxEvents \in Nat

VARIABLES
  here,       \* is the page mounted?
  signedIn,   \* isAuthenticated
  chosen,     \* selectedEmbedding
  shown,      \* genStatus, with id 0 for null
  auto,       \* isAutoProcessing, and autoProcessRef
  size,       \* batchSize
  calls,      \* calls of the page's handlers, down to the server's part
  gens,       \* embedding_generations, with their embedding_jobs
  locks,      \* calls whose transaction has or awaits a generation's row lock, in order
  records,    \* the source records: to come, there, or deleted
  complete,   \* history: generations that had all their jobs completed
  built,      \* history: generations that had as many jobs completed as their total
  recounted,  \* history: generations whose total was set below the number of jobs
  events      \* events so far

page == <<here, signedIn, chosen, shown, auto, size>>
past == <<complete, built, recounted>>
vars == <<page, calls, gens, locks, records, past, events>>

Gens == 1..MaxGens
Calls == 1..MaxCalls

----------------------------------------------------------------------------
(* Data *)

There == {i \in Items : records[i] = "there"}

NoStatus == [id |-> 0, status |-> "none", total |-> 0, done |-> 0]

First == CHOOSE m \in Models : TRUE

NoJob == [state |-> "none", tries |-> 0]
NoGen == [status |-> "none", model |-> First, total |-> 0, done |-> 0, outlived |-> FALSE,
          jobs |-> [i \in Items |-> NoJob]]

Present == {g \in Gens : gens[g].status \in {"BUILDING", "ACTIVE"}}
Unused == {g \in Gens : gens[g].status = "none"}
Least(S) == CHOOSE x \in S : \A y \in S : x <= y
Greatest(S) == CHOOSE x \in S : \A y \in S : y <= x

InState(g, S) == {i \in Items : gens[g].jobs[i].state \in S}
JobsOf(gen) == {i \in Items : gen.jobs[i].state # "none"}
CompletedIn(gen) == {i \in Items : gen.jobs[i].state = "completed"}
IsComplete(gen) == JobsOf(gen) # {} /\ JobsOf(gen) = CompletedIn(gen)
IsBuilt(gen) == gen.total > 0 /\ Cardinality(CompletedIn(gen)) >= gen.total

(* DELETE FROM embedding_generations: the jobs go with them. *)
Deleted(gs, S) ==
  [g \in Gens |-> IF g \in S THEN [NoGen EXCEPT !.status = "gone", !.model = gs[g].model,
                                      !.outlived = gs[g].outlived]
                 ELSE gs[g]]

Idle == [kind |-> "none", pc |-> "idle", page |-> "none", current |-> FALSE, gen |-> 0, size |-> 0,
         model |-> First, scanned |-> {}, todo |-> {}, found |-> {}, gone |-> {}, outcome |-> "",
         count |-> 0, more |-> FALSE, seen |-> NoStatus]

ServerSide ==
  {"sent", "looking", "inserting", "scanning", "enqueuing", "embedding", "storing"}

(* The jobs of a batch: to be looked up, with their record found, without   *)
JobsHeld(call) == call.todo \union call.found \union call.gone

(* The jobs a storing transaction writes: when the API has failed, all of   *)
(* the batch, also those it has let fail before.                            *)
Writes(call) == call.found \union IF call.outcome = "failed" THEN call.gone ELSE {}

(* Their rows are locked until it commits. *)
LockedJobs(g) ==
  UNION {Writes(calls[locks[i]]) : i \in {j \in DOMAIN locks : calls[locks[j]].gen = g}}

(* A transaction that changes a locked row waits; a DELETE also for the jobs. *)
Unlocked(S) == \A i \in DOMAIN locks : calls[locks[i]].gen \notin S

FreeIn(cs) == {c \in Calls : cs[c] = Idle}
Free == FreeIn(calls)

(* A request of the page *)
Request(kind, pc) == [Idle EXCEPT !.kind = kind, !.pc = pc, !.page = "here"]

Sends(kind, pc) == calls' = [calls EXCEPT ![Least(Free)] = Request(kind, pc)]

IsBuilding == shown.status = "BUILDING"
(* Seeded bug: an empty generation counts as built. *)
ReadyWhenEmpty == IsBuilding /\ shown.done >= shown.total

IsReadyToActivate == IsBuilding /\ shown.total > 0 /\ shown.done >= shown.total

----------------------------------------------------------------------------
Init ==
  /\ here = TRUE /\ signedIn = TRUE
  /\ chosen = First
  /\ shown = NoStatus
  /\ auto = FALSE
  /\ size = Default
  /\ calls = [c \in Calls |-> IF c = 1 THEN Request("read", "asking") ELSE Idle]
  /\ records \in Records
  /\ LET scanned == {i \in Items : records[i] # "to come"}
     IN gens = [g \in Gens |-> IF g = 1
          THEN [NoGen EXCEPT !.status = "BUILDING", !.total = Cardinality(scanned),
                             !.jobs = [i \in Items |-> IF i \in scanned
                                         THEN [state |-> "pending", tries |-> 0] ELSE NoJob]]
          ELSE NoGen]
  /\ locks = <<>>
  /\ complete = {} /\ built = {} /\ recounted = {}
  /\ events = 0

----------------------------------------------------------------------------
(* The page *)

View == here /\ signedIn
(* isStartingGen, isActivating, isProcessingSingle: up while the handler runs. *)
Busy(kind) == \E c \in Calls : calls[c].kind = kind /\ calls[c].page = "here"

Toolbar == View /\ shown.id # 0

(* Seeded bug: the effect has no cleanup. *)
RerunOver(cs, on, id, sz) ==
  LET loop == [Request("loop", "sent") EXCEPT !.current = TRUE, !.gen = id, !.size = sz]
  IN IF on /\ id # 0 THEN [cs EXCEPT ![Least(FreeIn(cs))] = loop] ELSE cs

(* The effect of the auto-processing loop, run again because one of its     *)
(* dependencies changed: the timer of the loop it had started is cleared, a *)
(* batch of that loop under way is not, and a new loop begins at once.      *)
Rerun(cs, on, id, sz) ==
  LET left == [c \in Calls |->
        IF cs[c].current
        THEN IF cs[c].pc = "waiting" THEN Idle ELSE [cs[c] EXCEPT !.current = FALSE]
        ELSE cs[c]]
      loop == [Request("loop", "sent") EXCEPT !.current = TRUE, !.gen = id, !.size = sz]
  IN IF on /\ id # 0 THEN [left EXCEPT ![Least(FreeIn(left))] = loop] ELSE left

Choose(m) ==
  /\ events < MaxEvents
  /\ here /\ m # chosen
  /\ chosen' = m
  /\ events' = events + 1
  /\ UNCHANGED <<here, signedIn, shown, auto, size, calls, gens, locks, records, past>>

(* Seeded bug: polling stops when everything is embedded. *)
PollTillReady ==
  /\ View /\ IsBuilding /\ shown.done < shown.total /\ ~auto /\ ~Busy("read") /\ Free # {}
  /\ Sends("read", "asking")
  /\ UNCHANGED <<page, gens, locks, records, past, events>>

(* The request of the button is like one of the polling.  Bound: one such   *)
(* request at a time, which is also what isRefreshing is for.               *)
HandleManualRefresh ==
  /\ Toolbar /\ ~Busy("read") /\ Free # {}
  /\ Sends("read", "asking")
  /\ UNCHANGED <<page, gens, locks, records, past, events>>

(* Every 3.5 seconds while a generation is shown as being built; the loop   *)
(* asks for itself.                                                         *)
Poll ==
  /\ View /\ IsBuilding /\ ~auto /\ ~Busy("read") /\ Free # {}
  /\ Sends("read", "asking")
  /\ UNCHANGED <<page, gens, locks, records, past, events>>

HandleStartGeneration ==
  /\ events < MaxEvents
  /\ View /\ ~Busy("start") /\ ~auto /\ Free # {}
  /\ calls' = [calls EXCEPT ![Least(Free)] = [Request("start", "sent") EXCEPT !.model = chosen]]
  /\ events' = events + 1
  /\ UNCHANGED <<here, signedIn, chosen, shown, auto, size, gens, locks, records, past>>

HandleProcessSingleBatch ==
  /\ events < MaxEvents
  /\ Toolbar /\ IsBuilding /\ ~IsReadyToActivate
  /\ ~auto /\ ~Busy("single") /\ Free # {}
  /\ calls' = [calls EXCEPT ![Least(Free)] =
                 [Request("single", "sent") EXCEPT !.gen = shown.id, !.size = size]]
  /\ events' = events + 1
  /\ UNCHANGED <<here, signedIn, chosen, shown, auto, size, gens, locks, records, past>>

ToggleAutoProcess ==
  /\ events < MaxEvents
  /\ Toolbar /\ IsBuilding /\ ~IsReadyToActivate /\ (auto \/ Free # {})
  /\ auto' = ~auto
  /\ calls' = Rerun(calls, auto', shown.id, size)
  /\ events' = events + 1
  /\ UNCHANGED <<here, signedIn, chosen, shown, size, gens, locks, records, past>>

SetBatchSize(n) ==
  /\ events < MaxEvents
  /\ Toolbar /\ IsBuilding /\ ~IsReadyToActivate /\ n # size
  /\ auto => FreeIn(Rerun(calls, FALSE, 0, n)) # {}
  /\ size' = n
  /\ calls' = Rerun(calls, auto, shown.id, n)
  /\ events' = events + 1
  /\ UNCHANGED <<here, signedIn, chosen, shown, auto, gens, locks, records, past>>

HandleActivateGeneration ==
  /\ events < MaxEvents
  /\ Toolbar /\ IsReadyToActivate /\ ~Busy("activate") /\ Free # {}
  /\ calls' = [calls EXCEPT ![Least(Free)] =
                 [Request("activate", "sent") EXCEPT !.gen = shown.id]]
  /\ events' = events + 1
  /\ UNCHANGED <<here, signedIn, chosen, shown, auto, size, gens, locks, records, past>>

Waiting(call) ==
  [call EXCEPT !.pc = "waiting", !.scanned = {}, !.todo = {}, !.found = {}, !.gone = {},
               !.outcome = "", !.count = 0, !.more = FALSE, !.seen = NoStatus]

(* The timer of a loop: 500 ms after a batch *)
RunLoop(c) ==
  /\ calls[c].pc = "waiting"
  /\ calls' = [calls EXCEPT ![c].pc = "sent"]
  /\ UNCHANGED <<page, gens, locks, records, past, events>>

(* A call whose page is left: a read is of no use any more, and unmounting  *)
(* clears the timer of the last loop.  Loops with a batch under way go on   *)
(* by themselves if the page was processing.                                *)
Left(call) ==
  IF call.kind = "read" THEN Idle
  ELSE IF call.page # "here" THEN call
  ELSE CASE call.pc \in {"asking", "seen"} ->
              IF call.more /\ auto
              THEN Waiting([call EXCEPT !.page = "left", !.current = FALSE]) ELSE Idle
         [] call.pc = "waiting" /\ call.current -> Idle
         [] OTHER ->
              [call EXCEPT !.current = FALSE,
                           !.page = IF call.kind = "loop" /\ auto THEN "left" ELSE "none"]

Leave ==
  /\ here /\ events < MaxEvents
  /\ events' = events + 1
  /\ here' = FALSE
  /\ calls' = [c \in Calls |-> Left(calls[c])]
  /\ auto' = FALSE /\ shown' = NoStatus /\ chosen' = First
  /\ size' = Default
  /\ UNCHANGED <<signedIn, gens, locks, records, past>>

Return ==
  /\ ~here /\ Free # {}
  /\ here' = TRUE
  /\ IF signedIn THEN Sends("read", "asking") ELSE UNCHANGED calls
  /\ UNCHANGED <<signedIn, chosen, shown, auto, size, gens, locks, records, past, events>>

(* Without a token the new loop's first batch is not sent and ends it. *)
Logout ==
  /\ signedIn /\ events < MaxEvents
  /\ events' = events + 1
  /\ signedIn' = FALSE
  /\ auto' = FALSE
  /\ calls' = Rerun(calls, FALSE, shown.id, size)
  /\ UNCHANGED <<here, chosen, shown, size, gens, locks, records, past>>

----------------------------------------------------------------------------
(* What the handlers do with an answer *)

Batches == {c \in Calls : calls[c].kind \in {"loop", "single"}}

(* The catch and finally of the handlers of the calls S, which end as cs    *)
(* says: a loop that failed ends the auto-processing.                       *)
Fails(S, cs) ==
  LET heard == {c \in S : calls[c].page = "here"}
      ended == \E c \in heard : calls[c].kind = "loop"
  IN /\ auto' = (auto /\ ~ended)
     /\ calls' = IF ended THEN Rerun(cs, FALSE, shown.id, size) ELSE cs

FailsAs(c, call) == Fails({c}, [calls EXCEPT ![c] = call])

(* After a success the page asks for the status; the answers to a page that *)
(* was left change nothing, and its loop goes on.                           *)
Answers(c, more) ==
  calls' = [calls EXCEPT ![c] =
     CASE calls[c].page = "here" ->
            [Waiting(calls[c]) EXCEPT !.pc = "asking", !.more = more]
       [] calls[c].page = "left" /\ more -> Waiting(calls[c])
       [] OTHER -> Idle]

(* A status arrives, and the handler that asked goes on.  The model of a    *)
(* status that names another model than before is chosen.                   *)
Settle(c, status) ==
  LET goesOn == calls[c].kind = "loop" /\ calls[c].more /\ auto
      cs == [calls EXCEPT ![c] = IF goesOn THEN Waiting(calls[c]) ELSE Idle]
  IN /\ shown' = status
     /\ auto' = (auto /\ status.id # 0 /\ (calls[c].kind = "loop" => goesOn))
     /\ chosen' = IF status.id # 0 /\ (shown.id = 0 \/ gens[status.id].model # gens[shown.id].model)
                  THEN gens[status.id].model ELSE chosen
     /\ IF status.id # shown.id \/ auto' # auto
        THEN /\ auto' => FreeIn(Rerun(cs, FALSE, 0, size)) # {}
             /\ calls' = Rerun(cs, auto', status.id, size)
        ELSE calls' = cs

Deliver(c) ==
  /\ calls[c].pc = "seen"
  /\ Settle(c, calls[c].seen)
  /\ UNCHANGED <<here, signedIn, size, gens, locks, records, past, events>>

ReadFails(c) ==
  /\ calls[c].pc = "asking" /\ events < MaxEvents
  /\ events' = events + 1
  /\ Settle(c, shown)
  /\ UNCHANGED <<here, signedIn, size, gens, locks, records, past>>

(* A request other than one for the status is lost, or its answer is: the   *)
(* server then does its part all the same.                                  *)
Cut(c, arrived) ==
  /\ calls[c].pc \in ServerSide /\ calls[c].page # "none" /\ events < MaxEvents
  /\ arrived \/ calls[c].pc = "sent"
  /\ events' = events + 1
  /\ FailsAs(c, IF arrived THEN [calls[c] EXCEPT !.page = "none", !.current = FALSE] ELSE Idle)
  /\ UNCHANGED <<here, signedIn, chosen, shown, size, gens, locks, records, past>>

----------------------------------------------------------------------------
(* The server *)

(* get_generation_status: the newest generation *)
StatusRead(c) ==
  /\ calls[c].pc = "asking"
  /\ LET g == Greatest(Present)
         status == IF Present = {} THEN NoStatus
                   ELSE [id |-> g, status |-> gens[g].status, total |-> gens[g].total,
                         done |-> gens[g].done]
     IN calls' = [calls EXCEPT ![c].pc = "seen", ![c].seen = status]
  /\ UNCHANGED <<page, gens, locks, records, past, events>>

Abandoned(model) ==
  {g \in Present : gens[g].status # "ACTIVE" /\ (gens[g].model # model \/ gens[g].total = 0)}

(* start_generation: first what was abandoned is deleted. *)
CleanUp(c) ==
  /\ calls[c].kind = "start" /\ calls[c].pc = "sent"
  /\ Unlocked(Abandoned(calls[c].model))
  /\ gens' = Deleted(gens, Abandoned(calls[c].model))
  /\ calls' = [calls EXCEPT ![c].pc = "looking"]
  /\ UNCHANGED <<page, locks, records, past, events>>

(* get_or_create_generation *)
Look(c) ==
  /\ calls[c].pc = "looking"
  /\ LET found == {g \in Present : gens[g].status = "BUILDING" /\ gens[g].model = calls[c].model}
     IN \/ /\ found = {}
           /\ calls' = [calls EXCEPT ![c].pc = "inserting"]
        \/ \E g \in found : calls' = [calls EXCEPT ![c].pc = "scanning", ![c].gen = g]
  /\ UNCHANGED <<page, gens, locks, records, past, events>>

(* Bound: an insert past the last generation is refused. *)
Insert(c) ==
  /\ calls[c].pc = "inserting"
  /\ LET g == Least(Unused)
     IN IF Unused # {}
        THEN /\ gens' = [gens EXCEPT ![g] = [NoGen EXCEPT !.status = "BUILDING",
                                                        !.model = calls[c].model]]
             /\ calls' = [calls EXCEPT ![c].pc = "scanning", ![c].gen = g]
             /\ UNCHANGED auto
        ELSE FailsAs(c, Idle) /\ UNCHANGED gens
  /\ UNCHANGED <<here, signedIn, chosen, shown, size, locks, records, past, events>>

(* Seeded bug: a record that has a job is queued again. *)
EnqueuedAgain(jobs, found) ==
  [i \in Items |-> IF i \in found THEN [jobs[i] EXCEPT !.state = "pending"] ELSE jobs[i]]

(* ON CONFLICT DO NOTHING: a record that has a job keeps it. *)
Enqueued(jobs, found) ==
  [i \in Items |-> IF i \in found /\ jobs[i].state = "none"
                   THEN [jobs[i] EXCEPT !.state = "pending"] ELSE jobs[i]]

(* scan_and_enqueue reads the records ... *)
Scan(c) ==
  /\ calls[c].pc = "scanning"
  /\ calls' = [calls EXCEPT ![c].pc = "enqueuing", ![c].scanned = There]
  /\ UNCHANGED <<page, gens, locks, records, past, events>>

(* ... and stores a job for each, and their number as the total.  The jobs  *)
(* of records that are no longer there stay.  Those of a generation deleted *)
(* meanwhile have none to refer to.                                         *)
Enqueue(c) ==
  /\ calls[c].pc = "enqueuing" /\ Unlocked({calls[c].gen})
  /\ LET g == calls[c].gen
         found == calls[c].scanned
     IN \/ /\ g \in Present
           /\ gens' = [gens EXCEPT ![g].jobs = Enqueued(gens[g].jobs, found),
                                   ![g].total = Cardinality(found)]
           /\ built' = IF IsBuilt(gens'[g]) THEN built \union {g} ELSE built
           /\ recounted' = IF found # JobsOf(gens'[g]) THEN recounted \union {g} ELSE recounted
           /\ Answers(c, FALSE) /\ UNCHANGED auto
        \/ /\ g \notin Present /\ UNCHANGED <<gens, built, recounted>>
           /\ IF found = {} THEN Answers(c, FALSE) /\ UNCHANGED auto ELSE FailsAs(c, Idle)
  /\ UNCHANGED <<here, signedIn, chosen, shown, size, locks, records, complete, events>>

(* A claim of more than five minutes ago counts as abandoned. *)
Reclaimed(gs) ==
  [g \in Gens |-> [gs[g] EXCEPT !.jobs =
     [i \in Items |-> IF gs[g].jobs[i].state = "stale" THEN [gs[g].jobs[i] EXCEPT !.state = "pending"]
                      ELSE gs[g].jobs[i]]]]

(* Seeded bug: any claim counts as abandoned. *)
ClaimableTaken(jobs) ==
  {i \in Items : \/ jobs[i].state \in {"pending", "processing"}
                 \/ jobs[i].state = "failed" /\ jobs[i].tries < MaxAttempts}

(* Seeded bug: jobs are tried again without end. *)
ClaimableEver(jobs) == {i \in Items : jobs[i].state \in {"pending", "failed"}}

Claimable(jobs) ==
  {i \in Items : \/ jobs[i].state = "pending"
                 \/ jobs[i].state = "failed" /\ jobs[i].tries < MaxAttempts}

(* process_batch up to the commit of its claim, which skips locked jobs *)
Claim(c) ==
  /\ c \in Batches /\ calls[c].pc = "sent"
  /\ \A g \in Gens : LockedJobs(g) \intersect InState(g, {"stale"}) = {}
  /\ LET g == calls[c].gen
         jobs == Reclaimed(gens)[g].jobs
         open == Claimable(jobs) \ LockedJobs(g)
         batch == {i \in open : Cardinality({j \in open : j < i}) < calls[c].size}
         claimed(job) == [state |-> "processing",
                          tries |-> IF job.tries < MaxAttempts THEN job.tries + 1 ELSE job.tries]
     IN IF g \notin Present
        THEN FailsAs(c, Idle) /\ UNCHANGED gens
        ELSE /\ gens' = [Reclaimed(gens) EXCEPT ![g].jobs =
                           [i \in Items |-> IF i \in batch THEN claimed(jobs[i]) ELSE jobs[i]]]
             /\ IF batch = {} THEN Answers(c, FALSE)
                ELSE calls' = [calls EXCEPT ![c].pc = "embedding", ![c].todo = batch]
             /\ UNCHANGED auto
  /\ UNCHANGED <<here, signedIn, chosen, shown, size, locks, records, past, events>>

(* The record of a job is looked up.  If it is not there, the job fails at  *)
(* once, in a transaction of its own, and the batch goes on.                *)
LookUp(c, i) ==
  /\ calls[c].pc = "embedding" /\ i \in calls[c].todo
  /\ LET g == calls[c].gen
     IN \/ /\ i \in There
           /\ calls' = [calls EXCEPT ![c].todo = @ \ {i}, ![c].found = @ \union {i}]
           /\ UNCHANGED <<auto, gens>>
        \/ /\ i \notin There /\ g \in Present /\ i \notin LockedJobs(g)
           /\ calls' = [calls EXCEPT ![c].todo = @ \ {i}, ![c].gone = @ \union {i}]
           /\ gens' = [gens EXCEPT ![g].jobs[i].state = "failed"]
           /\ UNCHANGED auto
        \/ /\ i \notin There /\ g \notin Present
           /\ FailsAs(c, Idle)
           /\ UNCHANGED gens
  /\ UNCHANGED <<here, signedIn, chosen, shown, size, locks, records, past, events>>

(* "No valid content found" *)
FoundNone(c) ==
  /\ calls[c].pc = "embedding" /\ calls[c].todo = {} /\ calls[c].found = {}
  /\ Answers(c, TRUE)
  /\ UNCHANGED <<page, gens, locks, records, past, events>>

(* The embeddings are there, or the API failed: the transaction that writes *)
(* the outcome counts what is completed and then waits for the lock of the  *)
(* row it stores the number in, so it misses what those before it commit.   *)
Count(c, outcome) ==
  /\ calls[c].pc = "embedding" /\ calls[c].todo = {} /\ calls[c].found # {}
  /\ LET g == calls[c].gen
         call == [calls[c] EXCEPT !.pc = "storing", !.outcome = outcome]
         others == InState(g, {"completed"}) \ Writes(call)
         own == IF outcome = "completed" THEN call.found ELSE {}
     IN \/ /\ g \in Present /\ Writes(call) \intersect LockedJobs(g) = {}
           /\ calls' = [calls EXCEPT ![c] = [call EXCEPT !.count = Cardinality(others \union own)]]
           /\ locks' = Append(locks, c)
           /\ UNCHANGED auto
        \/ /\ g \notin Present
           /\ FailsAs(c, Idle)
           /\ UNCHANGED locks
  /\ UNCHANGED <<here, signedIn, chosen, shown, size, gens, records, past, events>>

Commit(c) ==
  /\ calls[c].pc = "storing"
  /\ LET g == calls[c].gen
         queue == Kept(locks, {i \in DOMAIN locks : calls[locks[i]].gen = g})
         jobs == [i \in Items |-> IF i \in Writes(calls[c])
                                  THEN [gens[g].jobs[i] EXCEPT !.state = calls[c].outcome]
                                  ELSE gens[g].jobs[i]]
     IN /\ Head(queue) = c
        /\ gens' = [gens EXCEPT ![g].jobs = jobs, ![g].done = calls[c].count]
        /\ complete' = IF IsComplete(gens'[g]) THEN complete \union {g} ELSE complete
        /\ built' = IF IsBuilt(gens'[g]) THEN built \union {g} ELSE built
  /\ locks' = Kept(locks, {i \in DOMAIN locks : locks[i] # c})
  /\ Answers(c, TRUE)
  /\ UNCHANGED <<page, records, recounted, events>>

(* activate_generation: every other generation goes, whether or not this    *)
(* one is still there.                                                      *)
Activate(c) ==
  /\ calls[c].kind = "activate" /\ calls[c].pc = "sent"
  /\ LET g == calls[c].gen
         rest == Deleted(gens, Present \ {g})
     IN gens' = IF g \in Present THEN [rest EXCEPT ![g].status = "ACTIVE"] ELSE rest
  /\ Unlocked(Present)
  /\ Answers(c, FALSE)
  /\ UNCHANGED <<page, locks, records, past, events>>

----------------------------------------------------------------------------
(* Other clients, slow batches and crashes *)

OtherStart(m) ==
  /\ Free # {} /\ events < MaxEvents
  /\ events' = events + 1
  /\ calls' = [calls EXCEPT ![Least(Free)] =
       [Request("start", "sent") EXCEPT !.page = "none", !.model = m]]
  /\ UNCHANGED <<page, gens, locks, records, past>>

(* prune_stale_generations; failed jobs older than an hour go too.  Bound:  *)
(* no batch takes an hour, so the jobs of one under way are younger.        *)
Prune ==
  LET stale == {g \in Present : gens[g].status # "ACTIVE"}
      rest == Deleted(gens, stale)
      held(g) == UNION {JobsHeld(calls[c]) : c \in {d \in Calls : calls[d].gen = g}}
      failed == {w \in Gens \X Items : /\ rest[w[1]].jobs[w[2]].state = "failed"
                                       /\ w[2] \notin held(w[1])}
  IN /\ events < MaxEvents /\ Unlocked(stale)
     /\ events' = events + 1
     /\ \E old \in SUBSET failed :
          gens' = [g \in Gens |-> [rest[g] EXCEPT !.jobs =
                    [i \in Items |-> IF <<g, i>> \in old THEN NoJob ELSE rest[g].jobs[i]]]]
     /\ complete' = complete \union {g \in Gens : IsComplete(gens'[g])}
     /\ UNCHANGED <<page, calls, locks, records, built, recounted>>

DeleteGeneration(g) ==
  /\ g \in Present /\ Unlocked({g}) /\ events < MaxEvents
  /\ events' = events + 1
  /\ gens' = Deleted(gens, {g})
  /\ UNCHANGED <<page, calls, locks, records, past>>

(* Every claim there is grows older than five minutes. *)
FiveMinutes ==
  /\ events < MaxEvents
  /\ events' = events + 1
  /\ gens' = [g \in Gens |-> [gens[g] EXCEPT
                 !.outlived = @ \/ \E c \in Calls : calls[c].gen = g /\ JobsHeld(calls[c]) # {},
                 !.jobs = [i \in Items |-> IF i \in InState(g, {"processing"})
                                           THEN [gens[g].jobs[i] EXCEPT !.state = "stale"]
                                           ELSE gens[g].jobs[i]]]]
  /\ UNCHANGED <<page, calls, locks, records, past>>

(* A chat message, log, result, fix or investigation is stored, or deleted. *)
RecordAppears(i) ==
  /\ records[i] = "to come" /\ events < MaxEvents
  /\ events' = events + 1
  /\ records' = [records EXCEPT ![i] = "there"]
  /\ UNCHANGED <<page, calls, gens, locks, past>>

RecordDeleted(i) ==
  /\ records[i] = "there" /\ events < MaxEvents
  /\ events' = events + 1
  /\ records' = [records EXCEPT ![i] = "deleted"]
  /\ UNCHANGED <<page, calls, gens, locks, past>>

(* The agent server restarts: what it had under way fails, and its claims   *)
(* stay behind.                                                             *)
Restart ==
  /\ events < MaxEvents
  /\ events' = events + 1
  /\ LET S == {c \in Calls : calls[c].pc \in ServerSide \ {"sent"}}
     IN Fails(S, [c \in Calls |-> IF c \in S THEN Idle ELSE calls[c]])
  /\ locks' = <<>>
  /\ UNCHANGED <<here, signedIn, chosen, shown, size, gens, records, past>>

----------------------------------------------------------------------------
Call(c) ==
  /\ calls[c].pc # "idle"
  /\ \/ RunLoop(c) \/ StatusRead(c) \/ Deliver(c)
     \/ CleanUp(c) \/ Look(c) \/ Insert(c) \/ Scan(c) \/ Enqueue(c)
     \/ Claim(c) \/ (\E i \in Items : LookUp(c, i)) \/ FoundNone(c)
     \/ (\E o \in {"completed", "failed"} : Count(c, o)) \/ Commit(c)
     \/ Activate(c)

User ==
  \/ \E m \in Models : Choose(m)
  \/ HandleManualRefresh \/ HandleStartGeneration \/ HandleProcessSingleBatch
  \/ ToggleAutoProcess \/ HandleActivateGeneration
  \/ \E n \in Sizes : SetBatchSize(n)
  \/ Leave \/ Return \/ Logout

Others ==
  \/ \E m \in Models : OtherStart(m)
  \/ Prune
  \/ \E g \in Gens : DeleteGeneration(g)
  \/ \E i \in Items : RecordAppears(i) \/ RecordDeleted(i)

Trouble ==
  \/ \E c \in Calls : ReadFails(c) \/ \E arrived \in BOOLEAN : Cut(c, arrived)
  \/ FiveMinutes \/ Restart

Next == (\E c \in Calls : Call(c)) \/ Poll \/ User \/ Others \/ Trouble

Fairness == (\A c \in Calls : WF_vars(Call(c))) /\ WF_vars(Poll)

Spec == Init /\ [][Next]_vars /\ Fairness

----------------------------------------------------------------------------
(* Properties *)

TypeOK ==
  /\ {here, signedIn, auto} \subseteq BOOLEAN
  /\ chosen \in Models
  /\ size \in Sizes
  /\ shown.id \in Gens \union {0}
  /\ \A g \in Gens : /\ gens[g].status \in {"none", "BUILDING", "ACTIVE", "gone"}
                     /\ gens[g].done \in 0..Cardinality(Items)
  /\ \A c \in Calls : /\ JobsHeld(calls[c]) \subseteq Items
                      /\ calls[c].current => calls[c].kind = "loop" /\ calls[c].page = "here"
  /\ Cardinality({c \in Calls : calls[c].current}) <= 1

(* While a batch embeds a record, no other one has its job: two batches may *)
(* have a job whose record is gone, as it fails under the first one, but of *)
(* a record that is there only when one of them outlived its claim.  Two    *)
(* loops of the page, a page that was left and other tabs run batches at    *)
(* the same time (the claim in process_batch).                              *)
OneHolder ==
  \A c, d \in Calls :
    /\ c # d /\ calls[c].gen = calls[d].gen
    /\ calls[c].found \intersect (calls[d].todo \union calls[d].found) # {}
    => gens[calls[c].gen].outlived

(* A generation is activated only if at some time as many of its jobs were  *)
(* completed as the last scan had found records, however old the status is  *)
(* from which the page offered it (isReadyToActivate); and these were all   *)
(* of its jobs, unless a scan had found fewer records than there were jobs. *)
(* Or a batch of it outlived its claim.                                     *)
ActivatesOnlyBuilt ==
  [][\A g \in Gens : gens[g].status # "ACTIVE" /\ gens'[g].status = "ACTIVE"
                   => \/ g \in built /\ (g \in complete \/ g \in recounted)
                      \/ gens[g].outlived]_vars

(* The progress stored with a generation never exceeds what is completed.   *)
NeverOverstated ==
  \A g \in Gens : \/ gens[g].done <= Cardinality(InState(g, {"completed"}))
                 \/ gens[g].outlived

(* The auto-processing stops by itself: each job is claimed a limited       *)
(* number of times, whatever fails and however many loops run.              *)
AutoEnds == []<>~auto

(* A page that shows a generation as being built does not go on showing it  *)
(* so when it was activated or deleted.                                     *)
Outdated == View /\ IsBuilding /\ gens[shown.id].status # "BUILDING"
PageCatchesUp == []<>~Outdated
=============================================================================
