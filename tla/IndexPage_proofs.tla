------------------------- MODULE IndexPage_proofs -------------------------
(***************************************************************************)
(* Proofs about the embeddings page and the generations of the agent       *)
(* server: the types, that no two batches embed the same record, that the  *)
(* stored progress is never more than what is completed, and that only a   *)
(* generation is activated that was built, unless a batch outlived its     *)
(* claim.                                                                  *)
(*                                                                         *)
(* They rest on one inductive invariant, IndexInv: what the calls under    *)
(* way ask for (Sound), which jobs they hold and in which state these are  *)
(* while their records come and go (Holding, Known), that the queue for    *)
(* the row locks is the calls that have counted (Locked), that the number  *)
(* such a call has counted stays right until it is stored, whatever is     *)
(* stored before it (Counted), what the stored number says (Progress), and *)
(* when there are more jobs than the total says (Recorded).                *)
(***************************************************************************)
EXTENDS IndexPage, Subsequences_proofs

----------------------------------------------------------------------------
(* The inductive invariant *)

Status == [id: Gens \union {0}, status: {"none", "BUILDING", "ACTIVE"}, total: Nat, done: Nat]
Job == [state: {"none", "pending", "processing", "stale", "completed", "failed"}, tries: Nat]
Generation ==
  [status: {"none", "BUILDING", "ACTIVE", "gone"}, model: Models,
   total: 0..Cardinality(Items), done: 0..Cardinality(Items), outlived: BOOLEAN,
   jobs: [Items -> Job]]
Kinds == {"none", "read", "start", "single", "loop", "activate"}
Places == {"idle", "asking", "seen", "waiting"} \union ServerSide
CallRecord ==
  [kind: Kinds, pc: Places, page: {"none", "here", "left"}, current: BOOLEAN,
   gen: Gens \union {0}, size: Sizes \union {0}, model: Models, scanned: SUBSET Items,
   todo: SUBSET Items, found: SUBSET Items, gone: SUBSET Items,
   outcome: {"", "completed", "failed"}, count: 0..Cardinality(Items), more: BOOLEAN, seen: Status]

PageTypes ==
  /\ here \in BOOLEAN /\ signedIn \in BOOLEAN /\ auto \in BOOLEAN
  /\ chosen \in Models /\ size \in Sizes /\ shown \in Status

Types ==
  /\ PageTypes
  /\ calls \in [Calls -> CallRecord]
  /\ gens \in [Gens -> Generation]
  /\ locks \in Seq(Calls)
  /\ records \in [Items -> {"to come", "there", "deleted"}]

Batching == {"embedding", "storing"}

\* The generations that were built, completely or after a scan had found too few records
Won == built \intersect (complete \union recounted)

\* Generation g is one of these, the set won, or a batch of it outlived its claim.
Earned(g, gs, won) == g \in won \/ gs[g].outlived

\* A status names a generation that was begun, and one that it shows full was built.
Full(s, gs, won) ==
  s.id # 0 => /\ gs[s.id].status # "none"
              /\ s.total > 0 /\ s.done >= s.total => Earned(s.id, gs, won)

\* A call that has no jobs
Bare(call) == call.todo = {} /\ call.found = {} /\ call.gone = {}

\* What a call under way may ask for, and what it may hold
Sound(call, gs, won) ==
  /\ Full(call.seen, gs, won)
  /\ call.kind = "activate" => /\ call.gen # 0 /\ gs[call.gen].status # "none"
                               /\ Earned(call.gen, gs, won)
  /\ call.kind \in {"single", "loop"} => call.gen # 0 /\ gs[call.gen].status # "none"
  /\ call.pc \in Batching => call.kind \in {"single", "loop"}
  /\ call.pc \in {"looking", "inserting", "scanning", "enqueuing"} => call.kind = "start"
  /\ call.pc = "storing" => call.outcome # ""
  /\ call.pc \notin Batching => Bare(call)
  /\ call.todo \intersect call.found = {}
  /\ call.current => call.kind = "loop" /\ call.page = "here"

\* At most one call is that of the loop the page knows of.
OneLoop(cs) == \A c, d \in Calls : cs[c].current /\ cs[d].current => c = d

Asked(cs, gs, won) == OneLoop(cs) /\ \A c \in Calls : Sound(cs[c], gs, won)

InUse(gs) == {g \in Gens : gs[g].status \in {"BUILDING", "ACTIVE"}}
Completed(gs, g) == {i \in Items : gs[g].jobs[i].state = "completed"}
Begun(rs) == {i \in Items : rs[i] # "to come"}

\* A call embeds item i, or is going to unless its record is deleted.
Owns(call, i, rs) == i \in call.found \/ (i \in call.todo /\ rs[i] # "deleted")

\* The job of an item that a call owns is being processed, and that of one it
\* holds is there and not completed ...
Working(call, gs, rs) ==
  \A i \in Items : \/ call.gen \notin InUse(gs)
                   \/ gs[call.gen].outlived
                   \/ /\ Owns(call, i, rs) => gs[call.gen].jobs[i].state = "processing"
                      /\ i \in JobsHeld(call) =>
                           gs[call.gen].jobs[i].state \notin {"none", "completed"}

\* ... and what one call owns no other holds, in a generation of which no batch
\* outlived its claim.
Alone(cs, gs, rs) ==
  \A c, d \in Calls, i \in Items :
    c # d /\ cs[c].gen = cs[d].gen /\ Owns(cs[c], i, rs) /\ i \in JobsHeld(cs[d])
      => gs[cs[c].gen].outlived

Holding(cs, gs, rs) ==
  /\ \A c \in Calls : Working(cs[c], gs, rs)
  /\ Alone(cs, gs, rs)
  /\ \A c \in Calls, i \in Items : i \in cs[c].gone => rs[i] = "deleted"

\* A call knows only of records that have come.
Known(cs, rs) ==
  \A c \in Calls : JobsHeld(cs[c]) \subseteq Begun(rs) /\ cs[c].scanned \subseteq Begun(rs)

\* The calls that have or await a row lock are those that have counted, each once.
Locked(cs, ls) ==
  /\ \A i, j \in DOMAIN ls : ls[i] = ls[j] => i = j
  /\ \A c \in Calls : cs[c].pc = "storing" <=> \E i \in DOMAIN ls : ls[i] = c

\* What will be completed when the call has stored its outcome
After(call, gs) ==
  (Completed(gs, call.gen) \ Writes(call))
    \union (IF call.outcome = "completed" THEN call.found ELSE {})

\* A count that is still to be stored is of a generation in use and will not be too high.
Counted(cs, gs) ==
  \A c \in Calls : cs[c].pc = "storing" =>
    /\ cs[c].gen \in InUse(gs)
    /\ gs[cs[c].gen].outlived \/ cs[c].count <= Cardinality(After(cs[c], gs))

\* The stored progress is not more than what is completed, and is full only if that was earned.
Progress(gs, won) ==
  \A g \in Gens : /\ gs[g].outlived \/ gs[g].done <= Cardinality(Completed(gs, g))
                  /\ gs[g].total > 0 /\ gs[g].done >= gs[g].total => Earned(g, gs, won)
                  /\ gs[g].done # 0 => gs[g].status # "none"

\* Jobs are of records that have come.  If all are completed that is known, as is
\* that there are more of them than the total says.
Recorded(gs, rs, cp, rc) ==
  \A g \in Gens : /\ JobsOf(gs[g]) \subseteq Begun(rs)
                  /\ IsComplete(gs[g]) => g \in cp
                  /\ g \in rc \/ gs[g].outlived \/ Cardinality(JobsOf(gs[g])) <= gs[g].total

IndexInv ==
  /\ Types
  /\ Asked(calls, gens, Won) /\ Full(shown, gens, Won)
  /\ Holding(calls, gens, records) /\ Known(calls, records)
  /\ Locked(calls, locks) /\ Counted(calls, gens)
  /\ Progress(gens, Won) /\ Recorded(gens, records, complete, recounted)

----------------------------------------------------------------------------
(* Constants, records and choices *)

\* What the constants are
LEMMA Settings ==
  /\ First \in Models
  /\ Cardinality(Items) \in Nat /\ Cardinality(Items) > 0
  /\ 1 \in Gens /\ Gens \subseteq Nat \ {0}
  /\ 1 \in Calls /\ Calls \subseteq Nat \ {0}
<1>1. First \in Models
  BY ConstantsAssumption DEF First
<1>2. Cardinality(Items) \in Nat
  BY ConstantsAssumption, FS_CardinalityType
<1>3. Cardinality(Items) # 0
  BY ConstantsAssumption, FS_EmptySet
<1>4. MaxGens \in Nat \ {0} /\ MaxCalls \in Nat \ {0}
  BY ConstantsAssumption
<1> QED
  BY <1>1, <1>2, <1>3, <1>4 DEF Gens, Calls

\* Sets of items have sizes, which grow with them.
LEMMA Sized ==
  ASSUME NEW A \in SUBSET Items, NEW B \in SUBSET Items
  PROVE  /\ Cardinality(A) \in 0..Cardinality(Items)
         /\ A \subseteq B => Cardinality(A) <= Cardinality(B)
         /\ Cardinality(A) >= Cardinality(Items) => A = Items
<1>1. IsFiniteSet(Items) /\ IsFiniteSet(B) /\ IsFiniteSet(A)
  BY ConstantsAssumption, FS_Subset
<1>2. Cardinality(A) \in Nat /\ Cardinality(B) \in Nat /\ Cardinality(Items) \in Nat
  BY <1>1, FS_CardinalityType
<1>3. Cardinality(A) <= Cardinality(Items) /\ (Cardinality(A) = Cardinality(Items) => A = Items)
  BY <1>1, FS_Subset
<1>4. A \subseteq B => Cardinality(A) <= Cardinality(B)
  BY <1>1, FS_Subset
<1> QED
  BY <1>2, <1>3, <1>4

\* Least and Greatest choose a member.
LEMMA LeastIsMember ==
  ASSUME NEW S \in SUBSET Nat, S # {}
  PROVE  Least(S) \in S
BY Smallest DEF Least

LEMMA GreatestIsMember ==
  ASSUME NEW S \in SUBSET Gens, S # {}
  PROVE  Greatest(S) \in S
<1>1. MaxGens \in Nat
  BY ConstantsAssumption
<1>2. S \in SUBSET Nat /\ \A g \in S : g <= MaxGens
  BY <1>1 DEF Gens
<1> QED
  BY <1>1, <1>2, Largest DEF Greatest

\* The empty records
LEMMA Blank ==
  /\ NoJob \in Job /\ NoJob.state = "none"
  /\ NoGen \in Generation /\ NoGen.done = 0 /\ NoGen.status = "none" /\ NoGen.outlived = FALSE
  /\ \A i \in Items : NoGen.jobs[i] = NoJob
  /\ NoStatus \in Status /\ NoStatus.id = 0
BY Settings DEF NoJob, NoGen, NoStatus, Job, Generation, Status

LEMMA IdleCall ==
  /\ Idle \in CallRecord /\ Idle.kind = "none" /\ Idle.pc = "idle" /\ Idle.page = "none"
  /\ ~Idle.current /\ Bare(Idle) /\ Idle.scanned = {} /\ Idle.gen = 0 /\ Idle.seen = NoStatus
BY Settings, Blank DEF Idle, CallRecord, Kinds, Places, ServerSide, Bare

\* A request
LEMMA RequestCall ==
  ASSUME NEW k \in Kinds, NEW p \in Places
  PROVE  LET r == Request(k, p)
         IN  /\ r \in CallRecord /\ r.kind = k /\ r.pc = p /\ r.page = "here"
             /\ ~r.current /\ Bare(r) /\ r.scanned = {} /\ r.gen = 0 /\ r.seen = NoStatus /\ r.model = First
BY IdleCall DEF Request, CallRecord, Idle, Bare

----------------------------------------------------------------------------
(* Steps of the generations and of the calls *)

\* No generation is unbegun, and none forgets that a batch outlived its claim.
Onward(gs, new, won, nwon) ==
  /\ won \subseteq nwon
  /\ \A g \in Gens : gs[g].status # "none" =>
       new[g].status # "none" /\ (gs[g].outlived => new[g].outlived)

\* A call goes on with what it holds, or it was not storing and holds nothing any more.
SameJobs(a, b) ==
  a.todo = b.todo /\ a.found = b.found /\ a.gone = b.gone /\ a.scanned = b.scanned
Keeps(a, b) ==
  b.pc = a.pc /\ b.kind = a.kind /\ b.gen = a.gen /\ SameJobs(b, a)
  /\ b.outcome = a.outcome /\ b.count = a.count
Drops(a, b) ==
  a.pc # "storing" /\ b.pc \notin Batching /\ Bare(b) /\ b.scanned \subseteq a.scanned \union There
Calm(cs, new) == \A c \in Calls : Keeps(cs[c], new[c]) \/ Drops(cs[c], new[c])

LEMMA StaysFull ==
  ASSUME NEW s \in Status, NEW gs, NEW new, NEW won, NEW nwon,
         Onward(gs, new, won, nwon), Full(s, gs, won)
  PROVE  Full(s, new, nwon)
BY DEF Onward, Full, Earned, Status

LEMMA StaysSound ==
  ASSUME NEW call \in CallRecord, NEW gs, NEW new, NEW won, NEW nwon,
         Onward(gs, new, won, nwon), Sound(call, gs, won)
  PROVE  Sound(call, new, nwon)
<1>1. call.seen \in Status /\ call.gen \in Gens \union {0}
  BY DEF CallRecord
<1>2. Full(call.seen, new, nwon)
  BY <1>1, StaysFull DEF Sound
<1> QED
  BY <1>1, <1>2 DEF Sound, Onward, Earned

LEMMA StaysAsked ==
  ASSUME NEW cs \in [Calls -> CallRecord], NEW gs, NEW new, NEW won, NEW nwon,
         Onward(gs, new, won, nwon), Asked(cs, gs, won)
  PROVE  Asked(cs, new, nwon)
BY StaysSound DEF Asked

\* The deletion of generations
LEMMA DeletedGens ==
  ASSUME NEW gs \in [Gens -> Generation], NEW S
  PROVE  LET new == Deleted(gs, S)
         IN  /\ new \in [Gens -> Generation]
             /\ \A g \in Gens : IF g \in S
                  THEN /\ new[g].status = "gone" /\ new[g].done = 0
                       /\ new[g].outlived = gs[g].outlived /\ new[g].total = 0
                       /\ \A i \in Items : new[g].jobs[i] = NoJob
                  ELSE new[g] = gs[g]
<1> DEFINE gone(g) == [NoGen EXCEPT !.status = "gone", !.model = gs[g].model,
                                   !.outlived = gs[g].outlived]
<1>1. ASSUME NEW g \in Gens
      PROVE  /\ gone(g) \in Generation /\ gone(g).status = "gone" /\ gone(g).done = 0
             /\ gone(g).outlived = gs[g].outlived /\ gone(g).total = 0
             /\ \A i \in Items : gone(g).jobs[i] = NoJob
  BY Settings, Blank DEF Generation, NoGen
<1>2. Deleted(gs, S) = [g \in Gens |-> IF g \in S THEN gone(g) ELSE gs[g]]
  BY DEF Deleted
<1> HIDE DEF gone
<1> QED
  BY <1>1, <1>2

\* A call that no one uses
LEMMA FreeCall ==
  ASSUME NEW cs \in [Calls -> CallRecord], FreeIn(cs) # {}
  PROVE  Least(FreeIn(cs)) \in Calls /\ cs[Least(FreeIn(cs))] = Idle
<1>1. FreeIn(cs) \in SUBSET Nat
  BY Settings DEF FreeIn
<1>2. Least(FreeIn(cs)) \in FreeIn(cs)
  BY <1>1, LeastIsMember
<1> QED
  BY <1>2 DEF FreeIn

LEMMA IdleIsSound ==
  ASSUME NEW gs, NEW won
  PROVE  Sound(Idle, gs, won)
BY IdleCall, Blank DEF Sound, Full, Batching, Bare

\* One call changes; if it becomes that of the loop, it was it.
LEMMA OneReplaced ==
  ASSUME NEW cs \in [Calls -> CallRecord], NEW gs, NEW won, Asked(cs, gs, won),
         NEW c \in Calls, NEW r \in CallRecord, Sound(r, gs, won),
         r.current => cs[c].current
  PROVE  LET new == [cs EXCEPT ![c] = r]
         IN  new \in [Calls -> CallRecord] /\ Asked(new, gs, won)
<1> DEFINE new == [cs EXCEPT ![c] = r]
<1>1. new \in [Calls -> CallRecord] /\ new[c] = r /\ \A d \in Calls : d # c => new[d] = cs[d]
  OBVIOUS
<1>2. \A d \in Calls : Sound(new[d], gs, won)
  BY <1>1 DEF Asked
<1>3. \A d \in Calls : new[d].current => cs[d].current
  BY <1>1
<1>4. OneLoop(new)
  BY <1>3 DEF Asked, OneLoop
<1> QED
  BY <1>1, <1>2, <1>4 DEF Asked

LEMMA OneChanges ==
  ASSUME NEW cs \in [Calls -> CallRecord], NEW gs, NEW won, Asked(cs, gs, won),
         NEW c \in Calls, NEW r \in CallRecord, Sound(r, gs, won),
         r.current => cs[c].current,
         Keeps(cs[c], r) \/ Drops(cs[c], r)
  PROVE  LET new == [cs EXCEPT ![c] = r]
         IN  new \in [Calls -> CallRecord] /\ Asked(new, gs, won) /\ Calm(cs, new)
<1> DEFINE new == [cs EXCEPT ![c] = r]
<1>1. new[c] = r /\ \A d \in Calls : d # c => new[d] = cs[d]
  OBVIOUS
<1>2. Calm(cs, new)
  BY <1>1 DEF Calm, Keeps, SameJobs
<1> QED
  BY <1>2, OneReplaced

\* A new request
LEMMA OneBegins ==
  ASSUME NEW cs \in [Calls -> CallRecord], NEW gs, NEW won, Asked(cs, gs, won), FreeIn(cs) # {},
         NEW r \in CallRecord, Sound(r, gs, won), ~r.current, r.pc \notin Batching, r.scanned = {}
  PROVE  LET new == [cs EXCEPT ![Least(FreeIn(cs))] = r]
         IN  new \in [Calls -> CallRecord] /\ Asked(new, gs, won) /\ Calm(cs, new)
<1>1. Least(FreeIn(cs)) \in Calls /\ cs[Least(FreeIn(cs))] = Idle
  BY FreeCall
<1>2. Drops(Idle, r)
  BY IdleCall DEF Drops, Sound
<1> QED
  BY <1>1, <1>2, OneChanges

LEMMA CalmTwice ==
  ASSUME NEW a, NEW b, NEW c, Calm(a, b), Calm(b, c)
  PROVE  Calm(a, c)
BY DEF Calm, Keeps, Drops, Batching, Bare, SameJobs

----------------------------------------------------------------------------
(* What the handlers do to the calls *)

\* The request of a new loop
LoopRequest(id, sz) == [Request("loop", "sent") EXCEPT !.current = TRUE, !.gen = id, !.size = sz]

\* The calls when the loop of the effect is left
LoopLeft(cs) ==
  [c \in Calls |-> IF cs[c].current
                   THEN IF cs[c].pc = "waiting" THEN Idle ELSE [cs[c] EXCEPT !.current = FALSE]
                   ELSE cs[c]]

LEMMA LoopIsRequest ==
  ASSUME NEW id \in Gens, NEW sz \in Sizes, NEW r, r = LoopRequest(id, sz)
  PROVE  /\ r \in CallRecord /\ r.kind = "loop" /\ r.pc = "sent" /\ r.page = "here"
         /\ r.current /\ Bare(r) /\ r.scanned = {} /\ r.gen = id /\ r.seen = NoStatus
<1> DEFINE q == Request("loop", "sent")
<1>1. /\ q \in CallRecord /\ q.kind = "loop" /\ q.pc = "sent" /\ q.page = "here"
      /\ Bare(q) /\ q.scanned = {} /\ q.seen = NoStatus
  BY RequestCall DEF Kinds, Places, ServerSide
<1> HIDE DEF q
<1> DEFINE a == [q EXCEPT !.current = TRUE, !.gen = id]
<1>2. /\ a \in CallRecord /\ a.kind = "loop" /\ a.pc = "sent" /\ a.page = "here" /\ a.current
      /\ Bare(a) /\ a.scanned = {} /\ a.gen = id /\ a.seen = NoStatus
  BY <1>1 DEF CallRecord, Bare
<1>3. r = [a EXCEPT !.size = sz]
  BY <1>1 DEF LoopRequest, q, CallRecord
<1> HIDE DEF a
<1> QED
  BY <1>2, <1>3 DEF CallRecord, Bare

LEMMA LeavesLoop ==
  ASSUME NEW cs \in [Calls -> CallRecord], NEW gs, NEW won, Asked(cs, gs, won)
  PROVE  LET new == LoopLeft(cs)
         IN  /\ new \in [Calls -> CallRecord] /\ Asked(new, gs, won) /\ Calm(cs, new)
             /\ \A c \in Calls : ~new[c].current
<1> DEFINE new == LoopLeft(cs)
<1>1. ASSUME NEW c \in Calls
      PROVE  /\ new[c] \in CallRecord /\ ~new[c].current /\ Sound(new[c], gs, won)
             /\ Keeps(cs[c], new[c]) \/ Drops(cs[c], new[c])
  <2>1. CASE ~cs[c].current
    BY <2>1 DEF LoopLeft, Asked, Keeps, SameJobs
  <2>2. CASE cs[c].current /\ cs[c].pc = "waiting"
    BY <2>2, IdleCall, IdleIsSound DEF LoopLeft, Drops, Batching
  <2>3. CASE cs[c].current /\ cs[c].pc # "waiting"
    <3> DEFINE r == [cs[c] EXCEPT !.current = FALSE]
    <3>1. cs[c] \in CallRecord /\ Sound(cs[c], gs, won)
      BY DEF Asked
    <3>2. /\ r \in CallRecord /\ ~r.current /\ Keeps(cs[c], r) /\ r.seen = cs[c].seen
          /\ r.page = cs[c].page
      BY <3>1 DEF CallRecord, Keeps, SameJobs
    <3>3. new[c] = r
      BY <2>3 DEF LoopLeft
    <3>4. Sound(r, gs, won)
      BY <3>1, <3>2 DEF Sound, Keeps, Bare, SameJobs
    <3> QED
      BY <3>2, <3>3, <3>4
  <2> QED
    BY <2>1, <2>2, <2>3
<1>2. new \in [Calls -> CallRecord]
  BY <1>1 DEF LoopLeft
<1> QED
  BY <1>1, <1>2 DEF Asked, OneLoop, Calm

\* The effect of the loop runs again.
LEMMA Reruns ==
  ASSUME NEW cs \in [Calls -> CallRecord], NEW gs, NEW won, Asked(cs, gs, won),
         NEW on \in BOOLEAN, NEW id \in Gens \union {0}, NEW sz \in Sizes,
         id # 0 => gs[id].status # "none",
         on => FreeIn(LoopLeft(cs)) # {}
  PROVE  LET new == Rerun(cs, on, id, sz)
         IN  new \in [Calls -> CallRecord] /\ Asked(new, gs, won) /\ Calm(cs, new)
<1> DEFINE left == LoopLeft(cs)
           r == LoopRequest(id, sz)
           f == Least(FreeIn(left))
           new == Rerun(cs, on, id, sz)
<1>1. new = IF on /\ id # 0 THEN [left EXCEPT ![f] = r] ELSE left
  BY DEF Rerun, LoopLeft, LoopRequest
<1>2. /\ left \in [Calls -> CallRecord] /\ Asked(left, gs, won) /\ Calm(cs, left)
      /\ \A c \in Calls : ~left[c].current
  BY LeavesLoop
<1>3. CASE ~(on /\ id # 0)
  BY <1>1, <1>2, <1>3
<1>4. CASE on /\ id # 0
  <2>1. f \in Calls /\ left[f] = Idle
    BY <1>2, <1>4, FreeCall
  <2>2. /\ r \in CallRecord /\ r.kind = "loop" /\ r.pc = "sent" /\ r.page = "here"
        /\ r.current /\ Bare(r) /\ r.scanned = {} /\ r.gen = id /\ r.seen = NoStatus
    <3>1. id \in Gens
      BY <1>4
    <3> QED
      BY <3>1, LoopIsRequest
  <2> HIDE DEF left, r, f
  <2>3. new = [left EXCEPT ![f] = r]
    BY <1>1, <1>4
  <2> HIDE DEF new
  <2>4. new \in [Calls -> CallRecord] /\ new[f] = r /\ \A d \in Calls : d # f => new[d] = left[d]
    BY <1>2, <2>1, <2>2, <2>3
  <2>5. Sound(r, gs, won)
    BY <2>2, <1>4, Blank DEF Sound, Full, Batching, Bare
  <2>6. Asked(new, gs, won)
    BY <1>2, <2>4, <2>5 DEF Asked, OneLoop
  <2>7. Drops(left[f], r)
    BY <2>1, <2>2, IdleCall DEF Drops, Batching
  <2>8. Calm(left, new)
    BY <2>4, <2>7 DEF Calm, Keeps, SameJobs
  <2> QED
    BY <1>2, <2>4, <2>6, <2>8, CalmTwice DEF new
<1> QED
  BY <1>3, <1>4

\* With the loop not running or just ended, its effect only leaves it.
LEMMA RerunOff ==
  ASSUME NEW cs, NEW id, NEW sz
  PROVE  Rerun(cs, FALSE, id, sz) = LoopLeft(cs)
BY DEF Rerun, LoopLeft

\* The record of a loop between two batches
LEMMA WaitingCall ==
  ASSUME NEW call \in CallRecord, NEW gs, NEW won, Sound(call, gs, won)
  PROVE  LET r == Waiting(call)
         IN  /\ r \in CallRecord /\ Sound(r, gs, won) /\ r.pc = "waiting" /\ Bare(r) /\ r.scanned = {}
             /\ r.kind = call.kind /\ r.gen = call.gen /\ r.current = call.current
             /\ r.page = call.page /\ r.seen = NoStatus
<1> DEFINE r == Waiting(call)
<1>1. /\ r \in CallRecord /\ r.pc = "waiting" /\ Bare(r) /\ r.scanned = {}
      /\ r.kind = call.kind /\ r.gen = call.gen /\ r.current = call.current
      /\ r.page = call.page /\ r.seen = NoStatus
  <2>1. 0 \in 0..Cardinality(Items) /\ {} \in SUBSET Items /\ NoStatus \in Status
    BY Blank, Settings
  <2>2. r = [call EXCEPT !.pc = "waiting", !.scanned = {}, !.todo = {}, !.found = {}, !.gone = {},
                         !.outcome = "", !.count = 0,
                         !.more = FALSE, !.seen = NoStatus]
    BY DEF Waiting
  <2> HIDE DEF r
  <2> QED
    BY <2>1, <2>2 DEF CallRecord, Places, Bare
<1> HIDE DEF r
<1>2. Sound(r, gs, won)
  BY <1>1, Blank DEF Sound, Full, Batching, Bare
<1> QED
  BY <1>1, <1>2 DEF r

\* A failure of the calls S, after which the calls are cs
LEMMA FailsCalls ==
  ASSUME NEW S, NEW cs \in [Calls -> CallRecord], NEW gs, NEW won, Asked(cs, gs, won),
         PageTypes, Full(shown, gs, won), Fails(S, cs)
  PROVE  auto' \in BOOLEAN /\ calls' \in [Calls -> CallRecord] /\ Asked(calls', gs, won) /\ Calm(cs, calls')
<1>1. auto' \in BOOLEAN
  BY DEF Fails
<1>2. calls' = LoopLeft(cs) \/ calls' = cs
  BY RerunOff DEF Fails
<1>3. Calm(cs, cs)
  BY DEF Calm, Keeps, SameJobs
<1> QED
  BY <1>1, <1>2, <1>3, LeavesLoop

\* The answer to call c
LEMMA AnswersCalls ==
  ASSUME NEW gs, NEW won, calls \in [Calls -> CallRecord], Asked(calls, gs, won),
         NEW c \in Calls, NEW more \in BOOLEAN, Answers(c, more)
  PROVE  /\ calls' \in [Calls -> CallRecord] /\ Asked(calls', gs, won)
         /\ calls'[c].pc \notin Batching /\ Bare(calls'[c]) /\ calls'[c].scanned = {}
         /\ \A d \in Calls : d # c => calls'[d] = calls[d]
<1> DEFINE w == Waiting(calls[c])
           a == [w EXCEPT !.pc = "asking", !.more = more]
           r == CASE calls[c].page = "here" -> a
                  [] calls[c].page = "left" /\ more -> w
                  [] OTHER -> Idle
<1>1. calls[c] \in CallRecord /\ Sound(calls[c], gs, won)
  BY DEF Asked
<1>2. /\ w \in CallRecord /\ Sound(w, gs, won) /\ w.pc = "waiting" /\ Bare(w) /\ w.scanned = {}
      /\ w.kind = calls[c].kind /\ w.gen = calls[c].gen /\ w.current = calls[c].current
      /\ w.page = calls[c].page /\ w.seen = NoStatus
  BY <1>1, WaitingCall
<1> HIDE DEF w
<1>3. /\ a \in CallRecord /\ a.pc = "asking" /\ Bare(a) /\ a.scanned = {}
      /\ a.kind = w.kind /\ a.gen = w.gen /\ a.current = w.current
      /\ a.page = w.page /\ a.seen = NoStatus
  BY <1>2 DEF CallRecord, Places, Bare
<1> HIDE DEF a
<1>4. Sound(a, gs, won)
  BY <1>2, <1>3, Blank DEF Sound, Full, Batching, Bare
<1>5. r = a \/ r = w \/ r = Idle
  OBVIOUS
<1>6. calls' = [calls EXCEPT ![c] = r]
  BY DEF Answers, w, a
<1> HIDE DEF r
<1>7. /\ r \in CallRecord /\ Sound(r, gs, won) /\ (r.current => calls[c].current)
      /\ r.pc \notin Batching /\ Bare(r) /\ r.scanned = {}
  BY <1>2, <1>3, <1>4, <1>5, IdleCall, IdleIsSound DEF Batching
<1>8. calls' \in [Calls -> CallRecord] /\ Asked(calls', gs, won)
  BY <1>6, <1>7, OneReplaced
<1> QED
  BY <1>6, <1>7, <1>8

\* A status arrives at call c.
LEMMA SettleStep ==
  ASSUME PageTypes, calls \in [Calls -> CallRecord], gens \in [Gens -> Generation],
         Asked(calls, gens, Won),
         NEW c \in Calls, calls[c].pc \in {"asking", "seen"},
         NEW status \in Status, Full(status, gens, Won),
         Settle(c, status)
  PROVE  /\ auto' \in BOOLEAN /\ chosen' \in Models /\ shown' = status
         /\ calls' \in [Calls -> CallRecord] /\ Asked(calls', gens, Won) /\ Calm(calls, calls')
<1> DEFINE goesOn == calls[c].kind = "loop" /\ calls[c].more /\ auto
           r == IF goesOn THEN Waiting(calls[c]) ELSE Idle
           cs == [calls EXCEPT ![c] = r]
<1>1. calls[c] \in CallRecord /\ Sound(calls[c], gens, Won)
  BY DEF Asked
<1>2. /\ r \in CallRecord /\ Sound(r, gens, Won) /\ (r.current => calls[c].current)
      /\ r.pc \notin Batching /\ Bare(r) /\ r.scanned = {}
  BY <1>1, WaitingCall, IdleCall, IdleIsSound DEF Batching
<1> HIDE DEF r
<1>3. Drops(calls[c], r)
  BY <1>2 DEF Drops
<1>4. cs \in [Calls -> CallRecord] /\ Asked(cs, gens, Won) /\ Calm(calls, cs)
  BY <1>2, <1>3, OneChanges
<1>5. status.id \in Gens \union {0} /\ shown.id \in Gens \union {0}
  BY DEF Status, PageTypes
<1>6. auto' \in BOOLEAN /\ shown' = status
  BY DEF Settle
<1>7. chosen' \in Models
  <2>1. (chosen' = gens[status.id].model /\ status.id \in Gens) \/ chosen' = chosen
    BY <1>5 DEF Settle
  <2> QED
    BY <2>1 DEF PageTypes, Generation
<1>8. calls' = cs \/ /\ auto' => FreeIn(Rerun(cs, FALSE, 0, size)) # {}
                     /\ calls' = Rerun(cs, auto', status.id, size)
  BY DEF Settle, r
<1> HIDE DEF cs
<1>9. CASE calls' = cs
  BY <1>4, <1>6, <1>7, <1>9
<1>10. CASE /\ auto' => FreeIn(Rerun(cs, FALSE, 0, size)) # {}
            /\ calls' = Rerun(cs, auto', status.id, size)
  <2>1. auto' => FreeIn(LoopLeft(cs)) # {}
    BY <1>10, RerunOff
  <2>2. size \in Sizes /\ (status.id # 0 => gens[status.id].status # "none")
    BY DEF PageTypes, Full
  <2>3. calls' \in [Calls -> CallRecord] /\ Asked(calls', gens, Won) /\ Calm(cs, calls')
    BY <1>4, <1>5, <1>6, <1>10, <2>1, <2>2, Reruns
  <2> QED
    BY <1>4, <1>6, <1>7, <2>3, CalmTwice
<1> QED
  BY <1>8, <1>9, <1>10

\* A call whose page is left
LEMMA LeftCall ==
  ASSUME NEW call \in CallRecord, NEW gs, NEW won, Sound(call, gs, won)
  PROVE  LET r == Left(call)
         IN  /\ r \in CallRecord /\ Sound(r, gs, won) /\ ~r.current
             /\ Keeps(call, r) \/ Drops(call, r)
<1> DEFINE r == Left(call)
           away == [call EXCEPT !.page = "left", !.current = FALSE]
           alone == [call EXCEPT !.current = FALSE,
                                 !.page = IF call.kind = "loop" /\ auto THEN "left" ELSE "none"]
<1>1. /\ away \in CallRecord /\ ~away.current /\ away.seen = call.seen /\ Keeps(call, away)
      /\ alone \in CallRecord /\ ~alone.current /\ alone.seen = call.seen /\ Keeps(call, alone)
  BY DEF CallRecord, Keeps, SameJobs
<1> HIDE DEF away, alone
<1>2. Sound(away, gs, won) /\ Sound(alone, gs, won)
  BY <1>1 DEF Sound, Keeps, Bare, SameJobs
<1>3. LET w == Waiting(away)
      IN w \in CallRecord /\ Sound(w, gs, won) /\ ~w.current /\ w.pc = "waiting" /\ Bare(w) /\ w.scanned = {}
  BY <1>1, <1>2, WaitingCall
<1>4. call.kind = "read" \/ call.pc \in {"asking", "seen", "waiting"} => call.pc # "storing"
  BY DEF Sound, Batching
<1>5. CASE call.kind = "read"
  BY <1>4, <1>5, IdleCall, IdleIsSound DEF Left, Drops, Batching
<1>6. CASE call.kind # "read" /\ call.page # "here"
  <2>1. r = call /\ ~call.current
    BY <1>6 DEF Left, Sound
  <2> QED
    BY <2>1 DEF Keeps, SameJobs
<1>7. CASE call.kind # "read" /\ call.page = "here" /\ call.pc \in {"asking", "seen"}
  <2>1. r = Waiting(away) \/ r = Idle
    BY <1>7 DEF Left, away
  <2> QED
    BY <1>3, <1>4, <1>7, <2>1, IdleCall, IdleIsSound DEF Drops, Batching
<1>8. CASE /\ call.kind # "read" /\ call.page = "here" /\ call.pc \notin {"asking", "seen"}
           /\ call.pc = "waiting" /\ call.current
  <2>1. r = Idle
    BY <1>8 DEF Left
  <2> QED
    BY <1>4, <1>8, <2>1, IdleCall, IdleIsSound DEF Drops, Batching
<1>9. CASE /\ call.kind # "read" /\ call.page = "here" /\ call.pc \notin {"asking", "seen"}
           /\ ~(call.pc = "waiting" /\ call.current)
  <2>1. r = alone
    BY <1>9 DEF Left, alone
  <2> QED
    BY <1>1, <1>2, <2>1
<1> QED
  BY <1>5, <1>6, <1>7, <1>8, <1>9

----------------------------------------------------------------------------
(* Steps of the page *)

\* A step that leaves the server alone and no call storing behind
PageMoves ==
  /\ UNCHANGED <<gens, locks, records, past>>
  /\ PageTypes' /\ Full(shown', gens, Won)
  /\ calls' \in [Calls -> CallRecord] /\ Asked(calls', gens, Won) /\ Calm(calls, calls')

\* The page sends a request.
LEMMA SendsCalls ==
  ASSUME NEW gs, NEW won, calls \in [Calls -> CallRecord], Asked(calls, gs, won), Free # {},
         NEW r \in CallRecord, Sound(r, gs, won), ~r.current, r.pc \notin Batching, r.scanned = {},
         calls' = [calls EXCEPT ![Least(Free)] = r]
  PROVE  calls' \in [Calls -> CallRecord] /\ Asked(calls', gs, won) /\ Calm(calls, calls')
BY OneBegins DEF Free

LEMMA ReadRequest ==
  ASSUME NEW gs, NEW won, calls \in [Calls -> CallRecord], Asked(calls, gs, won), Free # {},
         Sends("read", "asking")
  PROVE  calls' \in [Calls -> CallRecord] /\ Asked(calls', gs, won) /\ Calm(calls, calls')
<1> DEFINE r == Request("read", "asking")
<1>1. /\ r \in CallRecord /\ r.kind = "read" /\ r.pc = "asking" /\ r.page = "here"
      /\ ~r.current /\ Bare(r) /\ r.scanned = {} /\ r.gen = 0 /\ r.seen = NoStatus
  BY RequestCall DEF Kinds, Places
<1>2. calls' = [calls EXCEPT ![Least(Free)] = r]
  BY DEF Sends
<1> HIDE DEF r
<1>3. Sound(r, gs, won)
  BY <1>1, Blank DEF Sound, Full, Batching, Bare
<1> QED
  BY <1>1, <1>2, <1>3, SendsCalls DEF Batching

\* A request for a generation
LEMMA PlainRequest ==
  ASSUME NEW gs, NEW won, calls \in [Calls -> CallRecord], Asked(calls, gs, won), Free # {},
         NEW r \in CallRecord, r.kind \in {"start", "single", "activate"}, r.pc = "sent",
         ~r.current, Bare(r) /\ r.scanned = {}, r.seen = NoStatus,
         r.kind # "start" => r.gen # 0 /\ gs[r.gen].status # "none",
         r.kind = "activate" => Earned(r.gen, gs, won),
         calls' = [calls EXCEPT ![Least(Free)] = r]
  PROVE  calls' \in [Calls -> CallRecord] /\ Asked(calls', gs, won) /\ Calm(calls, calls')
<1>1. Sound(r, gs, won)
  BY Blank DEF Sound, Full, Batching, Bare
<1>2. ~r.current /\ r.pc \notin Batching
  BY DEF Batching
<1> QED
  BY <1>1, <1>2, SendsCalls

LEMMA ChooseMoves ==
  ASSUME IndexInv, NEW m \in Models, Choose(m)
  PROVE  PageMoves
<1>1. chosen' = m /\ UNCHANGED <<here, signedIn, shown, auto, size, calls, gens, locks, records, past>>
  BY DEF Choose
<1>2. Calm(calls, calls)
  BY DEF Calm, Keeps, SameJobs
<1> QED
  BY <1>1, <1>2 DEF PageMoves, IndexInv, Types, PageTypes

LEMMA RefreshMoves ==
  ASSUME IndexInv, HandleManualRefresh \/ Poll
  PROVE  PageMoves
<1>1. Free # {} /\ Sends("read", "asking") /\ UNCHANGED <<page, gens, locks, records, past, events>>
  BY DEF HandleManualRefresh, Poll
<1>2. calls' \in [Calls -> CallRecord] /\ Asked(calls', gens, Won) /\ Calm(calls, calls')
  BY <1>1, ReadRequest DEF IndexInv, Types
<1>3. PageTypes' /\ Full(shown', gens, Won)
  BY <1>1 DEF page, PageTypes, IndexInv, Types
<1> QED
  BY <1>1, <1>2, <1>3 DEF PageMoves

LEMMA StartMoves ==
  ASSUME IndexInv, HandleStartGeneration \/ \E m \in Models : OtherStart(m)
  PROVE  PageMoves
<1> DEFINE q == Request("start", "sent")
<1>1. /\ q \in CallRecord /\ q.kind = "start" /\ q.pc = "sent" /\ q.page = "here"
      /\ ~q.current /\ Bare(q) /\ q.scanned = {} /\ q.gen = 0 /\ q.seen = NoStatus
  BY RequestCall DEF Kinds, Places, ServerSide
<1>2. UNCHANGED <<here, signedIn, chosen, shown, auto, size, gens, locks, records, past>> /\ Free # {}
  BY DEF HandleStartGeneration, OtherStart, page
<1>3. PICK m \in Models, p \in {"here", "none"} :
        calls' = [calls EXCEPT ![Least(Free)] = [q EXCEPT !.page = p, !.model = m]]
  <2>1. CASE HandleStartGeneration
    <3>1. [q EXCEPT !.model = chosen] = [q EXCEPT !.page = "here", !.model = chosen]
      <4> HIDE DEF q
      <4> QED
        BY <1>1 DEF CallRecord
    <3>2. chosen \in Models
      BY DEF IndexInv, Types, PageTypes
    <3> QED
      BY <2>1, <3>1, <3>2 DEF HandleStartGeneration
  <2>2. CASE \E m \in Models : OtherStart(m)
    BY <2>2 DEF OtherStart
  <2> QED
    BY <2>1, <2>2
<1> DEFINE r == [q EXCEPT !.page = p, !.model = m]
<1> HIDE DEF q
<1>4. /\ r \in CallRecord /\ r.kind = "start" /\ r.pc = "sent"
      /\ ~r.current /\ Bare(r) /\ r.scanned = {} /\ r.seen = NoStatus
  BY <1>1 DEF CallRecord, Bare
<1> HIDE DEF r
<1>5. calls' \in [Calls -> CallRecord] /\ Asked(calls', gens, Won) /\ Calm(calls, calls')
  BY <1>2, <1>3, <1>4, PlainRequest DEF IndexInv, Types, r
<1>6. PageTypes' /\ Full(shown', gens, Won)
  BY <1>2 DEF PageTypes, IndexInv, Types
<1> QED
  BY <1>2, <1>5, <1>6 DEF PageMoves

LEMMA SingleMoves ==
  ASSUME IndexInv, HandleProcessSingleBatch \/ HandleActivateGeneration
  PROVE  PageMoves
<1>1. /\ UNCHANGED <<here, signedIn, chosen, shown, auto, size, gens, locks, records, past>> /\ Free # {}
      /\ shown.id # 0
  BY DEF HandleProcessSingleBatch, HandleActivateGeneration, Toolbar
<1>2. shown \in Status /\ size \in Sizes /\ shown.id \in Gens /\ gens[shown.id].status # "none"
  BY <1>1 DEF IndexInv, Types, PageTypes, Status, Full
<1>3. PICK r \in CallRecord :
        /\ r.kind \in {"single", "activate"} /\ r.pc = "sent" /\ ~r.current /\ Bare(r) /\ r.scanned = {}
        /\ r.seen = NoStatus /\ r.gen = shown.id
        /\ r.kind = "activate" => Earned(shown.id, gens, Won)
        /\ calls' = [calls EXCEPT ![Least(Free)] = r]
  <2>1. CASE HandleProcessSingleBatch
    <3> DEFINE q == Request("single", "sent")
               r == [q EXCEPT !.gen = shown.id, !.size = size]
    <3>1. /\ q \in CallRecord /\ q.kind = "single" /\ q.pc = "sent"
          /\ ~q.current /\ Bare(q) /\ q.scanned = {} /\ q.seen = NoStatus
      BY RequestCall DEF Kinds, Places, ServerSide
    <3>2. calls' = [calls EXCEPT ![Least(Free)] = r]
      BY <2>1 DEF HandleProcessSingleBatch
    <3> HIDE DEF q
    <3>3. /\ r \in CallRecord /\ r.kind = "single" /\ r.pc = "sent"
          /\ ~r.current /\ Bare(r) /\ r.scanned = {} /\ r.seen = NoStatus /\ r.gen = shown.id
      BY <1>2, <3>1 DEF CallRecord, Bare
    <3> HIDE DEF r
    <3> QED
      BY <3>2, <3>3
  <2>2. CASE HandleActivateGeneration
    <3> DEFINE q == Request("activate", "sent")
               r == [q EXCEPT !.gen = shown.id]
    <3>1. /\ q \in CallRecord /\ q.kind = "activate" /\ q.pc = "sent"
          /\ ~q.current /\ Bare(q) /\ q.scanned = {} /\ q.seen = NoStatus
      BY RequestCall DEF Kinds, Places, ServerSide
    <3>2. calls' = [calls EXCEPT ![Least(Free)] = r]
      BY <2>2 DEF HandleActivateGeneration
    <3> HIDE DEF q
    <3>3. /\ r \in CallRecord /\ r.kind = "activate" /\ r.pc = "sent"
          /\ ~r.current /\ Bare(r) /\ r.scanned = {} /\ r.seen = NoStatus /\ r.gen = shown.id
      BY <1>2, <3>1 DEF CallRecord, Bare
    <3> HIDE DEF r
    <3>4. shown.total > 0 /\ shown.done >= shown.total
      BY <2>2 DEF HandleActivateGeneration, IsReadyToActivate
    <3>5. Earned(shown.id, gens, Won)
      BY <1>1, <3>4 DEF IndexInv, Full
    <3> QED
      BY <3>2, <3>3, <3>5
  <2> QED
    BY <2>1, <2>2
<1>4. calls' \in [Calls -> CallRecord] /\ Asked(calls', gens, Won) /\ Calm(calls, calls')
  BY <1>1, <1>2, <1>3, PlainRequest DEF IndexInv, Types
<1>5. PageTypes' /\ Full(shown', gens, Won)
  BY <1>1 DEF PageTypes, IndexInv, Types
<1> QED
  BY <1>1, <1>4, <1>5 DEF PageMoves

\* What is free stays free when the loop is left.
LEMMA FreeStays ==
  ASSUME NEW cs \in [Calls -> CallRecord]
  PROVE  FreeIn(cs) \subseteq FreeIn(LoopLeft(cs))
BY IdleCall DEF FreeIn, LoopLeft

LEMMA ToggleMoves ==
  ASSUME IndexInv, ToggleAutoProcess \/ \E n \in Sizes : SetBatchSize(n)
  PROVE  PageMoves
<1>1. /\ UNCHANGED <<here, signedIn, chosen, shown, gens, locks, records, past>>
      /\ auto' \in BOOLEAN /\ size' \in Sizes
  BY DEF ToggleAutoProcess, SetBatchSize, IndexInv, Types, PageTypes
<1>2. calls' = Rerun(calls, auto', shown.id, size')
  BY DEF ToggleAutoProcess, SetBatchSize
<1>3. auto' => FreeIn(LoopLeft(calls)) # {}
  <2>1. CASE ToggleAutoProcess
    <3>1. auto' => FreeIn(calls) # {}
      BY <2>1 DEF ToggleAutoProcess, Free
    <3> QED
      BY <3>1, FreeStays DEF IndexInv, Types
  <2>2. ASSUME NEW n \in Sizes, SetBatchSize(n) PROVE auto' => FreeIn(LoopLeft(calls)) # {}
    BY <2>2, RerunOff DEF SetBatchSize
  <2> QED
    BY <2>1, <2>2
<1>4. shown.id \in Gens \union {0} /\ (shown.id # 0 => gens[shown.id].status # "none")
  BY DEF IndexInv, Types, PageTypes, Status, Full
<1>5. calls' \in [Calls -> CallRecord] /\ Asked(calls', gens, Won) /\ Calm(calls, calls')
  <2>1. calls \in [Calls -> CallRecord] /\ Asked(calls, gens, Won)
    BY DEF IndexInv, Types
  <2>2. auto' \in BOOLEAN /\ size' \in Sizes
    BY <1>1
  <2>3. ASSUME NEW on \in BOOLEAN, NEW sz \in Sizes, on => FreeIn(LoopLeft(calls)) # {},
               NEW new, new = Rerun(calls, on, shown.id, sz)
        PROVE  new \in [Calls -> CallRecord] /\ Asked(new, gens, Won) /\ Calm(calls, new)
    BY <1>4, <2>1, <2>3, Reruns
  <2> QED
    BY <1>2, <1>3, <2>2, <2>3
<1>6. PageTypes' /\ Full(shown', gens, Won)
  BY <1>1 DEF PageTypes, IndexInv, Types
<1> QED
  BY <1>1, <1>5, <1>6 DEF PageMoves

LEMMA RunLoopMoves ==
  ASSUME IndexInv, NEW c \in Calls, RunLoop(c)
  PROVE  PageMoves
<1> DEFINE r == [calls[c] EXCEPT !.pc = "sent"]
<1>1. /\ calls[c].pc = "waiting" /\ calls' = [calls EXCEPT ![c] = r]
      /\ UNCHANGED <<page, gens, locks, records, past>>
  BY DEF RunLoop
<1>2. calls[c] \in CallRecord /\ Sound(calls[c], gens, Won)
  BY DEF IndexInv, Types, Asked
<1>3. /\ r \in CallRecord /\ r.pc = "sent" /\ r.kind = calls[c].kind /\ r.gen = calls[c].gen
      /\ SameJobs(r, calls[c]) /\ r.seen = calls[c].seen /\ r.current = calls[c].current
      /\ r.page = calls[c].page
  BY <1>2 DEF CallRecord, Places, ServerSide, SameJobs
<1> HIDE DEF r
<1>4. Sound(r, gens, Won) /\ Drops(calls[c], r)
  BY <1>1, <1>2, <1>3 DEF Sound, Drops, Batching, Bare, SameJobs
<1>5. calls' \in [Calls -> CallRecord] /\ Asked(calls', gens, Won) /\ Calm(calls, calls')
  BY <1>1, <1>3, <1>4, OneChanges DEF IndexInv, Types
<1>6. PageTypes' /\ Full(shown', gens, Won)
  BY <1>1 DEF page, PageTypes, IndexInv, Types
<1> QED
  BY <1>1, <1>5, <1>6 DEF PageMoves

LEMMA LeaveMoves ==
  ASSUME IndexInv, Leave
  PROVE  PageMoves
<1>1. /\ UNCHANGED <<signedIn, gens, locks, records, past>>
      /\ here' = FALSE /\ auto' = FALSE /\ shown' = NoStatus /\ chosen' = First /\ size' = Default
      /\ calls' = [c \in Calls |-> Left(calls[c])]
  BY DEF Leave
<1>2. \A c \in Calls : /\ calls'[c] \in CallRecord /\ Sound(calls'[c], gens, Won)
                       /\ ~calls'[c].current
                       /\ Keeps(calls[c], calls'[c]) \/ Drops(calls[c], calls'[c])
  BY <1>1, LeftCall DEF IndexInv, Types, Asked
<1>3. calls' \in [Calls -> CallRecord] /\ Asked(calls', gens, Won) /\ Calm(calls, calls')
  BY <1>1, <1>2 DEF Asked, OneLoop, Calm
<1>4. PageTypes' /\ Full(shown', gens, Won)
  BY <1>1, Settings, Blank, ConstantsAssumption DEF PageTypes, IndexInv, Types, Full
<1> QED
  BY <1>1, <1>3, <1>4 DEF PageMoves

LEMMA ReturnMoves ==
  ASSUME IndexInv, Return
  PROVE  PageMoves
<1>1. /\ UNCHANGED <<signedIn, chosen, shown, auto, size, gens, locks, records, past>> /\ here' = TRUE
      /\ Free # {} /\ (Sends("read", "asking") \/ calls' = calls)
  BY DEF Return
<1>2. Calm(calls, calls)
  BY DEF Calm, Keeps, SameJobs
<1>3. calls' \in [Calls -> CallRecord] /\ Asked(calls', gens, Won) /\ Calm(calls, calls')
  BY <1>1, <1>2, ReadRequest DEF IndexInv, Types
<1>4. PageTypes' /\ Full(shown', gens, Won)
  BY <1>1 DEF PageTypes, IndexInv, Types
<1> QED
  BY <1>1, <1>3, <1>4 DEF PageMoves

LEMMA LogoutMoves ==
  ASSUME IndexInv, Logout
  PROVE  PageMoves
<1>1. /\ UNCHANGED <<here, chosen, shown, size, gens, locks, records, past>>
      /\ auto' = FALSE /\ signedIn' = FALSE /\ calls' = LoopLeft(calls)
  BY RerunOff DEF Logout
<1>2. calls' \in [Calls -> CallRecord] /\ Asked(calls', gens, Won) /\ Calm(calls, calls')
  BY <1>1, LeavesLoop DEF IndexInv, Types
<1>3. PageTypes' /\ Full(shown', gens, Won)
  BY <1>1 DEF PageTypes, IndexInv, Types
<1> QED
  BY <1>1, <1>2, <1>3 DEF PageMoves

LEMMA SettleMoves ==
  ASSUME IndexInv, NEW c \in Calls, Deliver(c) \/ ReadFails(c)
  PROVE  PageMoves
<1>1. UNCHANGED <<here, signedIn, size, gens, locks, records, past>> /\ calls[c].pc \in {"asking", "seen"}
  BY DEF Deliver, ReadFails
<1>2. PICK status \in Status : Full(status, gens, Won) /\ Settle(c, status)
  <2>1. CASE Deliver(c)
    <3>1. calls[c].seen \in Status /\ Full(calls[c].seen, gens, Won)
      BY DEF IndexInv, Types, CallRecord, Asked, Sound
    <3> QED
      BY <2>1, <3>1 DEF Deliver
  <2>2. CASE ReadFails(c)
    <3>1. shown \in Status /\ Full(shown, gens, Won)
      BY DEF IndexInv, Types, PageTypes
    <3> QED
      BY <2>2, <3>1 DEF ReadFails
  <2> QED
    BY <2>1, <2>2
<1>3. /\ auto' \in BOOLEAN /\ chosen' \in Models /\ shown' = status
      /\ calls' \in [Calls -> CallRecord] /\ Asked(calls', gens, Won) /\ Calm(calls, calls')
  BY <1>1, <1>2, SettleStep DEF IndexInv, Types
<1>4. PageTypes' /\ Full(shown', gens, Won)
  BY <1>1, <1>2, <1>3 DEF PageTypes, IndexInv, Types
<1> QED
  BY <1>1, <1>3, <1>4 DEF PageMoves

\* A failure of call c, which ends as r
LEMMA FailsAsCalls ==
  ASSUME NEW gs, NEW won, calls \in [Calls -> CallRecord], Asked(calls, gs, won),
         PageTypes, Full(shown, gs, won),
         NEW c \in Calls, NEW r \in CallRecord, Sound(r, gs, won), ~r.current,
         Keeps(calls[c], r) \/ Drops(calls[c], r), FailsAs(c, r)
  PROVE  auto' \in BOOLEAN /\ calls' \in [Calls -> CallRecord] /\ Asked(calls', gs, won) /\ Calm(calls, calls')
<1> DEFINE cs == [calls EXCEPT ![c] = r]
<1>1. cs \in [Calls -> CallRecord] /\ Asked(cs, gs, won) /\ Calm(calls, cs)
  BY OneChanges
<1>2. Fails({c}, cs)
  BY DEF FailsAs
<1> HIDE DEF cs
<1>3. auto' \in BOOLEAN /\ calls' \in [Calls -> CallRecord] /\ Asked(calls', gs, won) /\ Calm(cs, calls')
  BY <1>1, <1>2, FailsCalls
<1> QED
  BY <1>1, <1>3, CalmTwice

\* Call c fails and is over.
LEMMA FailsOver ==
  ASSUME NEW gs, NEW won, calls \in [Calls -> CallRecord], Asked(calls, gs, won),
         PageTypes, Full(shown, gs, won),
         NEW c \in Calls, calls[c].pc # "storing", FailsAs(c, Idle)
  PROVE  auto' \in BOOLEAN /\ calls' \in [Calls -> CallRecord] /\ Asked(calls', gs, won) /\ Calm(calls, calls')
<1>1. Drops(calls[c], Idle) /\ ~Idle.current /\ Idle \in CallRecord /\ Sound(Idle, gs, won)
  BY IdleCall, IdleIsSound DEF Drops, Batching
<1> QED
  BY <1>1, FailsAsCalls

LEMMA CutMoves ==
  ASSUME IndexInv, NEW c \in Calls, NEW arrived \in BOOLEAN, Cut(c, arrived)
  PROVE  PageMoves
<1>1. UNCHANGED <<here, signedIn, chosen, shown, size, gens, locks, records, past>>
  BY DEF Cut
<1>2. calls[c] \in CallRecord /\ Sound(calls[c], gens, Won)
  BY DEF IndexInv, Types, Asked
<1>3. auto' \in BOOLEAN /\ calls' \in [Calls -> CallRecord] /\ Asked(calls', gens, Won) /\ Calm(calls, calls')
  <2>1. CASE arrived
    <3> DEFINE r == [calls[c] EXCEPT !.page = "none", !.current = FALSE]
    <3>1. FailsAs(c, r)
      BY <2>1 DEF Cut
    <3>2. r \in CallRecord /\ ~r.current /\ Keeps(calls[c], r) /\ r.seen = calls[c].seen
      BY <1>2 DEF CallRecord, Keeps, SameJobs
    <3> HIDE DEF r
    <3>3. Sound(r, gens, Won)
      BY <1>2, <3>2 DEF Sound, Keeps, Bare, SameJobs
    <3> QED
      BY <3>1, <3>2, <3>3, FailsAsCalls DEF IndexInv, Types
  <2>2. CASE ~arrived
    <3>1. FailsAs(c, Idle) /\ calls[c].pc # "storing"
      BY <2>2 DEF Cut
    <3> QED
      BY <3>1, FailsOver DEF IndexInv, Types
  <2> QED
    BY <2>1, <2>2
<1>4. PageTypes' /\ Full(shown', gens, Won)
  BY <1>1, <1>3 DEF PageTypes, IndexInv, Types
<1> QED
  BY <1>1, <1>3, <1>4 DEF PageMoves

\* The newest generation's status tells what was earned.
LEMMA StatusReadMoves ==
  ASSUME IndexInv, NEW c \in Calls, StatusRead(c)
  PROVE  PageMoves
<1> DEFINE g == Greatest(Present)
           status == IF Present = {} THEN NoStatus
                     ELSE [id |-> g, status |-> gens[g].status, total |-> gens[g].total,
                           done |-> gens[g].done]
           r == [calls[c] EXCEPT !.pc = "seen", !.seen = status]
<1>1. calls[c] \in CallRecord /\ Sound(calls[c], gens, Won)
  BY DEF IndexInv, Types, Asked
<1>2. status \in Status /\ Full(status, gens, Won)
  <2>1. CASE Present = {}
    BY <2>1, Blank DEF Full
  <2>2. CASE Present # {}
    <3>1. Present \in SUBSET Gens
      BY DEF Present
    <3>2. g \in Present
      BY <2>2, <3>1, GreatestIsMember
    <3> HIDE DEF g
    <3>3. g \in Gens /\ gens[g] \in Generation /\ gens[g].status \in {"BUILDING", "ACTIVE"} /\ g # 0
      BY <3>2, Settings DEF Present, IndexInv, Types
    <3>4. gens[g].total \in 0..Cardinality(Items) /\ gens[g].done \in 0..Cardinality(Items)
      BY <3>3 DEF Generation
    <3>5. gens[g].total \in Nat /\ gens[g].done \in Nat
      BY <3>4, Settings
    <3>6. gens[g].total > 0 /\ gens[g].done >= gens[g].total => Earned(g, gens, Won)
      BY <3>3, <3>4, Settings DEF IndexInv, Progress
    <3>7. status = [id |-> g, status |-> gens[g].status, total |-> gens[g].total,
                    done |-> gens[g].done]
      BY <2>2
    <3> HIDE DEF status
    <3>8. status \in Status
      BY <3>3, <3>5, <3>7 DEF Status
    <3>9. status.id = g /\ status.total = gens[g].total /\ status.done = gens[g].done
      BY <3>7
    <3> QED
      BY <3>3, <3>6, <3>8, <3>9 DEF Full
  <2> QED
    BY <2>1, <2>2
<1>3. calls' = [calls EXCEPT ![c] = r] /\ calls[c].pc = "asking"
  <2>1. calls' = [calls EXCEPT ![c].pc = "seen", ![c].seen = status] /\ calls[c].pc = "asking"
    BY DEF StatusRead
  <2> HIDE DEF status
  <2> QED
    BY <2>1 DEF IndexInv, Types
<1> HIDE DEF status
<1>4. /\ r \in CallRecord /\ r.pc = "seen" /\ r.kind = calls[c].kind /\ r.gen = calls[c].gen
      /\ SameJobs(r, calls[c]) /\ r.seen = status /\ r.current = calls[c].current
      /\ r.page = calls[c].page
  BY <1>1, <1>2 DEF CallRecord, Places, SameJobs
<1> HIDE DEF r
<1>5. Sound(r, gens, Won) /\ Drops(calls[c], r)
  BY <1>1, <1>2, <1>3, <1>4 DEF Sound, Drops, Batching, Bare, SameJobs
<1>6. calls' \in [Calls -> CallRecord] /\ Asked(calls', gens, Won) /\ Calm(calls, calls')
  BY <1>3, <1>4, <1>5, OneChanges DEF IndexInv, Types
<1>7. UNCHANGED <<page, gens, locks, records, past>>
  BY DEF StatusRead
<1>8. PageTypes' /\ Full(shown', gens, Won)
  BY <1>7 DEF page, PageTypes, IndexInv, Types
<1> QED
  BY <1>6, <1>7, <1>8 DEF PageMoves

\* A call of start_generation goes to its next step, with a generation or not yet.
LEMMA StartGoesOn ==
  ASSUME NEW gs, NEW won, calls \in [Calls -> CallRecord], Asked(calls, gs, won),
         NEW c \in Calls, calls[c].kind = "start", calls[c].pc \in {"sent", "looking", "inserting"},
         NEW p \in {"looking", "inserting", "scanning"}, NEW g \in Gens \union {0},
         calls' = [calls EXCEPT ![c] = [calls[c] EXCEPT !.pc = p, !.gen = g]]
  PROVE  calls' \in [Calls -> CallRecord] /\ Asked(calls', gs, won) /\ Calm(calls, calls')
<1> DEFINE r == [calls[c] EXCEPT !.pc = p, !.gen = g]
<1>1. calls[c] \in CallRecord /\ Sound(calls[c], gs, won)
  BY DEF Asked
<1>2. /\ r \in CallRecord /\ r.pc = p /\ r.kind = calls[c].kind
      /\ SameJobs(r, calls[c]) /\ r.seen = calls[c].seen /\ r.current = calls[c].current
  BY <1>1 DEF CallRecord, Places, ServerSide, SameJobs
<1> HIDE DEF r
<1>3. Sound(r, gs, won) /\ Drops(calls[c], r)
  BY <1>1, <1>2 DEF Sound, Drops, Batching, Bare, SameJobs
<1> QED
  BY <1>2, <1>3, OneChanges DEF r

LEMMA LookMoves ==
  ASSUME IndexInv, NEW c \in Calls, Look(c)
  PROVE  PageMoves
<1>1. UNCHANGED <<page, gens, locks, records, past>> /\ calls[c].pc = "looking"
  BY DEF Look
<1>2. calls[c] \in CallRecord /\ calls[c].kind = "start" /\ calls[c].gen \in Gens \union {0}
  BY <1>1 DEF IndexInv, Types, Asked, Sound, CallRecord
<1>3. PICK p \in {"inserting", "scanning"}, g \in Gens \union {0} :
        calls' = [calls EXCEPT ![c] = [calls[c] EXCEPT !.pc = p, !.gen = g]]
  <2>1. CASE calls' = [calls EXCEPT ![c].pc = "inserting"]
    <3>1. [calls[c] EXCEPT !.pc = "inserting"]
            = [calls[c] EXCEPT !.pc = "inserting", !.gen = calls[c].gen]
      BY <1>2 DEF CallRecord
    <3> QED
      BY <1>2, <2>1, <3>1
  <2>2. ASSUME NEW g \in Gens, calls' = [calls EXCEPT ![c].pc = "scanning", ![c].gen = g]
        PROVE  calls' = [calls EXCEPT ![c] = [calls[c] EXCEPT !.pc = "scanning", !.gen = g]]
    BY <2>2 DEF IndexInv, Types
  <2> QED
    BY <2>1, <2>2 DEF Look, Present
<1>4. calls' \in [Calls -> CallRecord] /\ Asked(calls', gens, Won) /\ Calm(calls, calls')
  BY <1>1, <1>2, <1>3, StartGoesOn DEF IndexInv, Types
<1>5. PageTypes' /\ Full(shown', gens, Won)
  BY <1>1 DEF page, PageTypes, IndexInv, Types
<1> QED
  BY <1>1, <1>4, <1>5 DEF PageMoves

----------------------------------------------------------------------------
(* Steps of the server that leave counts and claims alone *)

\* No history is lost.
Longer == complete \subseteq complete' /\ built \subseteq built' /\ recounted \subseteq recounted'

\* Some call has the job of item i in generation g.
Held(g, i) == \E c \in Calls : calls[c].gen = g /\ i \in JobsHeld(calls[c])

\* A generation is deleted while no call stores in it, or is new, or keeps its
\* progress, the jobs that are processed or completed, and those that a call has;
\* if it is full with a new total, that was earned.
GensCalm(new) ==
  \A g \in Gens :
    \/ /\ g \notin InUse(new) /\ new[g].done = 0
       /\ \A c \in Calls : calls[c].pc = "storing" => calls[c].gen # g
    \/ gens[g].status = "none" /\ new[g].done = 0
    \/ /\ new[g].done = gens[g].done
       /\ \/ new[g].total = gens[g].total
          \/ new[g].total > 0 /\ new[g].done >= new[g].total => Earned(g, new, Won')
       /\ g \in InUse(new) <=> g \in InUse(gens)
       /\ \A i \in Items :
            /\ gens[g].jobs[i].state \in {"processing", "completed"} =>
                 new[g].jobs[i].state = gens[g].jobs[i].state
            /\ Held(g, i) /\ gens[g].jobs[i].state \notin {"none", "completed"} =>
                 new[g].jobs[i].state \notin {"none", "completed"}

\* Only what was earned becomes active.
Promotes(new) ==
  \A g \in Gens : new[g].status = "ACTIVE" =>
    gens[g].status = "ACTIVE" \/ Earned(g, gens, Won)

Grows(new) ==
  /\ new \in [Gens -> Generation]
  /\ Onward(gens, new, Won, Won')
  /\ Promotes(new)

CalmMoves ==
  /\ UNCHANGED <<locks, records>>
  /\ Grows(gens') /\ GensCalm(gens') /\ Recorded(gens', records, complete', recounted')
  /\ PageTypes' /\ Full(shown', gens', Won')
  /\ calls' \in [Calls -> CallRecord] /\ Asked(calls', gens', Won') /\ Calm(calls, calls')

LEMMA PastStays ==
  ASSUME past' = past
  PROVE  complete' = complete /\ built' = built /\ recounted' = recounted /\ Won' = Won /\ Longer
BY DEF past, Won, Longer

LEMMA WonStays ==
  ASSUME Longer
  PROVE  Won \subseteq Won'
BY DEF Longer, Won

\* A generation without jobs, or with jobs that it had, is still recorded right.
LEMMA RecordedStays ==
  ASSUME IndexInv, Longer, NEW new \in [Gens -> Generation],
         \A g \in Gens :
           \/ JobsOf(new[g]) = {}
           \/ /\ JobsOf(new[g]) \subseteq JobsOf(gens[g]) /\ new[g].total = gens[g].total
              /\ gens[g].outlived => new[g].outlived
              /\ IsComplete(new[g]) => IsComplete(gens[g]) \/ g \in complete'
  PROVE  Recorded(new, records, complete', recounted')
<1> SUFFICES ASSUME NEW g \in Gens
             PROVE  /\ JobsOf(new[g]) \subseteq Begun(records)
                    /\ IsComplete(new[g]) => g \in complete'
                    /\ \/ g \in recounted' \/ new[g].outlived
                       \/ Cardinality(JobsOf(new[g])) <= new[g].total
  BY DEF Recorded
<1>1. new[g].total \in Nat /\ gens[g].total \in Nat
  <2>1. new[g].total \in 0..Cardinality(Items) /\ gens[g].total \in 0..Cardinality(Items)
    BY DEF IndexInv, Types, Generation
  <2> QED
    BY <2>1, Settings
<1>2. CASE JobsOf(new[g]) = {}
  BY <1>1, <1>2, FS_EmptySet DEF IsComplete
<1>3. CASE /\ JobsOf(new[g]) \subseteq JobsOf(gens[g]) /\ new[g].total = gens[g].total
           /\ gens[g].outlived => new[g].outlived
           /\ IsComplete(new[g]) => IsComplete(gens[g]) \/ g \in complete'
  <2>1. JobsOf(new[g]) \in SUBSET Items /\ JobsOf(gens[g]) \in SUBSET Items
    BY DEF JobsOf
  <2>2. /\ JobsOf(gens[g]) \subseteq Begun(records)
        /\ IsComplete(gens[g]) => g \in complete
        /\ \/ g \in recounted \/ gens[g].outlived
           \/ Cardinality(JobsOf(gens[g])) <= gens[g].total
    BY DEF IndexInv, Recorded
  <2>3. /\ Cardinality(JobsOf(new[g])) <= Cardinality(JobsOf(gens[g]))
        /\ Cardinality(JobsOf(new[g])) \in Nat /\ Cardinality(JobsOf(gens[g])) \in Nat
    BY <1>3, <2>1, Sized, Settings
  <2>4. complete \subseteq complete' /\ recounted \subseteq recounted'
    BY DEF Longer
  <2> QED
    BY <1>1, <1>3, <2>2, <2>3, <2>4
<1> QED
  BY <1>2, <1>3

LEMMA GensStay ==
  ASSUME IndexInv, past' = past
  PROVE  Grows(gens) /\ GensCalm(gens) /\ Recorded(gens, records, complete', recounted')
<1>1. Longer /\ Won' = Won
  BY PastStays
<1>2. gens \in [Gens -> Generation]
  BY DEF IndexInv, Types
<1>3. Grows(gens)
  BY <1>1, <1>2 DEF Grows, Onward, Promotes
<1>4. GensCalm(gens)
  BY DEF GensCalm
<1>5. Recorded(gens, records, complete', recounted')
  BY PastStays DEF IndexInv
<1> QED
  BY <1>3, <1>4, <1>5

LEMMA PageIsCalm ==
  ASSUME IndexInv, PageMoves
  PROVE  CalmMoves
<1>1. gens' = gens /\ UNCHANGED <<locks, records>> /\ past' = past
  BY DEF PageMoves
<1>2. Grows(gens') /\ GensCalm(gens') /\ Recorded(gens', records, complete', recounted')
  BY <1>1, GensStay
<1>3. Won' = Won
  BY <1>1, PastStays
<1> QED
  BY <1>1, <1>2, <1>3 DEF PageMoves, CalmMoves

\* Who waits or has the lock of a row stores in it.
LEMMA UnlockedIsFree ==
  ASSUME IndexInv, NEW S, Unlocked(S), NEW c \in Calls, calls[c].pc = "storing"
  PROVE  calls[c].gen \notin S
BY DEF IndexInv, Locked, Unlocked

\* The empty generations have no jobs.
LEMMA NoJobs ==
  ASSUME NEW b, \A i \in Items : b.jobs[i] = NoJob
  PROVE  JobsOf(b) = {}
BY Blank DEF JobsOf

LEMMA DeletionGrows ==
  ASSUME IndexInv, Longer, NEW S \in SUBSET Gens, S \subseteq Present, Unlocked(S)
  PROVE  /\ Grows(Deleted(gens, S)) /\ GensCalm(Deleted(gens, S))
         /\ Recorded(Deleted(gens, S), records, complete', recounted')
<1> DEFINE new == Deleted(gens, S)
<1>0. gens \in [Gens -> Generation]
  BY DEF IndexInv, Types
<1>1. /\ new \in [Gens -> Generation]
      /\ \A g \in Gens : IF g \in S
           THEN /\ new[g].status = "gone" /\ new[g].done = 0
                /\ new[g].outlived = gens[g].outlived /\ new[g].total = 0
                /\ \A i \in Items : new[g].jobs[i] = NoJob
           ELSE new[g] = gens[g]
  BY <1>0, DeletedGens
<1> HIDE DEF new
<1>2. Onward(gens, new, Won, Won')
  BY <1>1, WonStays DEF Onward
<1>3. Promotes(new)
  BY <1>1 DEF Promotes
<1>4. ASSUME NEW g \in Gens, g \in S
      PROVE  /\ g \notin InUse(new) /\ new[g].done = 0
             /\ \A c \in Calls : calls[c].pc = "storing" => calls[c].gen # g
  BY <1>1, <1>4, UnlockedIsFree DEF InUse
<1>5. ASSUME NEW g \in Gens, g \notin S
      PROVE  new[g] = gens[g] /\ (g \in InUse(new) <=> g \in InUse(gens))
  BY <1>1, <1>5 DEF InUse
<1>6. GensCalm(new)
  BY <1>4, <1>5 DEF GensCalm
<1>7. Recorded(new, records, complete', recounted')
  <2>1. ASSUME NEW g \in Gens PROVE JobsOf(new[g]) = {} \/ new[g] = gens[g]
    BY <1>1, NoJobs
  <2> QED
    BY <1>1, <2>1, RecordedStays
<1> QED
  BY <1>1, <1>2, <1>3, <1>6, <1>7 DEF Grows, new

\* What was asked for is still sound when the generations grow.
LEMMA GrownIsSound ==
  ASSUME IndexInv, NEW new, Grows(new)
  PROVE  Asked(calls, new, Won') /\ Full(shown, new, Won')
<1>1. Onward(gens, new, Won, Won')
  BY DEF Grows
<1>2. Asked(calls, new, Won')
  BY <1>1, StaysAsked DEF IndexInv, Types
<1>3. Full(shown, new, Won')
  BY <1>1, StaysFull DEF IndexInv, Types, PageTypes
<1> QED
  BY <1>2, <1>3

\* An answer to a call that was not storing
LEMMA AnswersCalmly ==
  ASSUME NEW gs, NEW won, calls \in [Calls -> CallRecord], Asked(calls, gs, won),
         NEW c \in Calls, calls[c].pc # "storing", NEW more \in BOOLEAN, Answers(c, more)
  PROVE  calls' \in [Calls -> CallRecord] /\ Asked(calls', gs, won) /\ Calm(calls, calls')
<1>1. /\ calls' \in [Calls -> CallRecord] /\ Asked(calls', gs, won)
      /\ calls'[c].pc \notin Batching /\ Bare(calls'[c]) /\ calls'[c].scanned = {}
      /\ \A d \in Calls : d # c => calls'[d] = calls[d]
  BY AnswersCalls
<1>2. Calm(calls, calls')
  BY <1>1 DEF Calm, Keeps, Drops, SameJobs
<1> QED
  BY <1>1, <1>2

\* Of a batch whose records are all gone nothing is stored.
LEMMA FoundNoneMoves ==
  ASSUME IndexInv, NEW c \in Calls, FoundNone(c)
  PROVE  PageMoves
<1>1. calls[c].pc = "embedding" /\ Answers(c, TRUE) /\ UNCHANGED <<page, gens, locks, records, past>>
  BY DEF FoundNone
<1>2. calls' \in [Calls -> CallRecord] /\ Asked(calls', gens, Won) /\ Calm(calls, calls')
  BY <1>1, AnswersCalmly DEF IndexInv, Types
<1>3. PageTypes' /\ Full(shown', gens, Won)
  BY <1>1 DEF page, PageTypes, IndexInv, Types
<1> QED
  BY <1>1, <1>2, <1>3 DEF PageMoves

\* The records are read.
LEMMA ScanMoves ==
  ASSUME IndexInv, NEW c \in Calls, Scan(c)
  PROVE  PageMoves
<1> DEFINE r == [calls[c] EXCEPT !.pc = "enqueuing", !.scanned = There]
<1>1. calls[c].pc = "scanning" /\ UNCHANGED <<page, gens, locks, records, past>>
  BY DEF Scan
<1>2. calls[c] \in CallRecord /\ Sound(calls[c], gens, Won)
  BY DEF IndexInv, Types, Asked
<1>3. calls' = [calls EXCEPT ![c] = r]
  BY DEF Scan, IndexInv, Types
<1>4. There \in SUBSET Items
  BY DEF There
<1>5. /\ r \in CallRecord /\ r.pc = "enqueuing" /\ r.kind = calls[c].kind /\ r.gen = calls[c].gen
      /\ r.todo = calls[c].todo /\ r.found = calls[c].found /\ r.gone = calls[c].gone
      /\ r.scanned = There /\ r.seen = calls[c].seen /\ r.current = calls[c].current
      /\ r.page = calls[c].page
  BY <1>2, <1>4 DEF CallRecord, Places, ServerSide
<1> HIDE DEF r
<1>6. Sound(r, gens, Won) /\ Drops(calls[c], r)
  BY <1>1, <1>2, <1>5 DEF Sound, Drops, Batching, Bare
<1>7. calls' \in [Calls -> CallRecord] /\ Asked(calls', gens, Won) /\ Calm(calls, calls')
  BY <1>3, <1>5, <1>6, OneChanges DEF IndexInv, Types
<1>8. PageTypes' /\ Full(shown', gens, Won)
  BY <1>1 DEF page, PageTypes, IndexInv, Types
<1> QED
  BY <1>1, <1>7, <1>8 DEF PageMoves

LEMMA DeleteMoves ==
  ASSUME IndexInv, NEW g \in Gens, DeleteGeneration(g)
  PROVE  CalmMoves
<1>1. gens' = Deleted(gens, {g}) /\ UNCHANGED <<page, calls, locks, records, past>>
  BY DEF DeleteGeneration
<1>2. Longer
  BY <1>1, PastStays
<1>3. Grows(gens') /\ GensCalm(gens') /\ Recorded(gens', records, complete', recounted')
  BY <1>1, <1>2, DeletionGrows DEF DeleteGeneration
<1>4. Asked(calls, gens', Won') /\ Full(shown, gens', Won')
  BY <1>3, GrownIsSound
<1>5. Calm(calls, calls)
  BY DEF Calm, Keeps, SameJobs
<1> QED
  BY <1>1, <1>3, <1>4, <1>5 DEF CalmMoves, page, PageTypes, IndexInv, Types

LEMMA CleanUpMoves ==
  ASSUME IndexInv, NEW c \in Calls, CleanUp(c)
  PROVE  CalmMoves
<1>1. /\ gens' = Deleted(gens, Abandoned(calls[c].model)) /\ Unlocked(Abandoned(calls[c].model))
      /\ calls[c].kind = "start" /\ calls[c].pc = "sent"
      /\ calls' = [calls EXCEPT ![c].pc = "looking"] /\ UNCHANGED <<page, locks, records, past>>
  BY DEF CleanUp
<1>2. Abandoned(calls[c].model) \in SUBSET Gens /\ Abandoned(calls[c].model) \subseteq Present
  BY DEF Abandoned, Present
<1>3. Grows(gens') /\ GensCalm(gens') /\ Recorded(gens', records, complete', recounted')
  BY <1>1, <1>2, PastStays, DeletionGrows
<1>4. Asked(calls, gens', Won') /\ Full(shown, gens', Won')
  BY <1>3, GrownIsSound
<1>5. calls[c] \in CallRecord /\ calls[c].gen \in Gens \union {0}
  BY DEF IndexInv, Types, CallRecord
<1>6. [calls[c] EXCEPT !.pc = "looking"] = [calls[c] EXCEPT !.pc = "looking", !.gen = calls[c].gen]
  BY <1>5 DEF CallRecord
<1>7. calls' \in [Calls -> CallRecord] /\ Asked(calls', gens', Won') /\ Calm(calls, calls')
  <2>1. calls' = [calls EXCEPT ![c] = [calls[c] EXCEPT !.pc = "looking", !.gen = calls[c].gen]]
    BY <1>1, <1>6
  <2>2. calls \in [Calls -> CallRecord]
    BY DEF IndexInv, Types
  <2> QED
    BY <1>1, <1>4, <1>5, <2>1, <2>2, StartGoesOn
<1> QED
  BY <1>1, <1>3, <1>4, <1>7 DEF CalmMoves, page, PageTypes, IndexInv, Types

\* The generation that is activated was earned, or is not there.
LEMMA ActivateMoves ==
  ASSUME IndexInv, NEW c \in Calls, Activate(c)
  PROVE  CalmMoves
<1> DEFINE g == calls[c].gen
           rest == Deleted(gens, Present \ {g})
<1>1. /\ gens' = IF g \in Present THEN [rest EXCEPT ![g].status = "ACTIVE"] ELSE rest
      /\ Unlocked(Present) /\ Answers(c, FALSE) /\ UNCHANGED <<page, locks, records, past>>
      /\ calls[c].kind = "activate" /\ calls[c].pc = "sent"
  BY DEF Activate
<1>2. g \in Gens /\ gens[g].status # "none" /\ Earned(g, gens, Won)
  <2>1. calls[c] \in CallRecord /\ Sound(calls[c], gens, Won)
    BY DEF IndexInv, Types, Asked
  <2> QED
    BY <1>1, <2>1 DEF Sound, CallRecord
<1>3. Longer
  BY <1>1, PastStays
<1>4. Grows(rest) /\ GensCalm(rest) /\ Recorded(rest, records, complete', recounted')
  <2>1. Present \ {g} \in SUBSET Gens /\ Unlocked(Present \ {g})
    BY <1>1 DEF Present, Unlocked
  <2> QED
    BY <1>3, <2>1, DeletionGrows
<1>5. rest[g] = gens[g]
  <2>1. gens \in [Gens -> Generation] /\ g \notin Present \ {g}
    BY DEF IndexInv, Types
  <2> QED
    BY <1>2, <2>1 DEF Deleted
<1> HIDE DEF rest, g
<1>6. Grows(gens') /\ GensCalm(gens') /\ Recorded(gens', records, complete', recounted')
  <2>1. CASE g \notin Present
    BY <1>1, <1>4, <2>1
  <2>2. CASE g \in Present
    <3>1. gens' = [rest EXCEPT ![g] = [rest[g] EXCEPT !.status = "ACTIVE"]]
      BY <1>1, <2>2
    <3>2. rest \in [Gens -> Generation] /\ rest[g] \in Generation
      BY <1>2, <1>4 DEF Grows
    <3> DEFINE b == [rest[g] EXCEPT !.status = "ACTIVE"]
    <3>3. /\ b \in Generation /\ b.status = "ACTIVE" /\ b.done = gens[g].done
          /\ b.jobs = gens[g].jobs /\ b.outlived = gens[g].outlived /\ b.total = gens[g].total
      BY <3>2, <1>5 DEF Generation
    <3> HIDE DEF b
    <3>4. gens' \in [Gens -> Generation] /\ gens'[g] = b /\ \A h \in Gens : h # g => gens'[h] = rest[h]
      BY <1>2, <3>1, <3>2, <3>3 DEF b
    <3>5. Onward(gens, gens', Won, Won')
      BY <1>4, <3>3, <3>4 DEF Grows, Onward
    <3>6. Promotes(gens')
      BY <1>2, <1>4, <3>4 DEF Grows, Promotes
    <3>7. g \in InUse(gens') /\ g \in InUse(gens)
      BY <1>2, <2>2, <3>3, <3>4 DEF InUse, Present
    <3>8. ASSUME NEW h \in Gens, h # g
          PROVE  gens'[h] = rest[h] /\ (h \in InUse(gens') <=> h \in InUse(rest))
      BY <3>4, <3>8 DEF InUse
    <3>9. GensCalm(gens')
      BY <1>4, <3>3, <3>4, <3>7, <3>8 DEF GensCalm, Earned
    <3>10. ASSUME NEW h \in Gens
           PROVE  /\ JobsOf(gens'[h]) = JobsOf(rest[h]) /\ (IsComplete(gens'[h]) <=> IsComplete(rest[h]))
                  /\ gens'[h].outlived = rest[h].outlived /\ gens'[h].total = rest[h].total
      <4>1. /\ gens'[h].jobs = rest[h].jobs /\ gens'[h].outlived = rest[h].outlived
            /\ gens'[h].total = rest[h].total
        BY <1>5, <3>3, <3>4
      <4> QED
        BY <4>1 DEF IsComplete, CompletedIn, JobsOf
    <3>11. Recorded(gens', records, complete', recounted')
      BY <1>4, <3>10 DEF Recorded
    <3> QED
      BY <3>4, <3>5, <3>6, <3>9, <3>11 DEF Grows
  <2> QED
    BY <2>1, <2>2
<1>7. Asked(calls, gens', Won') /\ Full(shown, gens', Won')
  BY <1>6, GrownIsSound
<1>8. calls' \in [Calls -> CallRecord] /\ Asked(calls', gens', Won') /\ Calm(calls, calls')
  BY <1>1, <1>7, AnswersCalmly DEF IndexInv, Types
<1> QED
  BY <1>1, <1>6, <1>7, <1>8 DEF CalmMoves, page, PageTypes, IndexInv, Types

\* A call that fails on the server's side leaves the generations alone.
LEMMA FailureMoves ==
  ASSUME IndexInv, NEW c \in Calls, calls[c].pc # "storing", FailsAs(c, Idle),
         UNCHANGED <<here, signedIn, chosen, shown, size, gens, locks, records, past>>
  PROVE  CalmMoves
<1>1. auto' \in BOOLEAN /\ calls' \in [Calls -> CallRecord] /\ Asked(calls', gens, Won) /\ Calm(calls, calls')
  BY FailsOver DEF IndexInv, Types
<1>2. PageMoves
  BY <1>1 DEF PageMoves, PageTypes, IndexInv, Types
<1> QED
  BY <1>2, PageIsCalm

LEMMA InsertMoves ==
  ASSUME IndexInv, NEW c \in Calls, Insert(c)
  PROVE  CalmMoves
<1>1. calls[c].pc = "inserting" /\ UNCHANGED <<here, signedIn, chosen, shown, size, locks, records, past>>
  BY DEF Insert
<1>2. CASE Unused = {}
  <2>1. FailsAs(c, Idle) /\ UNCHANGED gens
    BY <1>2 DEF Insert
  <2> QED
    BY <1>1, <2>1, FailureMoves
<1>3. CASE Unused # {}
  <2> DEFINE g == Least(Unused)
             b == [NoGen EXCEPT !.status = "BUILDING", !.model = calls[c].model]
  <2>1. gens' = [gens EXCEPT ![g] = b] /\ UNCHANGED auto
        /\ calls' = [calls EXCEPT ![c].pc = "scanning", ![c].gen = g]
    BY <1>3 DEF Insert
  <2>2. Unused \in SUBSET Nat
    BY Settings DEF Unused
  <2>3. g \in Gens /\ gens[g].status = "none"
    BY <1>3, <2>2, LeastIsMember DEF Unused
  <2> HIDE DEF g
  <2>4. calls[c] \in CallRecord /\ calls[c].kind = "start" /\ calls[c].model \in Models
    BY <1>1 DEF IndexInv, Types, Asked, Sound, CallRecord
  <2>5. b \in Generation /\ b.status = "BUILDING" /\ b.done = 0 /\ b.jobs = NoGen.jobs
    BY <2>4, Blank DEF Generation
  <2> HIDE DEF b
  <2>6. gens' \in [Gens -> Generation] /\ gens'[g] = b /\ \A h \in Gens : h # g => gens'[h] = gens[h]
    BY <2>1, <2>3, <2>5 DEF IndexInv, Types
  <2>7. Won' = Won /\ Longer
    BY <1>1, PastStays
  <2>8. Grows(gens')
    BY <2>3, <2>5, <2>6, <2>7 DEF Grows, Onward, Promotes
  <2>9. ASSUME NEW h \in Gens, h # g
        PROVE  gens'[h] = gens[h] /\ (h \in InUse(gens') <=> h \in InUse(gens))
    BY <2>6, <2>9 DEF InUse
  <2>10. GensCalm(gens')
    BY <2>3, <2>5, <2>6, <2>9 DEF GensCalm
  <2>11. JobsOf(b) = {}
    BY <2>5, Blank, NoJobs
  <2>12. Recorded(gens', records, complete', recounted')
    BY <2>6, <2>7, <2>11, RecordedStays
  <2>13. Asked(calls, gens', Won') /\ Full(shown, gens', Won')
    BY <2>8, GrownIsSound
  <2>14. calls' = [calls EXCEPT ![c] = [calls[c] EXCEPT !.pc = "scanning", !.gen = g]]
    BY <2>1 DEF IndexInv, Types
  <2>15. calls' \in [Calls -> CallRecord] /\ Asked(calls', gens', Won') /\ Calm(calls, calls')
    <3>1. calls \in [Calls -> CallRecord] /\ g \in Gens \union {0}
      BY <2>3 DEF IndexInv, Types
    <3> QED
      BY <1>1, <2>4, <2>13, <2>14, <3>1, StartGoesOn
  <2> QED
    BY <1>1, <2>1, <2>8, <2>10, <2>12, <2>13, <2>15 DEF CalmMoves, PageTypes, IndexInv, Types
<1> QED
  BY <1>2, <1>3

\* Where as many jobs are completed as the total says, and it says no less than
\* there are jobs, all are completed.
LEMMA AllCompleted ==
  ASSUME NEW b \in Generation, b.total > 0, b.total <= Cardinality(CompletedIn(b)),
         Cardinality(JobsOf(b)) <= b.total
  PROVE  IsComplete(b)
<1>1. JobsOf(b) \in SUBSET Items /\ CompletedIn(b) \subseteq JobsOf(b)
  BY DEF JobsOf, CompletedIn
<1>2. IsFiniteSet(Items)
  BY ConstantsAssumption
<1>3. IsFiniteSet(JobsOf(b))
  BY <1>1, <1>2, FS_Subset
<1>4. /\ Cardinality(CompletedIn(b)) <= Cardinality(JobsOf(b))
      /\ Cardinality(CompletedIn(b)) = Cardinality(JobsOf(b)) => CompletedIn(b) = JobsOf(b)
  BY <1>1, <1>3, FS_Subset
<1>5. CompletedIn(b) \in SUBSET Items
  BY <1>1
<1>6. Cardinality(CompletedIn(b)) \in Nat /\ Cardinality(JobsOf(b)) \in Nat /\ b.total \in Nat
  <2>1. b.total \in 0..Cardinality(Items)
    BY DEF Generation
  <2>2. /\ Cardinality(CompletedIn(b)) \in 0..Cardinality(Items)
        /\ Cardinality(JobsOf(b)) \in 0..Cardinality(Items)
    BY <1>1, <1>5, Sized
  <2> QED
    BY <2>1, <2>2, Settings
<1>7. CompletedIn(b) = JobsOf(b) /\ Cardinality(JobsOf(b)) # 0
  BY <1>4, <1>6
<1>8. JobsOf(b) # {}
  BY <1>7, FS_EmptySet
<1> QED
  BY <1>7, <1>8 DEF IsComplete

\* The jobs of a scan that found the records found are added, and counted.
LEMMA EnqueuedJobs ==
  ASSUME NEW jobs \in [Items -> Job], NEW found \in SUBSET Items
  PROVE  LET new == Enqueued(jobs, found)
         IN  /\ new \in [Items -> Job]
             /\ \A i \in Items : jobs[i].state # "none" => new[i] = jobs[i]
             /\ \A i \in Items : jobs[i].state = "none" =>
                                   new[i].state = IF i \in found THEN "pending" ELSE "none"
<1>1. ASSUME NEW i \in Items
      PROVE  /\ [jobs[i] EXCEPT !.state = "pending"] \in Job /\ jobs[i] \in Job
             /\ [jobs[i] EXCEPT !.state = "pending"].state = "pending"
  <2>1. jobs[i] \in Job
    OBVIOUS
  <2> QED
    BY <2>1 DEF Job
<1> QED
  BY <1>1 DEF Enqueued

LEMMA EnqueueMoves ==
  ASSUME IndexInv, NEW c \in Calls, Enqueue(c)
  PROVE  CalmMoves
<1> DEFINE g == calls[c].gen
           found == calls[c].scanned
<1>1. calls[c].pc = "enqueuing"
      /\ UNCHANGED <<here, signedIn, chosen, shown, size, locks, records, complete>>
  BY DEF Enqueue
<1>2. CASE g \notin Present
  <2>1. UNCHANGED <<gens, built, recounted>>
        /\ IF found = {} THEN Answers(c, FALSE) /\ UNCHANGED auto ELSE FailsAs(c, Idle)
    BY <1>2 DEF Enqueue
  <2>2. past' = past
    BY <1>1, <2>1 DEF past
  <2>3. CASE FailsAs(c, Idle)
    BY <1>1, <2>1, <2>2, <2>3, FailureMoves
  <2>4. CASE Answers(c, FALSE) /\ UNCHANGED auto
    <3>1. calls' \in [Calls -> CallRecord] /\ Asked(calls', gens, Won) /\ Calm(calls, calls')
      BY <1>1, <2>4, AnswersCalmly DEF IndexInv, Types
    <3>2. PageMoves
      BY <1>1, <2>1, <2>2, <2>4, <3>1 DEF PageMoves, PageTypes, IndexInv, Types
    <3> QED
      BY <3>2, PageIsCalm
  <2> QED
    BY <2>1, <2>3, <2>4
<1>3. CASE g \in Present
  <2> DEFINE js == Enqueued(gens[g].jobs, found)
             b == [gens[g] EXCEPT !.jobs = js, !.total = Cardinality(found)]
  <2>1. g \in Gens /\ gens \in [Gens -> Generation] /\ gens[g] \in Generation
    BY <1>3 DEF Present, IndexInv, Types
  <2>2. /\ gens' = [gens EXCEPT ![g] = b] /\ Answers(c, FALSE) /\ UNCHANGED auto
        /\ built' = IF IsBuilt(gens'[g]) THEN built \union {g} ELSE built
        /\ recounted' = IF found # JobsOf(gens'[g]) THEN recounted \union {g} ELSE recounted
    <3>1. gens' = [gens EXCEPT ![g].jobs = js, ![g].total = Cardinality(found)]
      BY <1>3 DEF Enqueue
    <3> HIDE DEF js, g
    <3>2. gens' = [gens EXCEPT ![g] = b]
      BY <2>1, <3>1
    <3> QED
      BY <1>3, <3>2 DEF Enqueue, g
  <2>3. found \in SUBSET Items /\ found \subseteq Begun(records)
    BY DEF IndexInv, Types, CallRecord, Known
  <2>4. /\ js \in [Items -> Job]
        /\ \A i \in Items : gens[g].jobs[i].state # "none" => js[i] = gens[g].jobs[i]
        /\ \A i \in Items : gens[g].jobs[i].state = "none" =>
                              js[i].state = IF i \in found THEN "pending" ELSE "none"
    <3>1. gens[g].jobs \in [Items -> Job]
      BY <2>1 DEF Generation
    <3> QED
      BY <2>3, <3>1, EnqueuedJobs
  <2>5. Cardinality(found) \in 0..Cardinality(Items)
    BY <2>3, Sized
  <2> HIDE DEF js
  <2>6. /\ b \in Generation /\ b.status = gens[g].status /\ b.done = gens[g].done
        /\ b.outlived = gens[g].outlived /\ b.jobs = js /\ b.total = Cardinality(found)
    BY <2>1, <2>4, <2>5 DEF Generation
  <2> HIDE DEF b, g, found
  <2>7. gens' \in [Gens -> Generation] /\ gens'[g] = b /\ \A h \in Gens : h # g => gens'[h] = gens[h]
    BY <2>1, <2>2, <2>6
  <2>8. Longer
    BY <1>1, <2>2 DEF Longer
  <2>9. Grows(gens')
    <3>1. Onward(gens, gens', Won, Won')
      BY <2>6, <2>7, <2>8, WonStays DEF Onward
    <3> QED
      BY <2>6, <2>7, <3>1 DEF Grows, Promotes
  <2>10. /\ JobsOf(b) = JobsOf(gens[g]) \union found /\ CompletedIn(b) = Completed(gens, g)
         /\ CompletedIn(b) = CompletedIn(gens[g])
    BY <2>3, <2>4, <2>6 DEF JobsOf, CompletedIn, Completed
\* Unless records are missing, a generation whose jobs are all completed was so before.
  <2>11. IsComplete(b) => IsComplete(gens[g])
    <3>1. CompletedIn(gens[g]) \subseteq JobsOf(gens[g])
      BY DEF CompletedIn, JobsOf
    <3> QED
      BY <2>10, <3>1 DEF IsComplete
  <2>12. IsComplete(b) => g \in complete
    BY <2>1, <2>11 DEF IndexInv, Recorded
  <2>13. gens'[g].total > 0 /\ gens'[g].done >= gens'[g].total => Earned(g, gens', Won')
    <3> SUFFICES ASSUME b.total > 0, b.done >= b.total, ~b.outlived
                 PROVE  g \in Won'
      BY <2>7 DEF Earned
    <3>1. b.done <= Cardinality(CompletedIn(b))
      BY <2>1, <2>6, <2>10 DEF IndexInv, Progress
    <3>2. b.total \in Nat /\ b.done \in Nat /\ Cardinality(CompletedIn(b)) \in Nat
      <4>1. b.total \in 0..Cardinality(Items) /\ b.done \in 0..Cardinality(Items)
        BY <2>6 DEF Generation
      <4>2. CompletedIn(b) \in SUBSET Items
        BY DEF CompletedIn
      <4>3. Cardinality(CompletedIn(b)) \in 0..Cardinality(Items)
        BY <4>2, Sized
      <4> QED
        BY <4>1, <4>3, Settings
    <3>3. b.total <= Cardinality(CompletedIn(b))
      BY <3>1, <3>2
    <3>4. g \in built'
      BY <2>2, <2>7, <3>2, <3>3 DEF IsBuilt
    <3>5. CASE found # JobsOf(b)
      BY <2>2, <2>7, <3>4, <3>5 DEF Won
    <3>6. CASE found = JobsOf(b)
      <4>1. Cardinality(JobsOf(b)) <= b.total
        BY <2>6, <3>2, <3>6
      <4>2. IsComplete(b)
        BY <2>6, <3>3, <4>1, AllCompleted
      <4> QED
        BY <1>1, <2>12, <3>4, <4>2 DEF Won
    <3> QED
      BY <3>5, <3>6
  <2>14. ASSUME NEW h \in Gens
         PROVE  (h \in InUse(gens') <=> h \in InUse(gens)) /\ gens'[h].done = gens[h].done
    BY <2>6, <2>7 DEF InUse
  <2>15. ASSUME NEW h \in Gens, NEW i \in Items, gens[h].jobs[i].state # "none"
         PROVE  gens'[h].jobs[i].state = gens[h].jobs[i].state
    BY <2>4, <2>6, <2>7, <2>15
  <2>16. ASSUME NEW h \in Gens
         PROVE  \/ gens'[h].total = gens[h].total
                \/ gens'[h].total > 0 /\ gens'[h].done >= gens'[h].total => Earned(h, gens', Won')
    BY <2>7, <2>13
  <2>17. GensCalm(gens')
    BY <2>14, <2>15, <2>16 DEF GensCalm
  <2>18. Recorded(gens', records, complete', recounted')
    <3> SUFFICES ASSUME NEW h \in Gens
                 PROVE  /\ JobsOf(gens'[h]) \subseteq Begun(records)
                        /\ IsComplete(gens'[h]) => h \in complete'
                        /\ \/ h \in recounted' \/ gens'[h].outlived
                           \/ Cardinality(JobsOf(gens'[h])) <= gens'[h].total
      BY DEF Recorded
    <3>1. CASE h # g
      BY <1>1, <2>7, <2>8, <3>1 DEF IndexInv, Recorded, Longer
    <3>2. CASE h = g
      <4>1. JobsOf(b) \subseteq Begun(records)
        BY <2>1, <2>3, <2>10 DEF IndexInv, Recorded
      <4>2. found = JobsOf(b) => Cardinality(JobsOf(b)) <= b.total
        <5>1. Cardinality(found) \in Nat
          BY <2>5, Settings
        <5> QED
          BY <2>6, <5>1
      <4>3. found # JobsOf(b) => g \in recounted'
        BY <2>2, <2>7
      <4> QED
        BY <1>1, <2>7, <2>12, <3>2, <4>1, <4>2, <4>3
    <3> QED
      BY <3>1, <3>2
  <2>19. Asked(calls, gens', Won') /\ Full(shown, gens', Won')
    BY <2>9, GrownIsSound
  <2>20. calls' \in [Calls -> CallRecord] /\ Asked(calls', gens', Won') /\ Calm(calls, calls')
    BY <1>1, <2>2, <2>19, AnswersCalmly DEF IndexInv, Types
  <2> QED
    BY <1>1, <2>2, <2>9, <2>17, <2>18, <2>19, <2>20 DEF CalmMoves, PageTypes, IndexInv, Types
<1> QED
  BY <1>2, <1>3

LEMMA PruneMoves ==
  ASSUME IndexInv, Prune
  PROVE  CalmMoves
<1> DEFINE stale == {g \in Present : gens[g].status # "ACTIVE"}
           rest == Deleted(gens, stale)
           held(g) == UNION {JobsHeld(calls[c]) : c \in {d \in Calls : calls[d].gen = g}}
           failed == {w \in Gens \X Items : /\ rest[w[1]].jobs[w[2]].state = "failed"
                                            /\ w[2] \notin held(w[1])}
           J(old) == [g \in Gens |-> [i \in Items |-> IF <<g, i>> \in old THEN NoJob ELSE rest[g].jobs[i]]]
<1>1. PICK old \in SUBSET failed :
        gens' = [g \in Gens |-> [rest[g] EXCEPT !.jobs =
                  [i \in Items |-> IF <<g, i>> \in old THEN NoJob ELSE rest[g].jobs[i]]]]
  BY DEF Prune
<1>2. /\ Unlocked(stale) /\ UNCHANGED <<page, calls, locks, records, built, recounted>>
      /\ complete' = complete \union {g \in Gens : IsComplete(gens'[g])}
  BY DEF Prune
<1>3. Longer
  BY <1>2 DEF Longer
<1>4. Grows(rest) /\ GensCalm(rest) /\ Recorded(rest, records, complete', recounted')
  <2>1. stale \in SUBSET Gens /\ stale \subseteq Present
    BY DEF Present
  <2> HIDE DEF stale
  <2> QED
    BY <1>2, <1>3, <2>1, DeletionGrows
<1> HIDE DEF rest
<1>5. rest \in [Gens -> Generation]
  BY <1>4 DEF Grows
<1> DEFINE js == J(old)
<1>6. js \in [Gens -> [Items -> Job]]
  <2>1. ASSUME NEW g \in Gens, NEW i \in Items PROVE rest[g].jobs[i] \in Job
    BY <1>5 DEF Generation
  <2> QED
    BY <2>1, Blank
<1>7. gens' = [g \in Gens |-> [rest[g] EXCEPT !.jobs = js[g]]]
  BY <1>1
<1>8. ASSUME NEW g \in Gens, NEW i \in Items, rest[g].jobs[i].state # "failed" \/ Held(g, i)
      PROVE  js[g][i] = rest[g].jobs[i]
  <2>1. Held(g, i) => i \in held(g)
    BY DEF Held
  <2>2. <<g, i>> \notin failed
    BY <1>8, <2>1
  <2> QED
    BY <2>2
<1>9. ASSUME NEW g \in Gens, NEW i \in Items
      PROVE  js[g][i] = rest[g].jobs[i] \/ js[g][i].state = "none"
  BY Blank
<1> HIDE DEF js
<1>10. /\ gens' \in [Gens -> Generation]
       /\ \A g \in Gens : /\ gens'[g].status = rest[g].status /\ gens'[g].done = rest[g].done
                          /\ gens'[g].outlived = rest[g].outlived /\ gens'[g].jobs = js[g]
                          /\ gens'[g].total = rest[g].total
  <2>1. ASSUME NEW g \in Gens
        PROVE  /\ gens'[g] \in Generation
               /\ gens'[g].status = rest[g].status /\ gens'[g].done = rest[g].done
               /\ gens'[g].outlived = rest[g].outlived /\ gens'[g].jobs = js[g]
               /\ gens'[g].total = rest[g].total
    <3>1. rest[g] \in Generation /\ js[g] \in [Items -> Job]
      BY <1>5, <1>6
    <3>2. gens'[g] = [rest[g] EXCEPT !.jobs = js[g]]
      BY <1>7
    <3> QED
      BY <3>1, <3>2 DEF Generation
  <2>2. gens' \in [Gens -> Generation]
    BY <1>7, <2>1
  <2> QED
    BY <2>1, <2>2
<1>11. Grows(gens')
  BY <1>4, <1>10 DEF Grows, Onward, Promotes
<1>12. ASSUME NEW g \in Gens PROVE g \in InUse(gens') <=> g \in InUse(rest)
  BY <1>10 DEF InUse
<1>13. ASSUME NEW g \in Gens, NEW i \in Items,
              rest[g].jobs[i].state \in {"processing", "completed"} \/ Held(g, i)
       PROVE  gens'[g].jobs[i].state = rest[g].jobs[i].state
  BY <1>8, <1>10, <1>13
<1>14. GensCalm(gens')
  <2> SUFFICES ASSUME NEW g \in Gens, ~(/\ g \notin InUse(gens') /\ gens'[g].done = 0
                                        /\ \A c \in Calls : calls[c].pc = "storing" => calls[c].gen # g),
                      ~(gens[g].status = "none" /\ gens'[g].done = 0)
               PROVE  /\ gens'[g].done = gens[g].done
                      /\ \/ gens'[g].total = gens[g].total
                         \/ gens'[g].total > 0 /\ gens'[g].done >= gens'[g].total
                              => Earned(g, gens', Won')
                      /\ g \in InUse(gens') <=> g \in InUse(gens)
                      /\ \A i \in Items :
                           /\ gens[g].jobs[i].state \in {"processing", "completed"} =>
                                gens'[g].jobs[i].state = gens[g].jobs[i].state
                           /\ Held(g, i) /\ gens[g].jobs[i].state \notin {"none", "completed"} =>
                                gens'[g].jobs[i].state \notin {"none", "completed"}
    BY DEF GensCalm
  <2>1. /\ rest[g].done = gens[g].done
        /\ \/ rest[g].total = gens[g].total
           \/ rest[g].total > 0 /\ rest[g].done >= rest[g].total => Earned(g, rest, Won')
        /\ g \in InUse(rest) <=> g \in InUse(gens)
        /\ \A i \in Items :
             /\ gens[g].jobs[i].state \in {"processing", "completed"} =>
                  rest[g].jobs[i].state = gens[g].jobs[i].state
             /\ Held(g, i) /\ gens[g].jobs[i].state \notin {"none", "completed"} =>
                  rest[g].jobs[i].state \notin {"none", "completed"}
    BY <1>4, <1>10, <1>12 DEF GensCalm
  <2>2. Earned(g, rest, Won') => Earned(g, gens', Won')
    BY <1>10 DEF Earned
  <2>3. gens'[g].total = rest[g].total /\ gens'[g].done = rest[g].done
    BY <1>10
  <2>4. \A i \in Items :
             /\ gens[g].jobs[i].state \in {"processing", "completed"} =>
                  gens'[g].jobs[i].state = gens[g].jobs[i].state
             /\ Held(g, i) /\ gens[g].jobs[i].state \notin {"none", "completed"} =>
                  gens'[g].jobs[i].state \notin {"none", "completed"}
    BY <1>13, <2>1
  <2> QED
    BY <1>12, <2>1, <2>2, <2>3, <2>4
<1>15. Recorded(gens', records, complete', recounted')
  <2> SUFFICES ASSUME NEW g \in Gens
               PROVE  /\ JobsOf(gens'[g]) \subseteq Begun(records)
                      /\ IsComplete(gens'[g]) => g \in complete'
                      /\ \/ g \in recounted' \/ gens'[g].outlived
                         \/ Cardinality(JobsOf(gens'[g])) <= gens'[g].total
    BY DEF Recorded
  <2>1. /\ JobsOf(rest[g]) \subseteq Begun(records)
        /\ \/ g \in recounted' \/ rest[g].outlived
           \/ Cardinality(JobsOf(rest[g])) <= rest[g].total
    BY <1>4 DEF Recorded
  <2>2. JobsOf(gens'[g]) \subseteq JobsOf(rest[g])
    BY <1>9, <1>10 DEF JobsOf
  <2>3. JobsOf(gens'[g]) \in SUBSET Items /\ JobsOf(rest[g]) \in SUBSET Items
    BY DEF JobsOf
  <2>4. /\ Cardinality(JobsOf(gens'[g])) <= Cardinality(JobsOf(rest[g]))
        /\ Cardinality(JobsOf(gens'[g])) \in Nat /\ Cardinality(JobsOf(rest[g])) \in Nat
    BY <2>2, <2>3, Sized, Settings
  <2>5. rest[g].total \in Nat
    <3>1. rest[g].total \in 0..Cardinality(Items)
      BY <1>5 DEF Generation
    <3> QED
      BY <3>1, Settings
  <2> QED
    BY <1>2, <1>10, <2>1, <2>2, <2>4, <2>5
<1>16. Asked(calls, gens', Won') /\ Full(shown, gens', Won')
  BY <1>11, GrownIsSound
<1>17. Calm(calls, calls)
  BY DEF Calm, Keeps, SameJobs
<1> QED
  BY <1>2, <1>11, <1>14, <1>15, <1>16, <1>17 DEF CalmMoves, page, PageTypes, IndexInv, Types


----------------------------------------------------------------------------
(* What is held and counted stays right *)

\* A call that asked takes jobs that nobody was at.
Takes(a, b, new) ==
  /\ a.pc # "storing" /\ b.pc = "embedding" /\ b.gen = a.gen /\ a.gen \in InUse(gens)
  /\ b.found = {} /\ b.gone = {} /\ b.scanned = a.scanned
  /\ \A i \in b.todo : /\ gens[b.gen].jobs[i].state \notin {"processing", "none"}
                       /\ new[b.gen].jobs[i].state = "processing"

\* All calls but at most one, c, go on with what they have or drop it; c may take jobs.
Exchange(c, cs, new) ==
  \A d \in Calls : Keeps(calls[d], cs[d]) \/ Drops(calls[d], cs[d])
                     \/ (d = c /\ Takes(calls[c], cs[c], new))

\* Who holds a job works on a generation that was begun.
LEMMA HolderHasGeneration ==
  ASSUME IndexInv, NEW d \in Calls, JobsHeld(calls[d]) # {} \/ calls[d].pc = "storing"
  PROVE  /\ calls[d].gen \in Gens /\ gens[calls[d].gen].status # "none"
         /\ calls[d].pc \in Batching /\ JobsHeld(calls[d]) \in SUBSET Items
         /\ calls[d].found \in SUBSET Items /\ calls[d].gone \in SUBSET Items
<1>1. calls[d] \in CallRecord /\ Sound(calls[d], gens, Won)
  BY DEF IndexInv, Types, Asked
<1>2. calls[d].pc \in Batching
  BY <1>1 DEF Sound, Batching, Bare, JobsHeld
<1>3. calls[d].gen \in Gens /\ gens[calls[d].gen].status # "none"
  BY <1>1, <1>2 DEF Sound, CallRecord
<1>4. /\ calls[d].todo \in SUBSET Items /\ calls[d].found \in SUBSET Items
      /\ calls[d].gone \in SUBSET Items
  BY <1>1 DEF CallRecord
<1> QED
  BY <1>2, <1>3, <1>4 DEF JobsHeld

\* What a call has that keeps its jobs
LEMMA KeptJobs ==
  ASSUME NEW a, NEW b, Keeps(a, b)
  PROVE  /\ b.gen = a.gen /\ b.pc = a.pc /\ JobsHeld(b) = JobsHeld(a) /\ Writes(b) = Writes(a)
         /\ b.gone = a.gone /\ b.scanned = a.scanned /\ b.found = a.found
         /\ b.outcome = a.outcome /\ b.count = a.count
         /\ \A i, rs : Owns(b, i, rs) <=> Owns(a, i, rs)
BY DEF Keeps, SameJobs, JobsHeld, Writes, Owns

LEMMA DroppedJobs ==
  ASSUME NEW a, NEW b, Drops(a, b)
  PROVE  /\ JobsHeld(b) = {} /\ b.gone = {} /\ b.pc # "storing"
         /\ \A i, rs : ~Owns(b, i, rs)
BY DEF Drops, Bare, JobsHeld, Owns, Batching

LEMMA TakenJobs ==
  ASSUME NEW a, NEW b, NEW new, Takes(a, b, new)
  PROVE  /\ JobsHeld(b) = b.todo /\ b.gone = {} /\ b.pc # "storing" /\ b.gen = a.gen
         /\ \A i, rs : Owns(b, i, rs) <=> i \in b.todo /\ rs[i] # "deleted"
BY DEF Takes, JobsHeld, Owns

\* What a call owns it holds.
LEMMA OwnsHeld ==
  ASSUME NEW call, NEW rs, NEW i, Owns(call, i, rs)
  PROVE  i \in JobsHeld(call)
BY DEF Owns, JobsHeld

\* What is held and not known to be gone is owned.
LEMMA HeldIsOwned ==
  ASSUME IndexInv, NEW d \in Calls, NEW i \in Items, i \in JobsHeld(calls[d]), records[i] # "deleted"
  PROVE  Owns(calls[d], i, records)
<1>1. i \notin calls[d].gone
  BY DEF IndexInv, Holding
<1> QED
  BY <1>1 DEF Owns, JobsHeld

LEMMA HoldingStays ==
  ASSUME IndexInv, NEW new, Grows(new), GensCalm(new),
         NEW cs \in [Calls -> CallRecord], NEW c \in Calls, Exchange(c, cs, new)
  PROVE  Holding(cs, new, records)
<1>1. ASSUME NEW d \in Calls, Keeps(calls[d], cs[d]), NEW i \in Items, i \in JobsHeld(cs[d])
      PROVE  /\ cs[d].gen = calls[d].gen /\ cs[d].gen \in Gens /\ gens[cs[d].gen].status # "none"
             /\ gens[cs[d].gen].outlived => new[cs[d].gen].outlived
             /\ i \in JobsHeld(calls[d]) /\ Held(cs[d].gen, i)
             /\ Owns(cs[d], i, records) => Owns(calls[d], i, records)
  <2>1. /\ cs[d].gen = calls[d].gen /\ JobsHeld(cs[d]) = JobsHeld(calls[d])
        /\ Owns(cs[d], i, records) => Owns(calls[d], i, records)
    BY <1>1, KeptJobs
  <2>2. calls[d].gen \in Gens /\ gens[calls[d].gen].status # "none"
    BY <1>1, <2>1, HolderHasGeneration
  <2>3. gens[calls[d].gen].outlived => new[calls[d].gen].outlived
    BY <2>2 DEF Grows, Onward
  <2>4. Held(cs[d].gen, i)
    BY <1>1, <2>1 DEF Held
  <2> QED
    BY <1>1, <2>1, <2>2, <2>3, <2>4
<1>2. ASSUME NEW d \in Calls, NEW i \in Items, Keeps(calls[d], cs[d]), i \in JobsHeld(cs[d])
      PROVE  \/ cs[d].gen \notin InUse(gens)
             \/ gens[cs[d].gen].outlived
             \/ /\ Owns(cs[d], i, records) => gens[cs[d].gen].jobs[i].state = "processing"
                /\ gens[cs[d].gen].jobs[i].state \notin {"none", "completed"}
  <2>1. Working(calls[d], gens, records)
    BY DEF IndexInv, Holding
  <2> QED
    BY <1>1, <1>2, <2>1 DEF Working
<1>3. ASSUME NEW d \in Calls PROVE Working(cs[d], new, records)
  <2> SUFFICES ASSUME NEW i \in Items, i \in JobsHeld(cs[d]),
                      cs[d].gen \in InUse(new), ~new[cs[d].gen].outlived
               PROVE  /\ Owns(cs[d], i, records) => new[cs[d].gen].jobs[i].state = "processing"
                      /\ new[cs[d].gen].jobs[i].state \notin {"none", "completed"}
    BY OwnsHeld DEF Working
  <2>1. CASE Keeps(calls[d], cs[d])
    <3> DEFINE g == cs[d].gen
    <3>1. g \in Gens /\ gens[g].status # "none" /\ ~gens[g].outlived /\ Held(g, i)
      BY <1>1, <2>1
    <3>2. /\ g \in InUse(new) <=> g \in InUse(gens)
          /\ gens[g].jobs[i].state \in {"processing", "completed"} =>
               new[g].jobs[i].state = gens[g].jobs[i].state
          /\ gens[g].jobs[i].state \notin {"none", "completed"} =>
               new[g].jobs[i].state \notin {"none", "completed"}
      BY <3>1 DEF GensCalm
    <3>3. /\ Owns(cs[d], i, records) => gens[g].jobs[i].state = "processing"
          /\ gens[g].jobs[i].state \notin {"none", "completed"}
      BY <1>2, <2>1, <3>1, <3>2
    <3> HIDE DEF g
    <3> QED
      BY <3>2, <3>3 DEF g
  <2>2. CASE Drops(calls[d], cs[d])
    BY <2>2, DroppedJobs
  <2>3. CASE d = c /\ Takes(calls[c], cs[c], new)
    <3>1. i \in cs[d].todo
      BY <2>3, TakenJobs
    <3>2. new[cs[d].gen].jobs[i].state = "processing"
      BY <2>3, <3>1 DEF Takes
    <3> QED
      BY <3>2
  <2> QED
    BY <2>1, <2>2, <2>3 DEF Exchange
<1>4. Alone(cs, new, records)
  <2> SUFFICES ASSUME NEW d \in Calls, NEW e \in Calls, NEW i \in Items, d # e,
                      cs[d].gen = cs[e].gen, Owns(cs[d], i, records), i \in JobsHeld(cs[e])
               PROVE  new[cs[d].gen].outlived
    BY DEF Alone
  <2>1. i \in JobsHeld(cs[d])
    BY OwnsHeld
  <2>2. ~Drops(calls[d], cs[d]) /\ ~Drops(calls[e], cs[e])
    BY <2>1, DroppedJobs
  <2>3. CASE Keeps(calls[d], cs[d]) /\ Keeps(calls[e], cs[e])
    <3>1. /\ calls[d].gen = calls[e].gen /\ Owns(calls[d], i, records) /\ i \in JobsHeld(calls[e])
          /\ calls[d].gen = cs[d].gen
      BY <1>1, <2>1, <2>3
    <3>2. gens[calls[d].gen].outlived
      BY <3>1 DEF IndexInv, Holding, Alone
    <3> QED
      BY <1>1, <2>1, <2>3, <3>1, <3>2
  <2>4. CASE Keeps(calls[d], cs[d]) /\ e = c /\ Takes(calls[c], cs[c], new)
    <3>1. i \in cs[e].todo /\ cs[e].gen = calls[e].gen
      BY <2>4, TakenJobs
    <3>2. cs[e].gen \in InUse(gens) /\ gens[cs[e].gen].jobs[i].state # "processing"
      BY <2>4, <3>1 DEF Takes
    <3>3. gens[cs[d].gen].outlived
      BY <1>2, <2>1, <2>4, <3>2
    <3> QED
      BY <1>1, <2>1, <2>4, <3>3
  <2>5. CASE d = c /\ Takes(calls[c], cs[c], new) /\ Keeps(calls[e], cs[e])
    <3>1. i \in cs[d].todo /\ records[i] # "deleted" /\ cs[d].gen = calls[d].gen
      BY <2>5, TakenJobs
    <3>2. cs[d].gen \in InUse(gens) /\ gens[cs[d].gen].jobs[i].state # "processing"
      BY <2>5, <3>1 DEF Takes
    <3>3. i \in JobsHeld(calls[e]) /\ cs[e].gen = calls[e].gen
      BY <1>1, <2>5
    <3>4. Owns(calls[e], i, records)
      BY <3>1, <3>3, HeldIsOwned
    <3>5. Working(calls[e], gens, records)
      BY DEF IndexInv, Holding
    <3>6. gens[cs[d].gen].outlived
      BY <3>2, <3>3, <3>4, <3>5 DEF Working
    <3> QED
      BY <1>1, <2>5, <3>6
  <2> QED
    BY <2>2, <2>3, <2>4, <2>5 DEF Exchange
<1>5. ASSUME NEW d \in Calls, NEW i \in Items, i \in cs[d].gone PROVE records[i] = "deleted"
  <2>1. Keeps(calls[d], cs[d])
    BY <1>5, DroppedJobs, TakenJobs DEF Exchange
  <2>2. i \in calls[d].gone
    BY <1>5, <2>1, KeptJobs
  <2> QED
    BY <2>2 DEF IndexInv, Holding
<1> QED
  BY <1>3, <1>4, <1>5 DEF Holding

LEMMA KnownStays ==
  ASSUME IndexInv, NEW new, NEW cs \in [Calls -> CallRecord], NEW c \in Calls, Exchange(c, cs, new)
  PROVE  Known(cs, records)
<1> SUFFICES ASSUME NEW d \in Calls
             PROVE  JobsHeld(cs[d]) \subseteq Begun(records) /\ cs[d].scanned \subseteq Begun(records)
  BY DEF Known
<1>1. JobsHeld(calls[d]) \subseteq Begun(records) /\ calls[d].scanned \subseteq Begun(records)
  BY DEF IndexInv, Known
<1>2. CASE Keeps(calls[d], cs[d])
  BY <1>1, <1>2, KeptJobs
<1>3. CASE Drops(calls[d], cs[d])
  <2>1. There \subseteq Begun(records)
    BY DEF There, Begun
  <2>2. cs[d].scanned \subseteq calls[d].scanned \union There
    BY <1>3 DEF Drops
  <2>3. JobsHeld(cs[d]) = {}
    BY <1>3, DroppedJobs
  <2> QED
    BY <1>1, <2>1, <2>2, <2>3
<1>4. CASE d = c /\ Takes(calls[c], cs[c], new)
  <2>1. JobsHeld(cs[d]) = cs[d].todo /\ cs[d].scanned = calls[d].scanned
    BY <1>4, TakenJobs DEF Takes
  <2>2. cs[d].todo \in SUBSET Items /\ cs[d].gen \in Gens
    BY <1>4 DEF CallRecord, Takes, InUse
  <2>3. cs[d].todo \subseteq JobsOf(gens[cs[d].gen])
    BY <1>4, <2>2 DEF Takes, JobsOf
  <2>4. JobsOf(gens[cs[d].gen]) \subseteq Begun(records)
    BY <2>2 DEF IndexInv, Recorded
  <2> QED
    BY <1>1, <2>1, <2>3, <2>4
<1> QED
  BY <1>2, <1>3, <1>4 DEF Exchange

\* What is counted stays right as long as nothing completed is undone.
LEMMA AfterGrows ==
  ASSUME NEW call \in CallRecord, NEW gs, NEW new,
         \A i \in Items : gs[call.gen].jobs[i].state = "completed" =>
                            new[call.gen].jobs[i].state = "completed",
         call.count <= Cardinality(After(call, gs))
  PROVE  call.count <= Cardinality(After(call, new))
<1> DEFINE A == After(call, gs)
           B == After(call, new)
<1>1. call.found \in SUBSET Items
  BY DEF CallRecord
<1>2. A \in SUBSET Items /\ B \in SUBSET Items /\ A \subseteq B
  BY <1>1 DEF After, Completed
<1> HIDE DEF A, B
<1>3. Cardinality(A) <= Cardinality(B) /\ Cardinality(A) \in Nat /\ Cardinality(B) \in Nat
  BY <1>2, Sized, Settings
<1>4. call.count \in Nat
  <2>1. call.count \in 0..Cardinality(Items)
    BY DEF CallRecord
  <2> QED
    BY <2>1, Settings
<1> QED
  BY <1>3, <1>4 DEF A, B

LEMMA SameAfter ==
  ASSUME NEW a, NEW b, Keeps(a, b), NEW gs
  PROVE  After(b, gs) = After(a, gs)
<1>1. Writes(b) = Writes(a) /\ b.gen = a.gen /\ b.outcome = a.outcome /\ b.found = a.found
  BY KeptJobs
<1> QED
  BY <1>1 DEF After

LEMMA CountedStays ==
  ASSUME IndexInv, NEW new, Grows(new), GensCalm(new),
         NEW cs \in [Calls -> CallRecord], NEW c \in Calls, Exchange(c, cs, new)
  PROVE  Counted(cs, new)
<1> SUFFICES ASSUME NEW d \in Calls, cs[d].pc = "storing"
             PROVE  /\ cs[d].gen \in InUse(new)
                    /\ new[cs[d].gen].outlived \/ cs[d].count <= Cardinality(After(cs[d], new))
  BY DEF Counted
<1> DEFINE g == calls[d].gen
<1>1. Keeps(calls[d], cs[d])
  BY DroppedJobs, TakenJobs DEF Exchange
<1>2. calls[d].pc = "storing" /\ cs[d].gen = g /\ cs[d].count = calls[d].count
  BY <1>1, KeptJobs
<1>3. g \in InUse(gens) /\ (gens[g].outlived \/ calls[d].count <= Cardinality(After(calls[d], gens)))
  BY <1>2 DEF IndexInv, Counted
<1>4. g \in Gens /\ gens[g].status # "none"
  BY <1>2, HolderHasGeneration
<1>5. /\ g \in InUse(new)
      /\ \A i \in Items : gens[g].jobs[i].state = "completed" => new[g].jobs[i].state = "completed"
  BY <1>2, <1>3, <1>4 DEF GensCalm
<1>6. gens[g].outlived => new[g].outlived
  BY <1>4 DEF Grows, Onward
<1>7. calls[d] \in CallRecord
  BY DEF IndexInv, Types
<1>8. new[g].outlived \/ calls[d].count <= Cardinality(After(calls[d], new))
  BY <1>3, <1>5, <1>6, <1>7, AfterGrows
<1>9. After(cs[d], new) = After(calls[d], new)
  BY <1>1, SameAfter
<1> QED
  BY <1>2, <1>5, <1>8, <1>9

LEMMA ProgressStays ==
  ASSUME IndexInv, NEW new, Grows(new), GensCalm(new)
  PROVE  Progress(new, Won')
<1> SUFFICES ASSUME NEW g \in Gens
             PROVE  /\ new[g].outlived \/ new[g].done <= Cardinality(Completed(new, g))
                    /\ new[g].total > 0 /\ new[g].done >= new[g].total => Earned(g, new, Won')
                    /\ new[g].done # 0 => new[g].status # "none"
  BY DEF Progress
<1>1. Completed(gens, g) \in SUBSET Items /\ Completed(new, g) \in SUBSET Items
  BY DEF Completed
<1>2. Cardinality(Completed(gens, g)) \in Nat /\ Cardinality(Completed(new, g)) \in Nat
  BY <1>1, Sized, Settings
<1>3. CASE new[g].done = 0
  <2>1. new[g].total \in Nat
    <3>1. new[g].total \in 0..Cardinality(Items)
      BY DEF Grows, Generation
    <3> QED
      BY <3>1, Settings
  <2> QED
    BY <1>2, <1>3, <2>1
<1>4. CASE new[g].done # 0
  <2>1. /\ new[g].done = gens[g].done
        /\ \/ new[g].total = gens[g].total
           \/ new[g].total > 0 /\ new[g].done >= new[g].total => Earned(g, new, Won')
        /\ \A i \in Items : gens[g].jobs[i].state = "completed" => new[g].jobs[i].state = "completed"
    BY <1>4 DEF GensCalm
  <2>2. gens[g].status # "none"
    BY <1>4, <2>1 DEF IndexInv, Progress
  <2>3. Completed(gens, g) \subseteq Completed(new, g)
    BY <2>1 DEF Completed
  <2>4. Cardinality(Completed(gens, g)) <= Cardinality(Completed(new, g))
    BY <1>1, <2>3, Sized
  <2>5. (gens[g].outlived => new[g].outlived) /\ Won \subseteq Won'
    BY <2>2 DEF Grows, Onward
  <2>6. gens[g].done \in Nat
    <3>1. gens[g].done \in 0..Cardinality(Items)
      BY DEF IndexInv, Types, Generation
    <3> QED
      BY <3>1, Settings
  <2>7. /\ gens[g].outlived \/ gens[g].done <= Cardinality(Completed(gens, g))
        /\ gens[g].total > 0 /\ gens[g].done >= gens[g].total => Earned(g, gens, Won)
    BY DEF IndexInv, Progress
  <2>8. new[g].status # "none"
    BY <2>2 DEF Grows, Onward
  <2>9. Earned(g, gens, Won) => Earned(g, new, Won')
    BY <2>5 DEF Earned
  <2> QED
    BY <1>2, <2>1, <2>4, <2>5, <2>6, <2>7, <2>8, <2>9
<1> QED
  BY <1>3, <1>4

\* A step in which calls keep, drop or take jobs preserves the invariant.
LEMMA ExchangeKeeps ==
  ASSUME IndexInv, UNCHANGED records, Grows(gens'), GensCalm(gens'),
         Recorded(gens', records, complete', recounted'),
         PageTypes', Full(shown', gens', Won'), Asked(calls', gens', Won'),
         calls' \in [Calls -> CallRecord], NEW c \in Calls, Exchange(c, calls', gens'),
         locks' \in Seq(Calls), Locked(calls', locks')
  PROVE  IndexInv' /\ Promotes(gens')
<1>1. /\ Holding(calls', gens', records) /\ Known(calls', records)
      /\ Counted(calls', gens') /\ Progress(gens', Won')
  BY HoldingStays, KnownStays, CountedStays, ProgressStays
<1>2. Types'
  BY DEF Types, IndexInv, Grows
<1> QED
  BY <1>1, <1>2 DEF IndexInv, Grows

\* A calm step preserves the invariant.
LEMMA CalmKeeps ==
  ASSUME IndexInv, CalmMoves
  PROVE  IndexInv' /\ Promotes(gens')
<1>1. /\ UNCHANGED <<locks, records>> /\ Grows(gens') /\ GensCalm(gens')
      /\ Recorded(gens', records, complete', recounted')
      /\ PageTypes' /\ Full(shown', gens', Won')
      /\ calls' \in [Calls -> CallRecord] /\ Asked(calls', gens', Won') /\ Calm(calls, calls')
  BY DEF CalmMoves
<1>2. Exchange(1, calls', gens') /\ 1 \in Calls
  BY <1>1, Settings DEF Exchange, Calm
<1>3. \A d \in Calls : calls'[d].pc = "storing" <=> calls[d].pc = "storing"
  BY <1>1 DEF Calm, Keeps, Drops, Batching
<1>4. Locked(calls', locks') /\ locks' \in Seq(Calls)
  BY <1>1, <1>3 DEF IndexInv, Locked, Types
<1> QED
  BY <1>1, <1>2, <1>4, ExchangeKeeps

\* What a claim does to the generations
LEMMA ClaimedGens ==
  ASSUME IndexInv, past' = past, NEW g \in Gens, g \in InUse(gens), NEW batch,
         \A i \in batch : i \in Claimable(Reclaimed(gens)[g].jobs),
         gens' = [Reclaimed(gens) EXCEPT ![g].jobs =
                    [i \in Items |-> IF i \in batch
                       THEN [state |-> "processing",
                             tries |-> IF Reclaimed(gens)[g].jobs[i].tries < MaxAttempts
                                       THEN Reclaimed(gens)[g].jobs[i].tries + 1
                                       ELSE Reclaimed(gens)[g].jobs[i].tries]
                       ELSE Reclaimed(gens)[g].jobs[i]]]
  PROVE  /\ Grows(gens') /\ GensCalm(gens') /\ batch \subseteq Items
         /\ Recorded(gens', records, complete', recounted')
         /\ \A i \in batch : /\ gens[g].jobs[i].state \notin {"processing", "none"}
                             /\ gens'[g].jobs[i].state = "processing"
<1> DEFINE old == Reclaimed(gens)
           back(h, i) == IF gens[h].jobs[i].state = "stale"
                         THEN [gens[h].jobs[i] EXCEPT !.state = "pending"] ELSE gens[h].jobs[i]
           up(job) == [state |-> "processing",
                       tries |-> IF job.tries < MaxAttempts THEN job.tries + 1 ELSE job.tries]
           js == [i \in Items |-> IF i \in batch THEN up(old[g].jobs[i]) ELSE old[g].jobs[i]]
<1>1. ASSUME NEW h \in Gens, NEW i \in Items
      PROVE  /\ gens[h].jobs[i] \in Job /\ back(h, i) \in Job
             /\ gens[h].jobs[i].state # "stale" => back(h, i) = gens[h].jobs[i]
             /\ gens[h].jobs[i].state = "stale" => back(h, i).state = "pending"
  <2>1. gens \in [Gens -> Generation]
    BY DEF IndexInv, Types
  <2>2. gens[h].jobs[i] \in Job
    BY <2>1 DEF Generation
  <2> QED
    BY <2>2 DEF Job
<1>2. ASSUME NEW h \in Gens
      PROVE  /\ old[h] \in Generation /\ old[h].status = gens[h].status /\ old[h].done = gens[h].done
             /\ old[h].outlived = gens[h].outlived /\ old[h].total = gens[h].total
             /\ old[h].jobs = [i \in Items |-> back(h, i)]
  <2>1. gens[h] \in Generation
    BY DEF IndexInv, Types
  <2>2. [i \in Items |-> back(h, i)] \in [Items -> Job]
    BY <1>1
  <2>3. old[h] = [gens[h] EXCEPT !.jobs = [i \in Items |-> back(h, i)]]
    BY DEF Reclaimed
  <2> HIDE DEF back, old
  <2> QED
    BY <2>1, <2>2, <2>3 DEF Generation
<1>3. old \in [Gens -> Generation]
  <2>1. old = [h \in Gens |-> old[h]]
    BY DEF Reclaimed
  <2> HIDE DEF old
  <2> QED
    BY <1>2, <2>1
<1> HIDE DEF old
<1>4. ASSUME NEW h \in Gens, NEW i \in Items
      PROVE  old[h].jobs[i] = back(h, i)
  BY <1>2
<1>5. ASSUME NEW job \in Job PROVE up(job) \in Job /\ up(job).state = "processing"
  <2>1. job.tries \in Nat /\ MaxAttempts \in Nat
    BY ConstantsAssumption DEF Job
  <2> QED
    BY <2>1 DEF Job
<1>6. js \in [Items -> Job]
  <2>1. ASSUME NEW i \in Items PROVE old[g].jobs[i] \in Job
    BY <1>1, <1>4
  <2> HIDE DEF up
  <2> QED
    BY <1>5, <2>1
<1>7. \A i \in Items : i \in batch => js[i].state = "processing"
  <2>1. ASSUME NEW i \in Items, i \in batch PROVE js[i].state = "processing"
    <3>1. js[i] = up(old[g].jobs[i]) /\ old[g].jobs[i] \in Job
      BY <1>1, <1>4, <2>1
    <3> HIDE DEF js, up
    <3> QED
      BY <1>5, <3>1
  <2> QED
    BY <2>1
<1>8. \A i \in Items : i \notin batch => js[i] = old[g].jobs[i]
  OBVIOUS
<1>9. gens' = [old EXCEPT ![g] = [old[g] EXCEPT !.jobs = js]]
  BY DEF old
<1> HIDE DEF js
<1> DEFINE b == [old[g] EXCEPT !.jobs = js]
<1>10. /\ b \in Generation /\ b.jobs = js /\ b.status = old[g].status /\ b.done = old[g].done
       /\ b.outlived = old[g].outlived /\ b.total = old[g].total
  BY <1>2, <1>6 DEF Generation
<1>11. /\ gens' \in [Gens -> Generation] /\ gens'[g].jobs = js
       /\ gens'[g].status = old[g].status /\ gens'[g].done = old[g].done
       /\ gens'[g].outlived = old[g].outlived /\ gens'[g].total = old[g].total
       /\ \A h \in Gens : h # g => gens'[h] = old[h]
  <2> HIDE DEF b
  <2>1. gens' = [old EXCEPT ![g] = b]
    BY <1>9 DEF b
  <2>2. gens' \in [Gens -> Generation] /\ gens'[g] = b /\ \A h \in Gens : h # g => gens'[h] = old[h]
    BY <1>3, <1>10, <2>1
  <2> QED
    BY <1>10, <2>2
<1>12. ASSUME NEW h \in Gens
       PROVE  /\ gens'[h].status = gens[h].status /\ gens'[h].done = gens[h].done
              /\ gens'[h].outlived = gens[h].outlived /\ gens'[h].total = gens[h].total
  <2>1. CASE h = g
    BY <1>2, <1>11, <2>1
  <2>2. CASE h # g
    <3>1. gens'[h] = old[h]
      BY <1>11, <2>2
    <3> QED
      BY <1>2, <3>1
  <2> QED
    BY <2>1, <2>2
<1>13. Won' = Won /\ Longer
  BY PastStays
<1>14. Grows(gens')
  BY <1>11, <1>12, <1>13 DEF Grows, Onward, Promotes
<1>15. /\ batch \subseteq Items
       /\ \A i \in batch : old[g].jobs[i].state \in {"pending", "failed"}
  BY DEF Claimable, old
<1>16. ASSUME NEW i \in batch
       PROVE  gens[g].jobs[i].state \notin {"processing", "none", "completed"}
  <2>1. i \in Items /\ back(g, i).state \in {"pending", "failed"}
    BY <1>4, <1>15
  <2> HIDE DEF back
  <2> QED
    BY <1>1, <2>1
\* The state of a job changes only from stale to pending, and by the claim.
<1>17. ASSUME NEW h \in Gens, NEW i \in Items
       PROVE  \/ gens'[h].jobs[i].state = gens[h].jobs[i].state
              \/ /\ gens[h].jobs[i].state \notin {"processing", "none", "completed"}
                 /\ gens'[h].jobs[i].state \in {"processing", "pending"}
  <2>1. CASE h = g /\ i \in batch
    BY <1>7, <1>11, <1>16, <2>1
  <2>2. CASE ~(h = g /\ i \in batch)
    <3>1. gens'[h].jobs[i] = back(h, i)
      BY <1>4, <1>8, <1>11, <2>2
    <3> HIDE DEF back
    <3> QED
      BY <1>1, <3>1
  <2> QED
    BY <2>1, <2>2
<1>18. \A h \in Gens : h \in InUse(gens') <=> h \in InUse(gens)
  BY <1>12 DEF InUse
<1>19. GensCalm(gens')
  <2>1. ASSUME NEW h \in Gens, NEW i \in Items
        PROVE  /\ gens[h].jobs[i].state \in {"processing", "completed"} =>
                    gens'[h].jobs[i].state = gens[h].jobs[i].state
               /\ Held(h, i) /\ gens[h].jobs[i].state \notin {"none", "completed"} =>
                    gens'[h].jobs[i].state \notin {"none", "completed"}
    BY <1>17
  <2> QED
    BY <1>12, <1>18, <2>1 DEF GensCalm
<1>20. ASSUME NEW h \in Gens
       PROVE  JobsOf(gens'[h]) = JobsOf(gens[h]) /\ CompletedIn(gens'[h]) = CompletedIn(gens[h])
  BY <1>17 DEF JobsOf, CompletedIn
<1>21. Recorded(gens', records, complete', recounted')
  BY <1>11, <1>12, <1>13, <1>20, RecordedStays DEF IsComplete
<1> QED
  BY <1>7, <1>11, <1>14, <1>15, <1>16, <1>19, <1>21

LEMMA ClaimKeeps ==
  ASSUME IndexInv, NEW c \in Calls, Claim(c)
  PROVE  IndexInv' /\ Promotes(gens')
<1> DEFINE g == calls[c].gen
           jobs == Reclaimed(gens)[g].jobs
           open == Claimable(jobs) \ LockedJobs(g)
           batch == {i \in open : Cardinality({j \in open : j < i}) < calls[c].size}
<1>1. /\ calls[c].pc = "sent" /\ calls[c].kind \in {"loop", "single"}
      /\ UNCHANGED <<here, signedIn, chosen, shown, size, locks, records, past>>
  BY DEF Claim, Batches
<1>2. CASE g \notin Present
  <2>1. FailsAs(c, Idle) /\ UNCHANGED gens
    BY <1>2 DEF Claim
  <2> QED
    BY <1>1, <2>1, FailureMoves, CalmKeeps
<1>3. CASE g \in Present
  <2>1. /\ gens' = [Reclaimed(gens) EXCEPT ![g].jobs =
                      [i \in Items |-> IF i \in batch
                         THEN [state |-> "processing",
                               tries |-> IF jobs[i].tries < MaxAttempts THEN jobs[i].tries + 1
                                         ELSE jobs[i].tries]
                         ELSE jobs[i]]]
        /\ IF batch = {} THEN Answers(c, FALSE)
           ELSE calls' = [calls EXCEPT ![c].pc = "embedding", ![c].todo = batch]
        /\ UNCHANGED auto
    BY <1>3 DEF Claim
  <2>2. \A i \in batch : i \in Claimable(Reclaimed(gens)[g].jobs)
    OBVIOUS
  <2>3. g \in Gens /\ g \in InUse(gens)
    BY <1>3 DEF Present, InUse
  <2> HIDE DEF batch
  <2>4. /\ Grows(gens') /\ GensCalm(gens') /\ batch \subseteq Items
        /\ Recorded(gens', records, complete', recounted')
        /\ \A i \in batch : /\ gens[g].jobs[i].state \notin {"processing", "none"}
                            /\ gens'[g].jobs[i].state = "processing"
    BY <1>1, <2>1, <2>2, <2>3, ClaimedGens
  <2>5. Asked(calls, gens', Won') /\ Full(shown, gens', Won')
    BY <2>4, GrownIsSound
  <2>6. PageTypes' /\ Full(shown', gens', Won')
    BY <1>1, <2>1, <2>5 DEF PageTypes, IndexInv, Types
  <2>7. calls \in [Calls -> CallRecord]
    BY DEF IndexInv, Types
  <2>8. CASE batch = {}
    <3>1. calls' \in [Calls -> CallRecord] /\ Asked(calls', gens', Won') /\ Calm(calls, calls')
      BY <1>1, <2>1, <2>5, <2>7, <2>8, AnswersCalmly
    <3>2. CalmMoves
      BY <1>1, <2>4, <2>6, <3>1 DEF CalmMoves
    <3> QED
      BY <3>2, CalmKeeps
  <2>9. CASE batch # {}
    <3> DEFINE r == [calls[c] EXCEPT !.pc = "embedding", !.todo = batch]
    <3>1. calls[c] \in CallRecord /\ Sound(calls[c], gens', Won')
      BY <2>5, <2>7 DEF Asked
    <3>2. calls' = [calls EXCEPT ![c] = r]
      BY <2>1, <2>7, <2>9
    <3>3. /\ r \in CallRecord /\ r.pc = "embedding" /\ r.todo = batch /\ r.kind = calls[c].kind
          /\ r.found = calls[c].found /\ r.gone = calls[c].gone /\ r.scanned = calls[c].scanned
          /\ r.gen = g /\ r.seen = calls[c].seen /\ r.current = calls[c].current
          /\ r.page = calls[c].page
      BY <2>4, <3>1 DEF CallRecord, Places, ServerSide
    <3>4. r.found = {} /\ r.gone = {}
      BY <1>1, <3>1, <3>3 DEF Sound, Batching, Bare
    <3> HIDE DEF r
    <3>5. Sound(r, gens', Won')
      BY <1>1, <3>1, <3>3, <3>4 DEF Sound, Batching
    <3>6. calls' \in [Calls -> CallRecord] /\ Asked(calls', gens', Won')
      BY <2>5, <2>7, <3>2, <3>3, <3>5, OneReplaced
    <3>7. calls'[c] = r /\ \A d \in Calls : d # c => calls'[d] = calls[d]
      BY <2>7, <3>2
    <3>8. Takes(calls[c], calls'[c], gens')
      BY <1>1, <2>3, <2>4, <3>3, <3>4, <3>7 DEF Takes
    <3>9. Exchange(c, calls', gens')
      BY <3>7, <3>8 DEF Exchange, Keeps, SameJobs
    <3>10. \A d \in Calls : calls'[d].pc = "storing" <=> calls[d].pc = "storing"
      BY <1>1, <3>3, <3>7
    <3>11. Locked(calls', locks') /\ locks' \in Seq(Calls)
      BY <1>1, <3>10 DEF IndexInv, Locked, Types
    <3> QED
      BY <1>1, <2>4, <2>6, <3>6, <3>9, <3>11, ExchangeKeeps
  <2> QED
    BY <2>8, <2>9
<1> QED
  BY <1>2, <1>3

\* Where every call has what it had, or has looked up more of it
LEMMA SameHolding ==
  ASSUME IndexInv, NEW cs,
         \A d \in Calls :
           /\ cs[d].gen = calls[d].gen /\ JobsHeld(cs[d]) = JobsHeld(calls[d])
           /\ cs[d].gone = calls[d].gone /\ cs[d].scanned = calls[d].scanned
           /\ \A i \in Items : Owns(cs[d], i, records) => Owns(calls[d], i, records)
  PROVE  Holding(cs, gens, records) /\ Known(cs, records)
<1>1. ASSUME NEW d \in Calls PROVE Working(cs[d], gens, records)
  <2>1. Working(calls[d], gens, records)
    BY DEF IndexInv, Holding
  <2> QED
    BY <2>1 DEF Working
<1>2. Alone(cs, gens, records)
  <2>1. Alone(calls, gens, records)
    BY DEF IndexInv, Holding
  <2> QED
    BY <2>1 DEF Alone
<1> QED
  BY <1>1, <1>2 DEF IndexInv, Holding, Known

\* The record of a job is there.
LEMMA RecordFound ==
  ASSUME IndexInv, NEW c \in Calls, calls[c].pc = "embedding", NEW i \in Items, i \in calls[c].todo,
         records[i] = "there",
         calls' = [calls EXCEPT ![c].todo = @ \ {i}, ![c].found = @ \union {i}],
         UNCHANGED <<page, gens, locks, records, past>>
  PROVE  IndexInv' /\ Promotes(gens')
<1> DEFINE r == [calls[c] EXCEPT !.todo = @ \ {i}, !.found = @ \union {i}]
<1>1. calls \in [Calls -> CallRecord] /\ calls[c] \in CallRecord /\ Sound(calls[c], gens, Won)
  BY DEF IndexInv, Types, Asked
<1>2. calls' = [calls EXCEPT ![c] = r]
  BY <1>1
<1>3. /\ r \in CallRecord /\ r.pc = "embedding" /\ r.kind = calls[c].kind /\ r.gen = calls[c].gen
      /\ r.todo = calls[c].todo \ {i} /\ r.found = calls[c].found \union {i}
      /\ r.gone = calls[c].gone /\ r.scanned = calls[c].scanned /\ r.seen = calls[c].seen
      /\ r.current = calls[c].current /\ r.page = calls[c].page
  BY <1>1 DEF CallRecord
<1> HIDE DEF r
<1>4. Sound(r, gens, Won)
  BY <1>1, <1>3 DEF Sound, Batching
<1>5. calls' \in [Calls -> CallRecord] /\ Asked(calls', gens, Won)
  <2>1. Asked(calls, gens, Won) /\ r \in CallRecord /\ (r.current => calls[c].current)
    BY <1>3 DEF IndexInv
  <2> DEFINE new == [calls EXCEPT ![c] = r]
  <2>2. new \in [Calls -> CallRecord] /\ Asked(new, gens, Won)
    BY <1>1, <1>4, <2>1, OneReplaced
  <2> QED
    BY <1>2, <2>2
<1>6. calls'[c] = r /\ \A d \in Calls : d # c => calls'[d] = calls[d]
  BY <1>1, <1>2
<1>7. JobsHeld(r) = JobsHeld(calls[c])
  BY <1>3 DEF JobsHeld
<1>8. \A j \in Items : Owns(r, j, records) => Owns(calls[c], j, records)
  BY <1>3 DEF Owns
<1>9. Holding(calls', gens, records) /\ Known(calls', records)
  BY <1>3, <1>6, <1>7, <1>8, SameHolding
<1>10. \A d \in Calls : calls'[d].pc = calls[d].pc /\ (calls'[d].pc = "storing" => calls'[d] = calls[d])
  BY <1>3, <1>6
<1>11. Counted(calls', gens)
  <2>1. Counted(calls, gens)
    BY DEF IndexInv
  <2> QED
    BY <1>10, <2>1 DEF Counted
<1>12. Locked(calls', locks)
  BY <1>10 DEF IndexInv, Locked
<1>13. complete' = complete /\ recounted' = recounted /\ Won' = Won
  BY PastStays
<1>14. Types' /\ Full(shown', gens, Won)
  BY <1>5 DEF IndexInv, Types, PageTypes, page
<1> QED
  BY <1>5, <1>9, <1>11, <1>12, <1>13, <1>14 DEF IndexInv, Promotes

\* The record of a job is gone: another batch may take the job, but not embed it.
LEMMA RecordGone ==
  ASSUME IndexInv, NEW c \in Calls, calls[c].pc = "embedding", NEW i \in Items, i \in calls[c].todo,
         records[i] # "there", calls[c].gen \in Present,
         calls' = [calls EXCEPT ![c].todo = @ \ {i}, ![c].gone = @ \union {i}],
         gens' = [gens EXCEPT ![calls[c].gen].jobs[i].state = "failed"],
         UNCHANGED <<page, locks, records, past>>
  PROVE  IndexInv' /\ Promotes(gens')
<1> DEFINE g == calls[c].gen
           r == [calls[c] EXCEPT !.todo = @ \ {i}, !.gone = @ \union {i}]
           lost == [gens[g].jobs[i] EXCEPT !.state = "failed"]
           js == [gens[g].jobs EXCEPT ![i] = lost]
           b == [gens[g] EXCEPT !.jobs = js]
<1>1. calls \in [Calls -> CallRecord] /\ calls[c] \in CallRecord /\ Sound(calls[c], gens, Won)
  BY DEF IndexInv, Types, Asked
<1>2. g \in Gens /\ g \in InUse(gens) /\ gens \in [Gens -> Generation] /\ gens[g] \in Generation
  BY DEF Present, InUse, IndexInv, Types
<1>3. records[i] = "deleted" /\ i \in Begun(records)
  <2>1. i \in JobsHeld(calls[c])
    BY DEF JobsHeld
  <2>2. i \in Begun(records) /\ records[i] \in {"to come", "there", "deleted"}
    BY <2>1 DEF IndexInv, Known, Types
  <2> QED
    BY <2>2 DEF Begun
<1>4. lost \in Job /\ lost.state = "failed" /\ gens[g].jobs \in [Items -> Job]
  <2>1. gens[g].jobs \in [Items -> Job]
    BY <1>2 DEF Generation
  <2> QED
    BY <2>1 DEF Job
<1>5. gens' = [gens EXCEPT ![g] = b]
  <2> HIDE DEF g
  <2> QED
    BY <1>2, <1>4 DEF g
<1> HIDE DEF lost
<1>6. js \in [Items -> Job] /\ js[i].state = "failed" /\ \A j \in Items : j # i => js[j] = gens[g].jobs[j]
  BY <1>4
<1> HIDE DEF js
<1>7. /\ b \in Generation /\ b.jobs = js /\ b.status = gens[g].status /\ b.done = gens[g].done
      /\ b.total = gens[g].total /\ b.outlived = gens[g].outlived
  BY <1>2, <1>6 DEF Generation
<1> HIDE DEF b
<1>8. gens' \in [Gens -> Generation] /\ gens'[g] = b /\ \A h \in Gens : h # g => gens'[h] = gens[h]
  BY <1>2, <1>5, <1>7
<1>9. /\ r \in CallRecord /\ r.pc = "embedding" /\ r.kind = calls[c].kind /\ r.gen = g
      /\ r.todo = calls[c].todo \ {i} /\ r.found = calls[c].found
      /\ r.gone = calls[c].gone \union {i} /\ r.scanned = calls[c].scanned /\ r.seen = calls[c].seen
      /\ r.current = calls[c].current /\ r.page = calls[c].page
  BY <1>1 DEF CallRecord
<1>10. calls' = [calls EXCEPT ![c] = r]
  BY <1>1
<1> HIDE DEF r
<1>11. calls'[c] = r /\ \A d \in Calls : d # c => calls'[d] = calls[d]
  BY <1>1, <1>9, <1>10
<1>12. complete' = complete /\ recounted' = recounted /\ Won' = Won
  BY PastStays
<1>13. \A h \in Gens : /\ gens'[h].status = gens[h].status /\ gens'[h].outlived = gens[h].outlived
                       /\ gens'[h].done = gens[h].done /\ gens'[h].total = gens[h].total
  BY <1>7, <1>8
<1>14. Onward(gens, gens', Won, Won) /\ Promotes(gens')
  BY <1>13 DEF Onward, Promotes
<1>15. Asked(calls, gens', Won) /\ Full(shown, gens', Won)
  BY <1>8, <1>12, <1>14, GrownIsSound DEF Grows
<1>16. Sound(r, gens', Won)
  <2>1. Sound(calls[c], gens', Won)
    BY <1>15 DEF Asked
  <2> QED
    BY <1>9, <2>1 DEF Sound, Batching
<1>17. calls' \in [Calls -> CallRecord] /\ Asked(calls', gens', Won)
  <2>1. Asked(calls, gens', Won) /\ r \in CallRecord /\ (r.current => calls[c].current)
    BY <1>9, <1>15
  <2> DEFINE new == [calls EXCEPT ![c] = r]
  <2>2. new \in [Calls -> CallRecord] /\ Asked(new, gens', Won)
    BY <1>1, <1>16, <2>1, OneReplaced
  <2> QED
    BY <1>10, <2>2
<1>18. ~Owns(r, i, records)
  BY <1>1, <1>9 DEF Owns, Sound
<1>19. JobsHeld(r) = JobsHeld(calls[c]) /\ i \in JobsHeld(calls[c])
  BY <1>9 DEF JobsHeld
<1>20. \A j \in Items : Owns(r, j, records) => Owns(calls[c], j, records)
  BY <1>9 DEF Owns
<1>21. ASSUME NEW d \in Calls
       PROVE  /\ calls'[d].gen = calls[d].gen /\ JobsHeld(calls'[d]) = JobsHeld(calls[d])
              /\ calls'[d].scanned = calls[d].scanned
              /\ \A j \in Items : Owns(calls'[d], j, records) => Owns(calls[d], j, records)
  BY <1>9, <1>11, <1>19, <1>20
<1>22. ASSUME ~gens[g].outlived
       PROVE  gens[g].jobs[i].state \notin {"none", "completed"}
  <2>1. Working(calls[c], gens, records)
    BY DEF IndexInv, Holding
  <2> QED
    BY <1>2, <1>19, <1>22, <2>1 DEF Working
<1>23. ASSUME NEW d \in Calls, calls[d].gen = g, Owns(calls'[d], i, records)
       PROVE  gens[g].outlived
  <2>1. d # c
    BY <1>11, <1>18, <1>23
  <2>2. Owns(calls[d], i, records)
    BY <1>21, <1>23
  <2> QED
    BY <1>19, <1>23, <2>1, <2>2 DEF IndexInv, Holding, Alone
<1>24. InUse(gens') = InUse(gens)
  BY <1>13 DEF InUse
<1>25. ASSUME NEW d \in Calls PROVE Working(calls'[d], gens', records)
  <2> SUFFICES ASSUME NEW j \in Items, calls[d].gen \in InUse(gens), ~gens'[calls[d].gen].outlived
               PROVE  /\ Owns(calls'[d], j, records) => gens'[calls[d].gen].jobs[j].state = "processing"
                      /\ j \in JobsHeld(calls'[d]) =>
                           gens'[calls[d].gen].jobs[j].state \notin {"none", "completed"}
    BY <1>21, <1>24 DEF Working
  <2>1. calls[d].gen \in Gens /\ ~gens[calls[d].gen].outlived
    BY <1>13 DEF InUse
  <2>2. /\ Owns(calls[d], j, records) => gens[calls[d].gen].jobs[j].state = "processing"
        /\ j \in JobsHeld(calls[d]) => gens[calls[d].gen].jobs[j].state \notin {"none", "completed"}
    BY <2>1 DEF IndexInv, Holding, Working
  <2>3. CASE calls[d].gen = g /\ j = i
    <3>1. ~Owns(calls'[d], j, records)
      BY <1>23, <2>1, <2>3
    <3>2. gens'[calls[d].gen].jobs[j].state = "failed"
      BY <1>6, <1>7, <1>8, <2>3
    <3> QED
      BY <3>1, <3>2
  <2>4. CASE ~(calls[d].gen = g /\ j = i)
    <3>1. gens'[calls[d].gen].jobs[j] = gens[calls[d].gen].jobs[j]
      BY <1>6, <1>7, <1>8, <2>1, <2>4
    <3> QED
      BY <1>21, <2>2, <3>1
  <2> QED
    BY <2>3, <2>4
<1>26. Alone(calls', gens', records)
  <2> SUFFICES ASSUME NEW d \in Calls, NEW e \in Calls, NEW j \in Items, d # e,
                      calls[d].gen = calls[e].gen, Owns(calls[d], j, records), j \in JobsHeld(calls[e])
               PROVE  gens'[calls[d].gen].outlived
    BY <1>21 DEF Alone
  <2>1. gens[calls[d].gen].outlived
    BY DEF IndexInv, Holding, Alone
  <2>2. calls[d].gen \in Gens
    BY HolderHasGeneration
  <2> QED
    BY <1>13, <2>1, <2>2
<1>27. Holding(calls', gens', records) /\ Known(calls', records)
  <2>1. \A d \in Calls, j \in Items : j \in calls'[d].gone => records[j] = "deleted"
    BY <1>3, <1>9, <1>11 DEF IndexInv, Holding
  <2> QED
    BY <1>21, <1>25, <1>26, <2>1 DEF Holding, IndexInv, Known
<1>28. ASSUME NEW h \in Gens, ~gens[h].outlived, NEW j \in Items
       PROVE  /\ gens[h].jobs[j].state = "completed" <=> gens'[h].jobs[j].state = "completed"
              /\ gens[h].jobs[j].state = "none" <=> gens'[h].jobs[j].state = "none"
  <2>1. CASE h = g /\ j = i
    BY <1>6, <1>7, <1>8, <1>22, <1>28, <2>1
  <2>2. CASE h = g /\ j # i
    <3>1. gens'[h].jobs = js /\ js[j] = gens[h].jobs[j]
      BY <1>6, <1>7, <1>8, <2>2
    <3> QED
      BY <3>1
  <2>3. CASE h # g
    <3>1. gens'[h] = gens[h]
      BY <1>8, <2>3
    <3> QED
      BY <3>1
  <2> QED
    BY <2>1, <2>2, <2>3
<1>29. Counted(calls', gens')
  <2> SUFFICES ASSUME NEW d \in Calls, calls'[d].pc = "storing"
               PROVE  /\ calls'[d].gen \in InUse(gens')
                      /\ \/ gens'[calls'[d].gen].outlived
                         \/ calls'[d].count <= Cardinality(After(calls'[d], gens'))
    BY DEF Counted
  <2>1. calls'[d] = calls[d] /\ calls[d].pc = "storing" /\ calls[d] \in CallRecord
    BY <1>1, <1>9, <1>11
  <2>2. /\ calls[d].gen \in InUse(gens)
        /\ gens[calls[d].gen].outlived \/ calls[d].count <= Cardinality(After(calls[d], gens))
    BY <2>1 DEF IndexInv, Counted
  <2>3. calls[d].gen \in Gens
    BY <2>2 DEF InUse
  <2>4. ASSUME ~gens[calls[d].gen].outlived
        PROVE  calls[d].count <= Cardinality(After(calls[d], gens'))
    <3>1. \A j \in Items : gens[calls[d].gen].jobs[j].state = "completed" =>
                             gens'[calls[d].gen].jobs[j].state = "completed"
      BY <1>28, <2>3, <2>4
    <3> QED
      BY <2>1, <2>2, <2>4, <3>1, AfterGrows
  <2> QED
    BY <1>13, <1>24, <2>1, <2>2, <2>3, <2>4
<1>30. Progress(gens', Won)
  <2> SUFFICES ASSUME NEW h \in Gens
               PROVE  /\ gens'[h].outlived \/ gens'[h].done <= Cardinality(Completed(gens', h))
                      /\ gens'[h].total > 0 /\ gens'[h].done >= gens'[h].total => Earned(h, gens', Won)
                      /\ gens'[h].done # 0 => gens'[h].status # "none"
    BY DEF Progress
  <2>1. ~gens[h].outlived => Completed(gens', h) = Completed(gens, h)
    BY <1>28 DEF Completed
  <2> QED
    BY <1>13, <2>1 DEF IndexInv, Progress, Earned
<1>31. Recorded(gens', records, complete, recounted)
  <2> SUFFICES ASSUME NEW h \in Gens
               PROVE  /\ JobsOf(gens'[h]) \subseteq Begun(records)
                      /\ IsComplete(gens'[h]) => h \in complete
                      /\ \/ h \in recounted \/ gens'[h].outlived
                         \/ Cardinality(JobsOf(gens'[h])) <= gens'[h].total
    BY DEF Recorded
  <2>1. /\ JobsOf(gens[h]) \subseteq Begun(records)
        /\ IsComplete(gens[h]) => h \in complete
        /\ \/ h \in recounted \/ gens[h].outlived
           \/ Cardinality(JobsOf(gens[h])) <= gens[h].total
    BY DEF IndexInv, Recorded
  <2>2. CASE h # g
    BY <1>8, <2>1, <2>2
  <2>3. CASE h = g
    <3>1. JobsOf(b) \subseteq JobsOf(gens[g]) \union {i}
      BY <1>6, <1>7 DEF JobsOf
    <3>2. ~IsComplete(b)
      <4>1. i \in JobsOf(b) /\ i \notin CompletedIn(b)
        BY <1>6, <1>7 DEF JobsOf, CompletedIn
      <4> QED
        BY <4>1 DEF IsComplete
    <3>3. ASSUME ~gens[g].outlived PROVE JobsOf(gens'[g]) = JobsOf(gens[g])
      <4>1. \A j \in Items : gens[g].jobs[j].state = "none" <=> gens'[g].jobs[j].state = "none"
        BY <1>2, <1>28, <3>3
      <4> QED
        BY <4>1 DEF JobsOf
    <3> QED
      BY <1>3, <1>7, <1>8, <2>1, <2>3, <3>1, <3>2, <3>3
  <2> QED
    BY <2>2, <2>3
<1>32. Locked(calls', locks)
  <2>1. \A d \in Calls : calls'[d].pc = calls[d].pc
    BY <1>9, <1>11
  <2> QED
    BY <2>1 DEF IndexInv, Locked
<1>33. Types' /\ Full(shown', gens', Won)
  BY <1>8, <1>15, <1>17 DEF IndexInv, Types, PageTypes, page
<1> QED
  BY <1>12, <1>14, <1>17, <1>27, <1>29, <1>30, <1>31, <1>32, <1>33 DEF IndexInv

LEMMA LookUpKeeps ==
  ASSUME IndexInv, NEW c \in Calls, NEW i \in Items, LookUp(c, i)
  PROVE  IndexInv' /\ Promotes(gens')
<1>1. /\ calls[c].pc = "embedding" /\ i \in calls[c].todo
      /\ UNCHANGED <<here, signedIn, chosen, shown, size, locks, records, past>>
  BY DEF LookUp
<1>2. CASE i \in There /\ UNCHANGED <<auto, gens>>
           /\ calls' = [calls EXCEPT ![c].todo = @ \ {i}, ![c].found = @ \union {i}]
  <2>1. records[i] = "there" /\ UNCHANGED page
    BY <1>1, <1>2 DEF There, page
  <2> QED
    BY <1>1, <1>2, <2>1, RecordFound
<1>3. CASE i \notin There /\ calls[c].gen \in Present /\ UNCHANGED auto
           /\ calls' = [calls EXCEPT ![c].todo = @ \ {i}, ![c].gone = @ \union {i}]
           /\ gens' = [gens EXCEPT ![calls[c].gen].jobs[i].state = "failed"]
  <2>1. records[i] # "there" /\ UNCHANGED page
    BY <1>1, <1>3 DEF There, page
  <2> QED
    BY <1>1, <1>3, <2>1, RecordGone
<1>4. CASE FailsAs(c, Idle) /\ UNCHANGED gens
  BY <1>1, <1>4, FailureMoves, CalmKeeps
<1> QED
  BY <1>2, <1>3, <1>4 DEF LookUp

\* What a call counts is what will be completed when it has stored its outcome.
LEMMA CountKeeps ==
  ASSUME IndexInv, NEW c \in Calls, NEW o \in {"completed", "failed"}, Count(c, o)
  PROVE  IndexInv' /\ Promotes(gens')
<1> DEFINE g == calls[c].gen
           call == [calls[c] EXCEPT !.pc = "storing", !.outcome = o]
           own == IF o = "completed" THEN call.found ELSE {}
           n == Cardinality((InState(g, {"completed"}) \ Writes(call)) \union own)
           r == [call EXCEPT !.count = n]
<1>1. /\ calls[c].pc = "embedding"
      /\ UNCHANGED <<here, signedIn, chosen, shown, size, gens, records, past>>
  BY DEF Count
<1>2. CASE g \notin Present
  <2>1. FailsAs(c, Idle) /\ UNCHANGED locks
    BY <1>2 DEF Count
  <2> QED
    BY <1>1, <2>1, FailureMoves, CalmKeeps
<1>3. CASE g \in Present
  <2>1. calls \in [Calls -> CallRecord] /\ calls[c] \in CallRecord /\ Sound(calls[c], gens, Won)
    BY DEF IndexInv, Types, Asked
  <2>2. calls' = [calls EXCEPT ![c] = r] /\ locks' = Append(locks, c) /\ UNCHANGED auto
    BY <1>3 DEF Count
  <2>3. /\ call \in CallRecord /\ call.pc = "storing" /\ call.outcome = o
        /\ call.kind = calls[c].kind /\ call.gen = g /\ call.seen = calls[c].seen
        /\ call.current = calls[c].current /\ call.page = calls[c].page
        /\ SameJobs(call, calls[c])
    BY <2>1 DEF CallRecord, Places, ServerSide, SameJobs
  <2> HIDE DEF call
  <2>4. InState(g, {"completed"}) = Completed(gens, g)
    BY DEF InState, Completed
  <2>5. n \in 0..Cardinality(Items)
    <3>1. call.found \in SUBSET Items
      BY <2>3 DEF CallRecord
    <3>2. ((Completed(gens, g) \ Writes(call)) \union own) \in SUBSET Items
      BY <3>1 DEF Completed
    <3> QED
      BY <2>4, <3>2, Sized
  <2> HIDE DEF n
  <2>6. /\ r \in CallRecord /\ r.pc = "storing" /\ r.kind = calls[c].kind
        /\ r.gen = g /\ r.seen = calls[c].seen /\ r.current = calls[c].current
        /\ r.page = calls[c].page /\ r.outcome = o /\ r.count = n /\ SameJobs(r, calls[c])
        /\ SameJobs(r, call)
    BY <2>3, <2>5 DEF CallRecord, SameJobs
  <2> HIDE DEF r
  <2>7. Sound(r, gens, Won)
    BY <1>1, <2>1, <2>6 DEF Sound, Batching, SameJobs
  <2>8. calls' \in [Calls -> CallRecord] /\ Asked(calls', gens, Won)
    <3>1. Asked(calls, gens, Won) /\ r \in CallRecord /\ (r.current => calls[c].current)
      BY <2>6 DEF IndexInv
    <3> QED
      BY <2>1, <2>2, <2>7, <3>1, OneReplaced
  <2>9. calls'[c] = r /\ \A d \in Calls : d # c => calls'[d] = calls[d]
    BY <2>1, <2>2
  <2>10. /\ JobsHeld(r) = JobsHeld(calls[c]) /\ r.gone = calls[c].gone /\ r.scanned = calls[c].scanned
         /\ \A i \in Items : Owns(r, i, records) => Owns(calls[c], i, records)
    BY <2>6 DEF JobsHeld, Owns, SameJobs
  <2>11. Holding(calls', gens, records) /\ Known(calls', records)
    BY <2>6, <2>9, <2>10, SameHolding
  <2>12. Counted(calls', gens)
    <3> SUFFICES ASSUME NEW d \in Calls, calls'[d].pc = "storing"
                 PROVE  /\ calls'[d].gen \in InUse(gens)
                        /\ \/ gens[calls'[d].gen].outlived
                           \/ calls'[d].count <= Cardinality(After(calls'[d], gens))
      BY DEF Counted
    <3>1. CASE d = c
      <4>1. Writes(r) = Writes(call) /\ r.found = call.found
        BY <2>3, <2>6 DEF Writes, SameJobs
      <4>2. After(r, gens) = (Completed(gens, g) \ Writes(call)) \union own
        BY <2>6, <4>1 DEF After
      <4>3. r.count = Cardinality(After(r, gens))
        BY <2>4, <2>6, <4>2 DEF n
      <4>4. r.count \in Nat
        BY <2>5, <2>6, Settings
      <4>5. g \in InUse(gens)
        BY <1>3 DEF Present, InUse
      <4> QED
        BY <2>6, <2>9, <3>1, <4>3, <4>4, <4>5
    <3>2. CASE d # c
      BY <2>9, <3>2 DEF IndexInv, Counted
    <3> QED
      BY <3>1, <3>2
  <2>13. locks \in Seq(Calls) /\ DOMAIN locks = 1..Len(locks) /\ Len(locks) \in Nat
    <3>1. locks \in Seq(Calls)
      BY DEF IndexInv, Types
    <3> QED
      BY <3>1
  <2>14. /\ locks' \in Seq(Calls) /\ DOMAIN locks' = 1..(Len(locks) + 1)
         /\ locks'[Len(locks) + 1] = c
         /\ \A i \in DOMAIN locks : i \in DOMAIN locks' /\ locks'[i] = locks[i]
         /\ \A i \in DOMAIN locks' : i \in DOMAIN locks \/ i = Len(locks) + 1
    BY <2>2, <2>13
  <2>15. \A i \in DOMAIN locks : locks[i] # c
    BY <1>1 DEF IndexInv, Locked
  <2>16. Locked(calls', locks')
    <3>1. ASSUME NEW i \in DOMAIN locks', NEW j \in DOMAIN locks', locks'[i] = locks'[j]
          PROVE  i = j
      BY <2>14, <2>15, <3>1 DEF IndexInv, Locked
    <3>2. ASSUME NEW d \in Calls
          PROVE  calls'[d].pc = "storing" <=> \E i \in DOMAIN locks' : locks'[i] = d
      <4>1. CASE d = c
        BY <2>6, <2>9, <2>13, <2>14, <4>1
      <4>2. CASE d # c
        BY <2>9, <2>14, <4>2 DEF IndexInv, Locked
      <4> QED
        BY <4>1, <4>2
    <3> QED
      BY <3>1, <3>2 DEF Locked
  <2>17. complete' = complete /\ recounted' = recounted /\ Won' = Won
    BY <1>1, PastStays
  <2>18. Types' /\ Full(shown', gens, Won)
    BY <1>1, <2>2, <2>8, <2>14 DEF Types, PageTypes, IndexInv
  <2> QED
    BY <1>1, <2>8, <2>11, <2>12, <2>16, <2>17, <2>18 DEF IndexInv, Promotes
<1> QED
  BY <1>2, <1>3

\* The queue without a call
LEMMA QueueLeft ==
  ASSUME NEW ls \in Seq(Calls), \A i, j \in DOMAIN ls : ls[i] = ls[j] => i = j, NEW c \in Calls
  PROVE  LET new == Kept(ls, {i \in DOMAIN ls : ls[i] # c})
         IN  /\ new \in Seq(Calls)
             /\ \A i, j \in DOMAIN new : new[i] = new[j] => i = j
             /\ \A d \in Calls : (\E i \in DOMAIN new : new[i] = d) <=> d # c /\ \E i \in DOMAIN ls : ls[i] = d
<1> DEFINE K == {i \in DOMAIN ls : ls[i] # c}
           new == Kept(ls, K)
<1>1. PICK h : Picks(ls, K, Len(ls), new, h)
  BY KeptPicks
<1>2. /\ new \in Seq(Calls) /\ \A i, j \in DOMAIN new : new[i] = new[j] => i = j
      /\ \A i \in DOMAIN new : \E k \in DOMAIN ls : k \in K /\ new[i] = ls[k]
  <2>1. ASSUME NEW L
        PROVE  LET t == Kept(ls, L)
               IN  /\ t \in Seq(Calls) /\ \A i, j \in DOMAIN t : t[i] = t[j] => i = j
                   /\ \A i \in DOMAIN t : \E k \in DOMAIN ls : k \in L /\ t[i] = ls[k]
    BY KeptDistinct
  <2> HIDE DEF K
  <2> QED
    BY <2>1
<1>3. DOMAIN new = 1..Len(new) /\ DOMAIN ls = 1..Len(ls)
  BY <1>2
<1> HIDE DEF new
<1>4. ASSUME NEW k \in DOMAIN ls, ls[k] # c PROVE \E i \in DOMAIN new : new[i] = ls[k]
  <2>1. k \in K \cap (1..Len(ls))
    BY <1>3, <1>4
  <2>2. PICK i \in 1..Len(new) : h[i] = k
    BY <1>1, <2>1 DEF Picks
  <2>3. new[i] = ls[k]
    BY <1>1, <2>2 DEF Picks
  <2> QED
    BY <1>3, <2>3
<1>5. ASSUME NEW d \in Calls
      PROVE  (\E i \in DOMAIN new : new[i] = d) <=> d # c /\ \E i \in DOMAIN ls : ls[i] = d
  BY <1>2, <1>4
<1> QED
  BY <1>2, <1>5 DEF new

\* The number that is stored is right, whatever was stored since it was counted.
LEMMA CommitKeeps ==
  ASSUME IndexInv, NEW c \in Calls, Commit(c)
  PROVE  IndexInv' /\ Promotes(gens')
<1> DEFINE g == calls[c].gen
           out == calls[c].outcome
           W == Writes(calls[c])
           jobs == [i \in Items |-> IF i \in W THEN [gens[g].jobs[i] EXCEPT !.state = out]
                                    ELSE gens[g].jobs[i]]
           b == [gens[g] EXCEPT !.jobs = jobs, !.done = calls[c].count]
<1>1. calls[c].pc = "storing" /\ Answers(c, TRUE) /\ UNCHANGED <<page, records, recounted>>
  BY DEF Commit
<1>2. /\ gens' = [gens EXCEPT ![g].jobs = jobs, ![g].done = calls[c].count]
      /\ complete' = IF IsComplete(gens'[g]) THEN complete \union {g} ELSE complete
      /\ built' = IF IsBuilt(gens'[g]) THEN built \union {g} ELSE built
      /\ locks' = Kept(locks, {i \in DOMAIN locks : locks[i] # c})
  BY DEF Commit
<1>3. calls \in [Calls -> CallRecord] /\ calls[c] \in CallRecord /\ Sound(calls[c], gens, Won)
  BY DEF IndexInv, Types, Asked
<1>4. /\ g \in Gens /\ gens[g].status # "none" /\ g \in InUse(gens)
      /\ out \in {"completed", "failed"} /\ calls[c].count \in 0..Cardinality(Items)
  <2>1. g \in InUse(gens)
    BY <1>1 DEF IndexInv, Counted
  <2> QED
    BY <1>1, <1>3, <2>1, HolderHasGeneration DEF Sound, CallRecord
<1>5. W \in SUBSET Items /\ W \subseteq JobsHeld(calls[c]) /\ JobsHeld(calls[c]) \in SUBSET Items
  BY <1>1, HolderHasGeneration DEF Writes, JobsHeld
<1>6. gens \in [Gens -> Generation] /\ gens[g] \in Generation
  BY <1>4 DEF IndexInv, Types
<1>7. gens' = [gens EXCEPT ![g] = b]
  <2> HIDE DEF g, jobs
  <2> QED
    BY <1>2, <1>4, <1>6
<1>8. out = "completed" => W = calls[c].found
  BY DEF Writes
<1> HIDE DEF W
<1>9. /\ jobs \in [Items -> Job]
      /\ \A i \in W : jobs[i].state = out
      /\ \A i \in Items : i \notin W => jobs[i] = gens[g].jobs[i]
  <2>1. ASSUME NEW i \in Items
        PROVE  /\ gens[g].jobs[i] \in Job
               /\ [gens[g].jobs[i] EXCEPT !.state = out] \in Job
               /\ [gens[g].jobs[i] EXCEPT !.state = out].state = out
    <3>1. gens[g].jobs[i] \in Job
      BY <1>6 DEF Generation
    <3> QED
      BY <1>4, <3>1 DEF Job
  <2> QED
    BY <1>5, <2>1
<1> HIDE DEF jobs
<1>10. /\ b \in Generation /\ b.jobs = jobs /\ b.done = calls[c].count /\ b.status = gens[g].status
       /\ b.outlived = gens[g].outlived /\ b.total = gens[g].total
  BY <1>4, <1>6, <1>9 DEF Generation
<1> HIDE DEF b
<1>11. gens' \in [Gens -> Generation] /\ gens'[g] = b /\ \A h \in Gens : h # g => gens'[h] = gens[h]
  BY <1>4, <1>6, <1>7, <1>10
<1>12. Longer
  BY <1>1, <1>2 DEF Longer
<1>13. \A h \in Gens : /\ gens'[h].status = gens[h].status /\ gens'[h].outlived = gens[h].outlived
                       /\ gens'[h].total = gens[h].total
  BY <1>10, <1>11
<1>14. Onward(gens, gens', Won, Won') /\ Promotes(gens')
  BY <1>12, <1>13, WonStays DEF Onward, Promotes
<1>15. Asked(calls, gens', Won') /\ Full(shown, gens', Won')
  BY <1>11, <1>14, GrownIsSound DEF Grows
<1>16. /\ calls' \in [Calls -> CallRecord] /\ Asked(calls', gens', Won')
       /\ calls'[c].pc \notin Batching /\ Bare(calls'[c]) /\ calls'[c].scanned = {}
       /\ \A d \in Calls : d # c => calls'[d] = calls[d]
  BY <1>1, <1>3, <1>15, AnswersCalls
<1>17. JobsHeld(calls'[c]) = {} /\ calls'[c].gone = {} /\ \A i \in Items : ~Owns(calls'[c], i, records)
  BY <1>16 DEF Bare, JobsHeld, Owns
<1>18. InUse(gens') = InUse(gens)
  BY <1>13 DEF InUse
\* What c writes was there, and not completed.
<1>19. ASSUME ~gens[g].outlived, NEW i \in W
       PROVE  gens[g].jobs[i].state \notin {"none", "completed"}
  <2>1. Working(calls[c], gens, records)
    BY DEF IndexInv, Holding
  <2> QED
    BY <1>4, <1>5, <1>19, <2>1 DEF Working
\* What another call has in g is not what c completes, and what it owns c does not write.
<1>20. ASSUME NEW d \in Calls, d # c, calls[d].gen = g, ~gens[g].outlived, NEW i \in W
       PROVE  ~Owns(calls[d], i, records) /\ (i \in JobsHeld(calls[d]) => out = "failed")
  <2>1. Alone(calls, gens, records)
    BY DEF IndexInv, Holding
  <2>2. ~Owns(calls[d], i, records)
    BY <1>5, <1>20, <2>1 DEF Alone
  <2>3. out = "completed" => Owns(calls[c], i, records)
    BY <1>8, <1>20 DEF Owns
  <2>4. i \in JobsHeld(calls[d]) => ~Owns(calls[c], i, records)
    BY <1>5, <1>20, <2>1 DEF Alone
  <2> QED
    BY <1>4, <2>2, <2>3, <2>4
<1>21. ASSUME NEW d \in Calls PROVE Working(calls'[d], gens', records)
  <2>1. CASE d = c
    BY <1>17, <2>1 DEF Working
  <2>2. CASE d # c
    <3> SUFFICES ASSUME NEW i \in Items, calls[d].gen \in InUse(gens), ~gens'[calls[d].gen].outlived
                 PROVE  /\ Owns(calls[d], i, records) => gens'[calls[d].gen].jobs[i].state = "processing"
                        /\ i \in JobsHeld(calls[d]) =>
                             gens'[calls[d].gen].jobs[i].state \notin {"none", "completed"}
      BY <1>16, <1>18, <2>2 DEF Working
    <3>1. calls[d].gen \in Gens /\ ~gens[calls[d].gen].outlived
      BY <1>13 DEF InUse
    <3>2. Working(calls[d], gens, records)
      BY DEF IndexInv, Holding
    <3>3. /\ Owns(calls[d], i, records) => gens[calls[d].gen].jobs[i].state = "processing"
          /\ i \in JobsHeld(calls[d]) => gens[calls[d].gen].jobs[i].state \notin {"none", "completed"}
      BY <3>1, <3>2 DEF Working
    <3>4. CASE calls[d].gen = g /\ i \in W
      <4>1. gens'[calls[d].gen].jobs[i].state = out
        BY <1>9, <1>10, <1>11, <3>4
      <4>2. ~Owns(calls[d], i, records) /\ (i \in JobsHeld(calls[d]) => out = "failed")
        BY <1>20, <2>2, <3>1, <3>4
      <4> QED
        BY <4>1, <4>2
    <3>5. CASE ~(calls[d].gen = g /\ i \in W)
      <4>1. gens'[calls[d].gen].jobs[i] = gens[calls[d].gen].jobs[i]
        BY <1>9, <1>10, <1>11, <3>1, <3>5
      <4> QED
        BY <3>3, <4>1
    <3> QED
      BY <3>4, <3>5
  <2> QED
    BY <2>1, <2>2
<1>22. Alone(calls', gens', records)
  <2> SUFFICES ASSUME NEW d \in Calls, NEW e \in Calls, NEW i \in Items, d # e,
                      calls'[d].gen = calls'[e].gen, Owns(calls'[d], i, records), i \in JobsHeld(calls'[e])
               PROVE  gens'[calls'[d].gen].outlived
    BY DEF Alone
  <2>1. calls'[d] = calls[d] /\ calls'[e] = calls[e]
    BY <1>16, <1>17
  <2>2. gens[calls[d].gen].outlived
    BY <2>1 DEF IndexInv, Holding, Alone
  <2>3. calls[e].gen \in Gens
    BY <2>1, HolderHasGeneration
  <2> QED
    BY <1>13, <2>1, <2>2, <2>3
<1>23. Holding(calls', gens', records) /\ Known(calls', records)
  <2>1. ASSUME NEW d \in Calls
        PROVE  /\ \A i \in Items : i \in calls'[d].gone => records[i] = "deleted"
               /\ JobsHeld(calls'[d]) \subseteq Begun(records) /\ calls'[d].scanned \subseteq Begun(records)
    <3>1. CASE d = c
      BY <1>16, <1>17, <3>1
    <3>2. CASE d # c
      BY <1>16, <3>2 DEF IndexInv, Holding, Known
    <3> QED
      BY <3>1, <3>2
  <2> QED
    BY <1>21, <1>22, <2>1 DEF Holding, Known
<1>24. Completed(gens', g) = After(calls[c], gens)
  <2>1. W = Writes(calls[c])
    BY DEF W
  <2>2. Completed(gens', g) = (Completed(gens, g) \ W) \union (IF out = "completed" THEN calls[c].found ELSE {})
    BY <1>4, <1>5, <1>8, <1>9, <1>10, <1>11 DEF Completed
  <2> QED
    BY <2>1, <2>2 DEF After
<1>25. ASSUME NEW h \in Gens, ~gens[h].outlived, NEW i \in Items
       PROVE  /\ gens[h].jobs[i].state = "completed" => gens'[h].jobs[i].state = "completed"
              /\ gens[h].jobs[i].state = "none" <=> gens'[h].jobs[i].state = "none"
  <2>1. CASE h = g /\ i \in W
    <3>1. gens'[h].jobs[i].state = out
      BY <1>9, <1>10, <1>11, <2>1
    <3> QED
      BY <1>4, <1>19, <1>25, <2>1, <3>1
  <2>2. CASE ~(h = g /\ i \in W)
    <3>1. gens'[h].jobs[i] = gens[h].jobs[i]
      BY <1>9, <1>10, <1>11, <2>2
    <3> QED
      BY <3>1
  <2> QED
    BY <2>1, <2>2
<1>26. Counted(calls', gens')
  <2> SUFFICES ASSUME NEW d \in Calls, calls'[d].pc = "storing"
               PROVE  /\ calls'[d].gen \in InUse(gens')
                      /\ \/ gens'[calls'[d].gen].outlived
                         \/ calls'[d].count <= Cardinality(After(calls'[d], gens'))
    BY DEF Counted
  <2>1. calls'[d] = calls[d] /\ calls[d].pc = "storing" /\ calls[d] \in CallRecord
    BY <1>3, <1>16 DEF Batching
  <2>2. /\ calls[d].gen \in InUse(gens)
        /\ gens[calls[d].gen].outlived \/ calls[d].count <= Cardinality(After(calls[d], gens))
    BY <2>1 DEF IndexInv, Counted
  <2>3. calls[d].gen \in Gens
    BY <2>2 DEF InUse
  <2>4. ASSUME ~gens[calls[d].gen].outlived
        PROVE  calls[d].count <= Cardinality(After(calls[d], gens'))
    <3>1. \A i \in Items : gens[calls[d].gen].jobs[i].state = "completed" =>
                            gens'[calls[d].gen].jobs[i].state = "completed"
      BY <1>25, <2>3, <2>4
    <3> QED
      BY <2>1, <2>2, <2>4, <3>1, AfterGrows
  <2> QED
    BY <1>13, <1>18, <2>1, <2>2, <2>3, <2>4
<1>27. ASSUME ~gens[g].outlived
       PROVE  JobsOf(b) = JobsOf(gens[g])
  <2>1. \A i \in Items : gens[g].jobs[i].state = "none" <=> b.jobs[i].state = "none"
    BY <1>4, <1>11, <1>25, <1>27
  <2> QED
    BY <2>1 DEF JobsOf
<1>28. Progress(gens', Won')
  <2> SUFFICES ASSUME NEW h \in Gens
               PROVE  /\ gens'[h].outlived \/ gens'[h].done <= Cardinality(Completed(gens', h))
                      /\ gens'[h].total > 0 /\ gens'[h].done >= gens'[h].total => Earned(h, gens', Won')
                      /\ gens'[h].done # 0 => gens'[h].status # "none"
    BY DEF Progress
  <2>1. CASE h # g
    <3>1. gens'[h] = gens[h]
      BY <1>11, <2>1
    <3>2. Completed(gens', h) = Completed(gens, h)
      BY <3>1 DEF Completed
    <3>3. Won \subseteq Won'
      BY <1>12, WonStays
    <3> QED
      BY <3>1, <3>2, <3>3 DEF IndexInv, Progress, Earned
  <2>2. CASE h = g
    <3>1. gens[g].outlived \/ calls[c].count <= Cardinality(Completed(gens', g))
      BY <1>1, <1>24 DEF IndexInv, Counted
    <3>2. /\ gens'[g].done = calls[c].count /\ gens'[g].outlived = gens[g].outlived
          /\ gens'[g].status # "none"
      BY <1>4, <1>10, <1>11
    <3>3. ASSUME b.total > 0, b.done >= b.total, ~gens[g].outlived
          PROVE  g \in Won'
      <4>1. CompletedIn(b) = Completed(gens', g) /\ CompletedIn(b) \in SUBSET Items
        BY <1>11 DEF Completed, CompletedIn
      <4>2. /\ Cardinality(CompletedIn(b)) \in Nat /\ calls[c].count \in Nat /\ b.total \in Nat
        <5>1. Cardinality(CompletedIn(b)) \in 0..Cardinality(Items)
          BY <4>1, Sized
        <5>2. b.total \in 0..Cardinality(Items)
          BY <1>10 DEF Generation
        <5> QED
          BY <1>4, <5>1, <5>2, Settings
      <4>3. b.total <= Cardinality(CompletedIn(b))
        BY <1>10, <3>1, <3>3, <4>1, <4>2
      <4>4. g \in built'
        BY <1>2, <1>11, <3>3, <4>2, <4>3 DEF IsBuilt
      <4>5. CASE g \in recounted
        BY <1>1, <4>4, <4>5 DEF Won
      <4>6. CASE g \notin recounted
        <5>1. Cardinality(JobsOf(gens[g])) <= gens[g].total
          BY <1>4, <3>3, <4>6 DEF IndexInv, Recorded
        <5>2. Cardinality(JobsOf(b)) <= b.total
          BY <1>10, <1>27, <3>3, <5>1
        <5>3. IsComplete(b)
          BY <1>10, <3>3, <4>3, <5>2, AllCompleted
        <5>4. g \in complete'
          BY <1>2, <1>11, <5>3
        <5> QED
          BY <4>4, <5>4 DEF Won
      <4> QED
        BY <4>5, <4>6
    <3> QED
      BY <1>11, <2>2, <3>1, <3>2, <3>3 DEF Earned
  <2> QED
    BY <2>1, <2>2
<1>29. Recorded(gens', records, complete', recounted')
  <2> SUFFICES ASSUME NEW h \in Gens
               PROVE  /\ JobsOf(gens'[h]) \subseteq Begun(records)
                      /\ IsComplete(gens'[h]) => h \in complete'
                      /\ \/ h \in recounted' \/ gens'[h].outlived
                         \/ Cardinality(JobsOf(gens'[h])) <= gens'[h].total
    BY DEF Recorded
  <2>1. /\ JobsOf(gens[h]) \subseteq Begun(records)
        /\ IsComplete(gens[h]) => h \in complete
        /\ \/ h \in recounted \/ gens[h].outlived
           \/ Cardinality(JobsOf(gens[h])) <= gens[h].total
    BY DEF IndexInv, Recorded
  <2>2. CASE h # g
    BY <1>11, <1>12, <2>1, <2>2 DEF Longer
  <2>3. CASE h = g
    <3>1. JobsOf(b) \subseteq JobsOf(gens[g]) \union W
      BY <1>9, <1>10 DEF JobsOf
    <3>2. W \subseteq Begun(records)
      BY <1>5 DEF IndexInv, Known
    <3>3. IsComplete(gens'[g]) => g \in complete'
      BY <1>2
    <3> QED
      BY <1>1, <1>10, <1>11, <1>27, <2>1, <2>3, <3>1, <3>2, <3>3
  <2> QED
    BY <2>2, <2>3
<1>30. locks' \in Seq(Calls) /\ Locked(calls', locks')
  <2>1. /\ locks' \in Seq(Calls)
        /\ \A i, j \in DOMAIN locks' : locks'[i] = locks'[j] => i = j
        /\ \A d \in Calls : (\E i \in DOMAIN locks' : locks'[i] = d) <=> d # c /\ \E i \in DOMAIN locks : locks[i] = d
    <3>1. locks \in Seq(Calls) /\ \A i, j \in DOMAIN locks : locks[i] = locks[j] => i = j
      BY DEF IndexInv, Types, Locked
    <3> DEFINE new == Kept(locks, {i \in DOMAIN locks : locks[i] # c})
    <3>2. /\ new \in Seq(Calls)
          /\ \A i, j \in DOMAIN new : new[i] = new[j] => i = j
          /\ \A d \in Calls : (\E i \in DOMAIN new : new[i] = d) <=> d # c /\ \E i \in DOMAIN locks : locks[i] = d
      BY <3>1, QueueLeft
    <3>3. locks' = new
      BY <1>2
    <3> HIDE DEF new
    <3> QED
      BY <3>2, <3>3
  <2>2. \A d \in Calls : calls'[d].pc = "storing" <=> d # c /\ calls[d].pc = "storing"
    BY <1>16 DEF Batching
  <2> QED
    BY <2>1, <2>2 DEF IndexInv, Locked
<1>31. Types' /\ Full(shown', gens', Won')
  BY <1>1, <1>11, <1>15, <1>16, <1>30 DEF Types, PageTypes, page, IndexInv
<1> QED
  BY <1>1, <1>14, <1>16, <1>23, <1>26, <1>28, <1>29, <1>30, <1>31 DEF IndexInv

\* Who holds a job for longer than five minutes has outlived its claim.
LEMMA FiveMinutesKeeps ==
  ASSUME IndexInv, FiveMinutes
  PROVE  IndexInv' /\ Promotes(gens')
<1> DEFINE late(g) == gens[g].outlived \/ \E c \in Calls : calls[c].gen = g /\ JobsHeld(calls[c]) # {}
           js(g) == [i \in Items |-> IF i \in InState(g, {"processing"})
                                     THEN [gens[g].jobs[i] EXCEPT !.state = "stale"]
                                     ELSE gens[g].jobs[i]]
<1>1. UNCHANGED <<page, calls, locks, records, past>>
  BY DEF FiveMinutes
<1>2. ASSUME NEW g \in Gens
      PROVE  /\ gens'[g] \in Generation /\ gens'[g].status = gens[g].status
             /\ gens'[g].done = gens[g].done /\ gens'[g].total = gens[g].total
             /\ gens'[g].outlived <=> late(g)
             /\ \A i \in Items :
                  /\ gens'[g].jobs[i].state = "completed" <=> gens[g].jobs[i].state = "completed"
                  /\ gens'[g].jobs[i].state = "none" <=> gens[g].jobs[i].state = "none"
  <2>1. gens[g] \in Generation /\ late(g) \in BOOLEAN
    BY DEF IndexInv, Types, Generation
  <2>2. gens'[g] = [gens[g] EXCEPT !.outlived = late(g), !.jobs = js(g)]
    BY DEF FiveMinutes
  <2>3. ASSUME NEW i \in Items
        PROVE  /\ js(g)[i] \in Job
               /\ js(g)[i].state = "completed" <=> gens[g].jobs[i].state = "completed"
               /\ js(g)[i].state = "none" <=> gens[g].jobs[i].state = "none"
    <3>1. gens[g].jobs[i] \in Job
      BY <2>1 DEF Generation
    <3>2. CASE gens[g].jobs[i].state = "processing"
      BY <3>1, <3>2 DEF InState, Job
    <3>3. CASE gens[g].jobs[i].state # "processing"
      BY <3>1, <3>3 DEF InState
    <3> QED
      BY <3>2, <3>3
  <2>4. js(g) \in [Items -> Job]
    BY <2>3
  <2> HIDE DEF js, late
  <2>5. gens'[g] \in Generation /\ gens'[g].jobs = js(g) /\ (gens'[g].outlived <=> late(g))
        /\ gens'[g].status = gens[g].status /\ gens'[g].done = gens[g].done
        /\ gens'[g].total = gens[g].total
    BY <2>1, <2>2, <2>4 DEF Generation
  <2> QED
    BY <2>3, <2>5
<1>3. gens' \in [Gens -> Generation]
  <2>1. gens' = [g \in Gens |-> gens'[g]]
    BY DEF FiveMinutes
  <2> QED
    BY <1>2, <2>1
<1>4. complete' = complete /\ recounted' = recounted /\ Won' = Won /\ Longer
  BY <1>1, PastStays
<1>5. Onward(gens, gens', Won, Won) /\ Promotes(gens')
  BY <1>2 DEF Onward, Promotes
<1>6. Asked(calls, gens', Won) /\ Full(shown, gens', Won)
  BY <1>3, <1>4, <1>5, GrownIsSound DEF Grows
<1>7. \A g \in Gens : Completed(gens', g) = Completed(gens, g)
  BY <1>2 DEF Completed
<1>8. ASSUME NEW c \in Calls, JobsHeld(calls[c]) # {} PROVE gens'[calls[c].gen].outlived
  <2>1. calls[c].gen \in Gens
    BY <1>8, HolderHasGeneration
  <2> QED
    BY <1>2, <1>8, <2>1
<1>9. Holding(calls, gens', records)
  <2>1. \A c \in Calls : Working(calls[c], gens', records)
    BY <1>8, OwnsHeld DEF Working
  <2>2. Alone(calls, gens', records)
    BY <1>8, OwnsHeld DEF Alone
  <2> QED
    BY <2>1, <2>2 DEF Holding, IndexInv
<1>10. Counted(calls, gens')
  <2> SUFFICES ASSUME NEW c \in Calls, calls[c].pc = "storing"
               PROVE  /\ calls[c].gen \in InUse(gens')
                      /\ \/ gens'[calls[c].gen].outlived
                         \/ calls[c].count <= Cardinality(After(calls[c], gens'))
    BY DEF Counted
  <2>1. calls[c].gen \in InUse(gens) /\ calls[c].gen \in Gens
    BY HolderHasGeneration DEF IndexInv, Counted
  <2>2. gens[calls[c].gen].outlived \/ calls[c].count <= Cardinality(After(calls[c], gens))
    BY DEF IndexInv, Counted
  <2>3. After(calls[c], gens') = After(calls[c], gens)
    BY <1>7, <2>1 DEF After
  <2>4. calls[c].gen \in InUse(gens')
    BY <1>2, <2>1 DEF InUse
  <2>5. gens[calls[c].gen].outlived => gens'[calls[c].gen].outlived
    BY <1>2, <2>1
  <2> QED
    BY <2>2, <2>3, <2>4, <2>5
<1>11. Progress(gens', Won)
  BY <1>2, <1>7 DEF IndexInv, Progress, Earned
<1>12. Recorded(gens', records, complete', recounted')
  <2>1. ASSUME NEW g \in Gens
        PROVE  /\ JobsOf(gens'[g]) = JobsOf(gens[g]) /\ CompletedIn(gens'[g]) = CompletedIn(gens[g])
               /\ gens'[g].total = gens[g].total /\ (gens[g].outlived => gens'[g].outlived)
    BY <1>2 DEF JobsOf, CompletedIn
  <2> QED
    BY <1>3, <1>4, <2>1, RecordedStays DEF IsComplete
<1>13. Types' /\ Full(shown', gens', Won)
  BY <1>1, <1>3, <1>6 DEF IndexInv, Types, PageTypes, page
<1> QED
  BY <1>1, <1>4, <1>5, <1>6, <1>9, <1>10, <1>11, <1>12, <1>13 DEF IndexInv

\* After a restart no call holds anything.
LEMMA RestartKeeps ==
  ASSUME IndexInv, Restart
  PROVE  IndexInv' /\ Promotes(gens')
<1> DEFINE S == {c \in Calls : calls[c].pc \in ServerSide \ {"sent"}}
           cs == [c \in Calls |-> IF c \in S THEN Idle ELSE calls[c]]
<1>1. /\ Fails(S, cs) /\ locks' = <<>>
      /\ UNCHANGED <<here, signedIn, chosen, shown, size, gens, records, past>>
  BY DEF Restart
<1>2. calls \in [Calls -> CallRecord] /\ Asked(calls, gens, Won)
  BY DEF IndexInv, Types
<1>3. \A c \in Calls : /\ cs[c] \in CallRecord /\ Sound(cs[c], gens, Won)
                       /\ cs[c].pc \notin Batching
                       /\ cs[c].current => calls[c].current
                       /\ cs[c].scanned \subseteq calls[c].scanned
  BY <1>2, IdleCall, IdleIsSound DEF Asked, ServerSide, Batching
<1>4. cs \in [Calls -> CallRecord]
  BY <1>3
<1> HIDE DEF cs, S
<1>5. Asked(cs, gens, Won)
  BY <1>2, <1>3 DEF Asked, OneLoop
<1>6. /\ auto' \in BOOLEAN /\ calls' \in [Calls -> CallRecord] /\ Asked(calls', gens, Won)
      /\ Calm(cs, calls')
  BY <1>1, <1>4, <1>5, FailsCalls DEF IndexInv, Types
<1>7. ASSUME NEW c \in Calls
      PROVE  /\ calls'[c].pc \notin Batching /\ Bare(calls'[c])
             /\ calls'[c].scanned \subseteq calls[c].scanned \union There
  <2>1. Keeps(cs[c], calls'[c]) \/ Drops(cs[c], calls'[c])
    BY <1>6 DEF Calm
  <2>2. calls'[c].pc \notin Batching /\ calls'[c].scanned \subseteq cs[c].scanned \union There
    BY <1>3, <2>1 DEF Keeps, Drops, SameJobs
  <2>3. Sound(calls'[c], gens, Won)
    BY <1>6 DEF Asked
  <2> QED
    BY <1>3, <2>2, <2>3 DEF Sound
<1>8. \A c \in Calls : JobsHeld(calls'[c]) = {} /\ calls'[c].gone = {} /\ calls'[c].pc # "storing"
  BY <1>7 DEF Bare, JobsHeld, Batching
<1>9. Holding(calls', gens, records)
  BY <1>8, OwnsHeld DEF Holding, Working, Alone
<1>10. Known(calls', records)
  <2>1. There \subseteq Begun(records)
    BY DEF There, Begun
  <2> QED
    BY <1>7, <1>8, <2>1 DEF IndexInv, Known
<1>11. Counted(calls', gens) /\ Locked(calls', locks')
  BY <1>1, <1>8 DEF Counted, Locked
<1>12. complete' = complete /\ recounted' = recounted /\ Won' = Won
  BY <1>1, PastStays
<1>13. Types' /\ Full(shown', gens, Won)
  <2>1. PageTypes' /\ Full(shown', gens, Won)
    BY <1>1, <1>6 DEF IndexInv, Types, PageTypes
  <2>2. locks' \in Seq(Calls)
    BY <1>1
  <2>3. gens' \in [Gens -> Generation] /\ records' \in [Items -> {"to come", "there", "deleted"}]
    BY <1>1 DEF IndexInv, Types
  <2> QED
    BY <1>6, <2>1, <2>2, <2>3 DEF Types
<1> QED
  BY <1>1, <1>6, <1>9, <1>10, <1>11, <1>12, <1>13 DEF IndexInv, Promotes

\* Records come and go.
LEMMA RecordsKeep ==
  ASSUME IndexInv, UNCHANGED <<page, calls, gens, locks, past>>,
         records' \in [Items -> {"to come", "there", "deleted"}],
         \A i \in Items : /\ records[i] # "to come" => records'[i] # "to come"
                          /\ records[i] = "deleted" => records'[i] = "deleted"
  PROVE  IndexInv' /\ Promotes(gens')
<1>1. \A c \in Calls, i \in Items : Owns(calls[c], i, records') => Owns(calls[c], i, records)
  BY DEF Owns
<1>2. Begun(records) \subseteq Begun(records')
  BY DEF Begun
<1>3. ASSUME NEW c \in Calls PROVE Working(calls[c], gens, records')
  <2>1. Working(calls[c], gens, records)
    BY DEF IndexInv, Holding
  <2> QED
    BY <1>1, <2>1 DEF Working
<1>4. Alone(calls, gens, records')
  <2>1. Alone(calls, gens, records)
    BY DEF IndexInv, Holding
  <2> QED
    BY <1>1, <2>1 DEF Alone
<1>5. \A c \in Calls, i \in Items : i \in calls[c].gone => records'[i] = "deleted"
  BY DEF IndexInv, Holding
<1>6. Holding(calls, gens, records') /\ Known(calls, records')
  BY <1>2, <1>3, <1>4, <1>5 DEF Holding, Known, IndexInv
<1>7. Recorded(gens, records', complete, recounted)
  BY <1>2 DEF IndexInv, Recorded
<1>8. complete' = complete /\ recounted' = recounted /\ Won' = Won
  BY PastStays
<1>9. Types' /\ Full(shown', gens, Won)
  BY DEF IndexInv, Types, PageTypes, page
<1> QED
  BY <1>6, <1>7, <1>8, <1>9 DEF IndexInv, Promotes

LEMMA AppearsKeeps ==
  ASSUME IndexInv, NEW i \in Items, RecordAppears(i) \/ RecordDeleted(i)
  PROVE  IndexInv' /\ Promotes(gens')
<1>1. records \in [Items -> {"to come", "there", "deleted"}]
  BY DEF IndexInv, Types
<1>2. UNCHANGED <<page, calls, gens, locks, past>>
  BY DEF RecordAppears, RecordDeleted
<1>3. PICK s \in {"there", "deleted"} :
        /\ records' = [records EXCEPT ![i] = s]
        /\ records[i] # "deleted"
  BY DEF RecordAppears, RecordDeleted
<1>4. /\ records' \in [Items -> {"to come", "there", "deleted"}]
      /\ \A j \in Items : /\ records[j] # "to come" => records'[j] # "to come"
                          /\ records[j] = "deleted" => records'[j] = "deleted"
  BY <1>1, <1>3
<1> QED
  BY <1>2, <1>4, RecordsKeep

LEMMA InitHolds ==
  ASSUME Init
  PROVE  IndexInv
<1> DEFINE scanned == {i \in Items : records[i] # "to come"}
           js == [i \in Items |-> IF i \in scanned THEN [state |-> "pending", tries |-> 0] ELSE NoJob]
           b == [NoGen EXCEPT !.status = "BUILDING", !.total = Cardinality(scanned), !.jobs = js]
           q == Request("read", "asking")
<1>1. /\ here = TRUE /\ signedIn = TRUE /\ chosen = First /\ shown = NoStatus /\ auto = FALSE
      /\ size = Default /\ locks = <<>> /\ records \in Records
      /\ calls = [c \in Calls |-> IF c = 1 THEN q ELSE Idle]
  BY DEF Init
<1>2. gens = [g \in Gens |-> IF g = 1 THEN b ELSE NoGen]
  BY DEF Init
<1>3. scanned \in SUBSET Items /\ scanned = Begun(records)
  BY DEF Begun
<1>4. Cardinality(scanned) \in 0..Cardinality(Items)
  BY <1>3, Sized
<1>5. js \in [Items -> Job]
      /\ \A i \in Items : /\ js[i].state # "none" => i \in scanned
                          /\ js[i].state # "completed"
  <2>1. ASSUME NEW i \in Items
        PROVE  js[i] \in Job /\ (js[i].state # "none" => i \in scanned) /\ js[i].state # "completed"
    <3>1. js[i] = IF i \in scanned THEN [state |-> "pending", tries |-> 0] ELSE NoJob
      OBVIOUS
    <3>2. [state |-> "pending", tries |-> 0] \in Job
      BY DEF Job
    <3> QED
      BY <3>1, <3>2, Blank
  <2> QED
    BY <2>1
<1> HIDE DEF js, scanned
<1>6. /\ b \in Generation /\ b.status = "BUILDING" /\ b.done = 0 /\ b.total = Cardinality(scanned)
      /\ b.jobs = js
  BY <1>4, <1>5, Blank DEF Generation
<1> HIDE DEF b
<1>7. /\ q \in CallRecord /\ q.kind = "read" /\ q.pc = "asking"
      /\ ~q.current /\ Bare(q) /\ q.scanned = {} /\ q.seen = NoStatus
  BY RequestCall DEF Kinds, Places
<1> HIDE DEF q
<1>8. \A c \in Calls : /\ calls[c] \in CallRecord /\ ~calls[c].current /\ Bare(calls[c])
                       /\ calls[c].scanned = {}
                       /\ calls[c].pc \notin Batching /\ Sound(calls[c], gens, Won)
  <2>1. Sound(q, gens, Won)
    BY <1>7, Blank DEF Sound, Full, Batching, Bare
  <2> QED
    BY <1>1, <1>7, <2>1, IdleCall, IdleIsSound DEF Batching
<1>9. \A g \in Gens : /\ gens[g] \in Generation /\ gens[g].done = 0
                      /\ \A i \in Items : gens[g].jobs[i].state # "completed"
  BY <1>2, <1>5, <1>6, Blank
<1>10. Types
  <2>1. PageTypes
    BY <1>1, Settings, Blank, ConstantsAssumption DEF PageTypes
  <2>2. calls \in [Calls -> CallRecord] /\ gens \in [Gens -> Generation]
    BY <1>1, <1>2, <1>8, <1>9
  <2>3. records \in [Items -> {"to come", "there", "deleted"}]
    BY <1>1, ConstantsAssumption
  <2>4. locks \in Seq(Calls)
    BY <1>1
  <2> QED
    BY <2>1, <2>2, <2>3, <2>4 DEF Types
<1>11. Asked(calls, gens, Won) /\ Full(shown, gens, Won)
  BY <1>1, <1>8, Blank DEF Asked, OneLoop, Full
<1>12. \A c \in Calls : JobsHeld(calls[c]) = {} /\ calls[c].gone = {} /\ calls[c].pc # "storing"
  BY <1>8 DEF Bare, JobsHeld, Batching
<1>13. Holding(calls, gens, records) /\ Known(calls, records)
  BY <1>8, <1>12, OwnsHeld DEF Holding, Working, Alone, Known
<1>14. Counted(calls, gens) /\ Locked(calls, locks)
  BY <1>1, <1>12 DEF Counted, Locked
<1>15. Progress(gens, Won)
  <2>1. ASSUME NEW g \in Gens
        PROVE  0 <= Cardinality(Completed(gens, g)) /\ ~(gens[g].total > 0 /\ 0 >= gens[g].total)
    <3>1. Completed(gens, g) \in SUBSET Items
      BY DEF Completed
    <3>2. Cardinality(Completed(gens, g)) \in 0..Cardinality(Items)
      BY <3>1, Sized
    <3>3. gens[g].total \in 0..Cardinality(Items)
      BY <1>9 DEF Generation
    <3> QED
      BY <3>2, <3>3, Settings
  <2> QED
    BY <1>9, <2>1 DEF Progress
<1>16. Recorded(gens, records, complete, recounted)
  <2> SUFFICES ASSUME NEW g \in Gens
               PROVE  /\ JobsOf(gens[g]) \subseteq Begun(records)
                      /\ ~IsComplete(gens[g])
                      /\ Cardinality(JobsOf(gens[g])) <= gens[g].total
    BY DEF Recorded
  <2>1. ~IsComplete(gens[g])
    <3>1. CompletedIn(gens[g]) = {}
      BY <1>9 DEF CompletedIn
    <3> QED
      BY <3>1 DEF IsComplete
  <2>2. CASE g = 1
    <3>1. gens[g] = b
      BY <1>2, <2>2
    <3>2. JobsOf(b) \subseteq scanned
      BY <1>5, <1>6 DEF JobsOf
    <3>3. JobsOf(b) \in SUBSET Items
      BY DEF JobsOf
    <3>4. Cardinality(JobsOf(b)) <= Cardinality(scanned)
      BY <1>3, <3>2, <3>3, Sized
    <3> QED
      BY <1>3, <1>6, <2>1, <3>1, <3>2, <3>4
  <2>3. CASE g # 1
    <3>1. gens[g] = NoGen
      BY <1>2, <2>3
    <3>2. JobsOf(NoGen) = {}
      BY Blank, NoJobs
    <3>3. Cardinality(JobsOf(NoGen)) = 0
      BY <3>2, FS_EmptySet
    <3>4. NoGen.total = 0
      BY DEF NoGen
    <3> QED
      BY <2>1, <3>1, <3>2, <3>3, <3>4
  <2> QED
    BY <2>2, <2>3
<1> QED
  BY <1>10, <1>11, <1>13, <1>14, <1>15, <1>16 DEF IndexInv

----------------------------------------------------------------------------
(* The theorems *)

\* Every step preserves the invariant and activates only what was earned.
LEMMA StepKeeps ==
  ASSUME IndexInv, Next
  PROVE  IndexInv' /\ Promotes(gens')
<1>1. ASSUME NEW c \in Calls, Call(c) PROVE IndexInv' /\ Promotes(gens')
  <2>1. CASE RunLoop(c) \/ StatusRead(c) \/ Deliver(c) \/ Look(c) \/ Scan(c) \/ FoundNone(c)
    BY <2>1, RunLoopMoves, StatusReadMoves, SettleMoves, LookMoves, ScanMoves, FoundNoneMoves,
       PageIsCalm, CalmKeeps
  <2>2. CASE CleanUp(c) \/ Insert(c) \/ Enqueue(c) \/ Activate(c)
    BY <2>2, CleanUpMoves, InsertMoves, EnqueueMoves, ActivateMoves, CalmKeeps
  <2>3. CASE Claim(c) \/ \E i \in Items : LookUp(c, i)
    BY <2>3, ClaimKeeps, LookUpKeeps
  <2>4. ASSUME NEW o \in {"completed", "failed"}, Count(c, o) PROVE IndexInv' /\ Promotes(gens')
    BY <2>4, CountKeeps
  <2>5. CASE Commit(c)
    BY <2>5, CommitKeeps
  <2> QED
    BY <1>1, <2>1, <2>2, <2>3, <2>4, <2>5 DEF Call
<1>2. CASE Poll
  BY <1>2, RefreshMoves, PageIsCalm, CalmKeeps
<1>3. CASE User
  <2>1. ASSUME NEW m \in Models, Choose(m) PROVE PageMoves
    BY <2>1, ChooseMoves
  <2>2. ASSUME NEW n \in Sizes, SetBatchSize(n) PROVE PageMoves
    BY <2>2, ToggleMoves
  <2>3. PageMoves
    BY <1>3, <2>1, <2>2, RefreshMoves, StartMoves, SingleMoves, ToggleMoves, LeaveMoves, ReturnMoves,
       LogoutMoves DEF User
  <2> QED
    BY <2>3, PageIsCalm, CalmKeeps
<1>4. CASE Others
  <2>1. CASE \E m \in Models : OtherStart(m)
    BY <2>1, StartMoves, PageIsCalm, CalmKeeps
  <2>2. CASE Prune
    BY <2>2, PruneMoves, CalmKeeps
  <2>3. ASSUME NEW g \in Gens, DeleteGeneration(g) PROVE IndexInv' /\ Promotes(gens')
    BY <2>3, DeleteMoves, CalmKeeps
  <2>4. ASSUME NEW i \in Items, RecordAppears(i) \/ RecordDeleted(i)
        PROVE  IndexInv' /\ Promotes(gens')
    BY <2>4, AppearsKeeps
  <2> QED
    BY <1>4, <2>1, <2>2, <2>3, <2>4 DEF Others
<1>5. CASE Trouble
  <2>1. ASSUME NEW c \in Calls, ReadFails(c) PROVE IndexInv' /\ Promotes(gens')
    BY <2>1, SettleMoves, PageIsCalm, CalmKeeps
  <2>2. ASSUME NEW c \in Calls, NEW arrived \in BOOLEAN, Cut(c, arrived)
        PROVE  IndexInv' /\ Promotes(gens')
    BY <2>2, CutMoves, PageIsCalm, CalmKeeps
  <2>3. CASE FiveMinutes \/ Restart
    BY <2>3, FiveMinutesKeeps, RestartKeeps
  <2> QED
    BY <1>5, <2>1, <2>2, <2>3 DEF Trouble
<1> QED
  BY <1>1, <1>2, <1>3, <1>4, <1>5 DEF Next

LEMMA StutterKeeps ==
  ASSUME IndexInv, UNCHANGED vars
  PROVE  IndexInv' /\ Promotes(gens')
<1>1. UNCHANGED <<here, signedIn, chosen, shown, auto, size, calls, gens, locks, records, past>>
  BY DEF vars, page
<1>2. UNCHANGED page
  BY <1>1 DEF page
<1>3. records' \in [Items -> {"to come", "there", "deleted"}]
  BY <1>1 DEF IndexInv, Types
<1> QED
  BY <1>1, <1>2, <1>3, RecordsKeep

\* The inductive invariant of the page and the server holds.
THEOREM Invariant == Spec => []IndexInv
<1>1. IndexInv /\ [Next]_vars => IndexInv'
  BY StepKeeps, StutterKeeps
<1> QED
  BY <1>1, InitHolds, PTL DEF Spec

(* The page, its calls, the generations and their progress are always of    *)
(* their types, and at most one call is that of the loop the page knows of, *)
(* however the effect of the loop is run again (the cleanup of that effect).*)
THEOREM IndexTypes == Spec => []TypeOK
<1>1. IndexInv => TypeOK
  <2> SUFFICES ASSUME IndexInv PROVE TypeOK
    OBVIOUS
  <2>1. /\ {here, signedIn, auto} \subseteq BOOLEAN /\ chosen \in Models /\ size \in Sizes
        /\ shown.id \in Gens \union {0}
    BY DEF IndexInv, Types, PageTypes, Status
  <2>2. \A g \in Gens : /\ gens[g].status \in {"none", "BUILDING", "ACTIVE", "gone"}
                        /\ gens[g].done \in 0..Cardinality(Items)
    BY DEF IndexInv, Types, Generation
  <2>3. \A c \in Calls : /\ JobsHeld(calls[c]) \subseteq Items
                         /\ calls[c].current => calls[c].kind = "loop" /\ calls[c].page = "here"
    <3>1. ASSUME NEW c \in Calls PROVE calls[c] \in CallRecord /\ Sound(calls[c], gens, Won)
      BY DEF IndexInv, Types, Asked
    <3> QED
      BY <3>1 DEF CallRecord, JobsHeld, Sound
  <2>4. Cardinality({c \in Calls : calls[c].current}) <= 1
    <3> DEFINE L == {c \in Calls : calls[c].current}
    <3>1. \A c, d \in L : c = d
      BY DEF IndexInv, Asked, OneLoop
    <3>2. CASE L = {}
      BY <3>2, FS_EmptySet
    <3>3. CASE L # {}
      <4>1. PICK c : c \in L
        BY <3>3
      <4>2. L = {c}
        BY <3>1, <4>1
      <4> HIDE DEF L
      <4>3. Cardinality(L) = 1
        BY <4>2, FS_Singleton
      <4> QED
        BY <4>3 DEF L
    <3> QED
      BY <3>2, <3>3
  <2> QED
    BY <2>1, <2>2, <2>3, <2>4 DEF TypeOK
<1> QED
  BY <1>1, Invariant, PTL

(* While a batch embeds a record, no other one embeds it or is going to,    *)
(* unless a batch outlived its claim: with any number of loops, tabs and    *)
(* pages that were left, crashes, lost answers, and jobs that fail one by   *)
(* one under a batch, as their records are gone, and are claimed again      *)
(* while it goes on (the claim in process_batch, and _fail_job).            *)
THEOREM ClaimsAreExclusive == Spec => []OneHolder
<1>1. IndexInv => OneHolder
  <2> SUFFICES ASSUME IndexInv, NEW c \in Calls, NEW d \in Calls, c # d, calls[c].gen = calls[d].gen,
                      NEW i, i \in calls[c].found, i \in calls[d].todo \union calls[d].found
               PROVE  gens[calls[c].gen].outlived
    BY DEF OneHolder
  <2>1. i \in JobsHeld(calls[d]) /\ Owns(calls[c], i, records)
    BY DEF JobsHeld, Owns
  <2>2. i \in Items
    BY <2>1, HolderHasGeneration
  <2> QED
    BY <2>1, <2>2 DEF IndexInv, Holding, Alone
<1> QED
  BY <1>1, Invariant, PTL

(* The progress stored with a generation never exceeds what is completed,   *)
(* although each batch counts before it waits for the lock of the row in    *)
(* which it stores the number (the last statements of process_batch).       *)
THEOREM ProgressIsReal == Spec => []NeverOverstated
<1>1. IndexInv => NeverOverstated
  <2>1. \A g \in Gens : InState(g, {"completed"}) = Completed(gens, g)
    BY DEF InState, Completed
  <2> QED
    BY <2>1 DEF IndexInv, Progress, NeverOverstated
<1> QED
  BY <1>1, Invariant, PTL

(* A generation is activated only if at some time as many of its jobs were  *)
(* completed as the last scan had found records, and these were all of its  *)
(* jobs, unless a scan had found fewer records than there were jobs; or a   *)
(* batch of it outlived its claim.  That is so however old the status is    *)
(* from which the page offered to activate it (isReadyToActivate, which     *)
(* believes the stored progress), and whatever fails, comes or is deleted   *)
(* between the scans, the batches and the activation.                       *)
THEOREM OnlyBuiltIsActivated == Spec => ActivatesOnlyBuilt
<1>1. IndexInv /\ [Next]_vars =>
        [\A g \in Gens : gens[g].status # "ACTIVE" /\ gens'[g].status = "ACTIVE"
                         => \/ g \in built /\ (g \in complete \/ g \in recounted)
                            \/ gens[g].outlived]_vars
  <2> SUFFICES ASSUME IndexInv, Next
               PROVE  \A g \in Gens : gens[g].status # "ACTIVE" /\ gens'[g].status = "ACTIVE"
                                      => \/ g \in built /\ (g \in complete \/ g \in recounted)
                                         \/ gens[g].outlived
    OBVIOUS
  <2>1. Promotes(gens')
    BY StepKeeps
  <2> QED
    BY <2>1 DEF Promotes, Earned, Won
<1> QED
  BY <1>1, Invariant, PTL DEF Spec, ActivatesOnlyBuilt
=============================================================================
