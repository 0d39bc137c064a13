------------------------------ MODULE Tab_proofs ------------------------------
(***************************************************************************)
(* Proofs about the pages of Tab, for any number of sessions, runs, models,*)
(* logs, tools, rerankers, requests and failures.                          *)
(*                                                                         *)
(* The pages do not touch each other's state, so an invariant of one is    *)
(* proved for the steps of that page and carried over to the tab: see      *)
(* TabSteps.                                                               *)
(***************************************************************************)
EXTENDS Tab, FiniteSetTheorems, SequenceTheorems, TLAPS

\* A step of the tab is a step of every page, or leaves it alone.
LEMMA TabSteps ==
  ASSUME [TabNext]_tabVars
  PROVE  /\ [AccountNext]_accountVars /\ [RunsNext]_runsVars /\ [MenuNext]_menuVars
         /\ [FeedNext]_feedVars /\ [BenchNext]_benchVars /\ [SearchNext]_searchVars
         /\ [StatsNext]_statsVars
BY DEF TabNext, tabVars

LEMMA TabStarts ==
  ASSUME TabInit
  PROVE  /\ AccountInit /\ RunsInit /\ MenuInit /\ FeedInit
         /\ BenchInit /\ SearchInit /\ StatsInit
BY DEF TabInit

----------------------------------------------------------------------------
(* The live log.                                                           *)

Socket == [connecting : Nat, open : Nat, closing : Nat]
Rows   == Seq([log : Int, key : Int])

KeysBehind == \A k \in DOMAIN logs : logs[k].key < logSequence

FeedInv ==
  /\ sockets \in Socket /\ timers \in Nat /\ onFeed \in BOOLEAN
  /\ logs \in Rows /\ logSequence \in Int
  /\ recent.got \in Seq(Int) /\ written \in Nat /\ sent \in Int
  /\ KeysBehind
  /\ OneSocket /\ FeedKeysUnique

LEMMA FeedInitInv == FeedInit => FeedInv
<1> SUFFICES ASSUME FeedInit PROVE FeedInv
  OBVIOUS
<1>1. /\ sockets = NoSockets /\ timers = 0 /\ onFeed = FALSE
      /\ logs = <<>> /\ logSequence = 0 /\ recent = NoRecent /\ written = 1 /\ sent = 1
  BY DEF FeedInit
<1>2. OneSocket
  BY <1>1 DEF OneSocket, Live, NoSockets
<1>3. logs \in Rows /\ KeysBehind /\ FeedKeysUnique
  BY <1>1 DEF Rows, KeysBehind, FeedKeysUnique
<1>4. sockets \in Socket
  BY <1>1 DEF NoSockets, Socket
<1>5. recent.got = <<>>
  BY <1>1 DEF NoRecent
<1>6. <<>> \in Seq(Int)
  OBVIOUS
<1>7. recent.got \in Seq(Int)
  BY <1>5, <1>6, Zenon
<1>8. timers \in Nat /\ logSequence \in Int /\ written \in Nat /\ sent \in Int
  BY <1>1
<1>9. onFeed \in BOOLEAN
  BY <1>1, Zenon
<1> QED
  BY <1>2, <1>3, <1>4, <1>7, <1>8, <1>9 DEF FeedInv

LEMMA KeysAreNumbers ==
  ASSUME FeedInv
  PROVE  \A k \in DOMAIN logs : logs[k].key \in Int
<1>1. logs \in Seq([log : Int, key : Int])
  BY DEF FeedInv, Rows
<1> SUFFICES ASSUME NEW k \in DOMAIN logs PROVE logs[k].key \in Int
  OBVIOUS
<1>2. k \in 1..Len(logs)
  BY <1>1
<1>3. logs[k] \in [log : Int, key : Int]
  BY <1>1, <1>2, ElementOfSeq
<1> QED
  BY <1>3

\* Steps that leave the rows and their keys alone.
LEMMA SocketSteps ==
  ASSUME FeedInv,
         \/ LeaveFeed \/ RecentRead \/ RecentFails \/ SocketOpens \/ SocketError
         \/ SocketCloses \/ ConnectAgain \/ LogWritten \/ UNCHANGED feedVars
  PROVE  FeedInv'
<1>1. UNCHANGED <<logs, logSequence>>
  BY DEF LeaveFeed, RecentRead, RecentFails, SocketOpens, SocketError, SocketCloses,
         ConnectAgain, LogWritten, feedVars
<1>2. (logs \in Rows /\ logSequence \in Int /\ KeysBehind /\ FeedKeysUnique)'
  BY <1>1 DEF FeedInv, KeysBehind, FeedKeysUnique
<1>3. recent'.got \in Seq(Int) /\ written' \in Nat /\ sent' \in Int
  <2>1. CASE RecentRead
    <3> DEFINE newest == IF written > RecentLimit THEN RecentLimit ELSE written
    <3>1. newest \in Nat
      BY FeedAssumption DEF FeedInv
    <3>2. [k \in 1..newest |-> written + 1 - k] \in Seq(Int)
      <4> HIDE DEF newest
      <4>1. \A k \in 1..newest : written + 1 - k \in Int
        BY <3>1 DEF FeedInv
      <4>2. [k \in 1..newest |-> written + 1 - k] \in [1..newest -> Int]
        BY <4>1
      <4> QED
        BY <3>1, <4>2, SeqDef
    <3>3. recent'.got = [k \in 1..newest |-> written + 1 - k]
      BY <2>1 DEF RecentRead
    <3> HIDE DEF newest
    <3> QED
      BY <2>1, <3>2, <3>3 DEF FeedInv, RecentRead
  <2>2. CASE LeaveFeed \/ RecentFails
    <3>1. recent' = NoRecent /\ UNCHANGED <<written, sent>>
      BY <2>2 DEF LeaveFeed, RecentFails
    <3>2. recent'.got = <<>> /\ <<>> \in Seq(Int)
      BY <3>1 DEF NoRecent
    <3>3. recent'.got \in Seq(Int)
      BY <3>2, Zenon
    <3> QED
      BY <3>1, <3>3 DEF FeedInv
  <2>3. CASE UNCHANGED recent
    <3>1. sent' = sent /\ written' \in {written, written + 1}
      BY DEF LeaveFeed, RecentRead, RecentFails, SocketOpens, SocketError, SocketCloses,
             ConnectAgain, LogWritten, feedVars
    <3> QED
      BY <2>3, <3>1 DEF FeedInv
  <2> QED
    BY <2>1, <2>2, <2>3 DEF SocketOpens, SocketError, SocketCloses, ConnectAgain,
       LogWritten, feedVars
<1>4. (sockets \in Socket /\ timers \in Nat /\ onFeed \in BOOLEAN /\ OneSocket)'
  <2>0. /\ sockets \in Socket /\ timers \in Nat /\ onFeed \in BOOLEAN
        /\ sockets.connecting + sockets.open + sockets.closing + timers <= 1
    BY DEF FeedInv, OneSocket, Live
  <2>1. CASE UNCHANGED <<sockets, timers, onFeed>>
    BY <2>1 DEF FeedInv, OneSocket, Live
  <2>2. CASE LeaveFeed
    <3>1. /\ onFeed' = FALSE /\ timers' = 0
          /\ sockets' = [sockets EXCEPT !.connecting = 0, !.open = 0,
                                        !.closing = @ + Live]
      BY <2>2 DEF LeaveFeed
    <3>2. sockets' = [connecting |-> 0, open |-> 0, closing |-> sockets.closing + Live]
      BY <2>0, <3>1 DEF Socket
    <3>3. Live \in Nat /\ sockets.closing \in Nat /\ sockets.closing + Live <= 1
      BY <2>0 DEF Live, Socket
    <3>4. /\ sockets'.connecting = 0 /\ sockets'.open = 0
          /\ sockets'.closing = sockets.closing + Live
      BY <3>2
    <3>5. sockets' \in Socket
      BY <3>2, <3>3 DEF Socket
    <3>6. Live' = 0
      BY <3>4 DEF Live
    <3>7. onFeed' \in BOOLEAN
      BY <3>1, Zenon
    <3>8. OneSocket'
      BY <3>1, <3>3, <3>4, <3>6 DEF OneSocket
    <3> QED
      BY <3>1, <3>5, <3>7, <3>8
  <2>3. CASE SocketOpens
    <3>1. /\ sockets.connecting > 0 /\ UNCHANGED <<timers, onFeed>>
          /\ sockets' = [connecting |-> sockets.connecting - 1, open |-> sockets.open + 1,
                         closing |-> sockets.closing]
      BY <2>3 DEF SocketOpens, FeedInv, Socket
    <3> QED
      BY <3>1 DEF FeedInv, OneSocket, Live, Socket
  <2>4. CASE SocketError
    <3>1. CASE sockets["connecting"] > 0
               /\ sockets' = [sockets EXCEPT !["connecting"] = @ - 1, !.closing = @ + 1]
      <4>1. /\ sockets.connecting > 0 /\ UNCHANGED <<timers, onFeed>>
            /\ sockets' = [connecting |-> sockets.connecting - 1, open |-> sockets.open,
                           closing |-> sockets.closing + 1]
        BY <2>4, <3>1 DEF SocketError, FeedInv, Socket
      <4> QED
        BY <4>1 DEF FeedInv, OneSocket, Live, Socket
    <3>2. CASE sockets["open"] > 0
               /\ sockets' = [sockets EXCEPT !["open"] = @ - 1, !.closing = @ + 1]
      <4>1. /\ sockets.open > 0 /\ UNCHANGED <<timers, onFeed>>
            /\ sockets' = [connecting |-> sockets.connecting, open |-> sockets.open - 1,
                           closing |-> sockets.closing + 1]
        BY <2>4, <3>2 DEF SocketError, FeedInv, Socket
      <4> QED
        BY <4>1 DEF FeedInv, OneSocket, Live, Socket
    <3> QED
      BY <2>4, <3>1, <3>2 DEF SocketError
  <2>5. CASE SocketCloses
    BY <2>5 DEF SocketCloses, Reconnects, FeedInv, OneSocket, Live, Socket
  <2>6. CASE ConnectAgain
    BY <2>6 DEF ConnectAgain, FeedInv, OneSocket, Live, Socket
  <2> QED
    BY <2>1, <2>2, <2>3, <2>4, <2>5, <2>6
    DEF RecentRead, RecentFails, LogWritten, feedVars
<1> QED
  BY <1>2, <1>3, <1>4 DEF FeedInv

LEMMA FeedStep == FeedInv /\ [FeedNext]_feedVars => FeedInv'
<1> SUFFICES ASSUME FeedInv, [FeedNext]_feedVars PROVE FeedInv'
  OBVIOUS
<1>1. CASE OpenFeed
  <2>1. logs' = <<>> /\ logSequence' = 0
    BY <1>1 DEF OpenFeed
  <2>2. (logs \in Rows /\ KeysBehind /\ FeedKeysUnique)'
    BY <2>1 DEF Rows, KeysBehind, FeedKeysUnique
  <2>3. recent'.got = <<>> /\ written' \in Nat /\ sent' \in Int
    BY <1>1 DEF OpenFeed, FeedInv
  <2>4. (sockets \in Socket /\ timers \in Nat /\ onFeed \in BOOLEAN /\ OneSocket)'
    BY <1>1 DEF OpenFeed, NoSockets, FeedInv, OneSocket, Live, Socket
  <2> QED
    BY <2>1, <2>2, <2>3, <2>4 DEF FeedInv
<1>2. CASE ClearFeed
  <2>1. /\ logs' = <<>>
        /\ UNCHANGED <<logSequence, connected, sockets, timers, onFeed, recent, written, sent>>
    BY <1>2 DEF ClearFeed
  <2>2. (logs \in Rows /\ KeysBehind /\ FeedKeysUnique)'
    BY <2>1 DEF Rows, KeysBehind, FeedKeysUnique
  <2> QED
    BY <2>1, <2>2 DEF FeedInv, OneSocket, Live
<1>3. CASE LoadRecentLogs
  <2> DEFINE n == Len(recent.got)
             rows == [k \in DOMAIN recent.got |-> [log |-> recent.got[k],
                                                   key |-> logSequence + k - 1]]
  <2>1. n \in Nat /\ DOMAIN recent.got = 1..n
    BY DEF FeedInv
  <2>2. /\ logSequence' = logSequence + n
        /\ logs' = IF logs = <<>> THEN rows ELSE logs
        /\ recent' = NoRecent
        /\ UNCHANGED <<connected, sockets, timers, onFeed, written, sent>>
    BY <1>3 DEF LoadRecentLogs, NextKey
  <2>3. rows \in Rows
    BY <2>1 DEF Rows, FeedInv
  <2>4. (logs \in Rows /\ KeysBehind /\ FeedKeysUnique)'
    <3>1. CASE logs # <<>>
      <4>1. logs' = logs /\ logSequence' >= logSequence /\ logSequence' \in Int
        BY <2>1, <2>2, <3>1 DEF FeedInv
      <4>2. \A k \in DOMAIN logs : logs[k].key \in Int
        BY KeysAreNumbers
      <4> QED
        BY <4>1, <4>2 DEF FeedInv, KeysBehind, FeedKeysUnique
    <3>2. CASE logs = <<>>
      <4>1. logs' = rows
        BY <2>2, <3>2
      <4>2. DOMAIN rows = 1..n /\ \A k \in 1..n : rows[k].key = logSequence + k - 1
        BY <2>1
      <4> HIDE DEF rows, n
      <4>3. \A k \in 1..n : rows[k].key < logSequence + n
        BY <2>1, <4>2 DEF FeedInv
      <4>4. \A j, k \in 1..n : rows[j].key = rows[k].key => j = k
        BY <2>1, <4>2 DEF FeedInv
      <4> QED
        BY <2>2, <2>3, <4>1, <4>2, <4>3, <4>4 DEF KeysBehind, FeedKeysUnique
    <3> QED
      BY <3>1, <3>2
  <2> QED
    BY <2>1, <2>2, <2>4 DEF FeedInv, OneSocket, Live, NoRecent
<1>4. CASE LogArrives
  <2>1. UNCHANGED <<connected, sockets, timers, onFeed, recent, written>> /\ sent' \in Int
    BY <1>4 DEF LogArrives, FeedInv
  <2>2. (logs \in Rows /\ logSequence \in Int /\ KeysBehind /\ FeedKeysUnique)'
    <3>1. CASE UNCHANGED <<logs, logSequence>>
      BY <3>1 DEF FeedInv, KeysBehind, FeedKeysUnique
    <3>2. CASE logs' = Appended(logs, [log |-> sent', key |-> logSequence])
               /\ logSequence' = NextKey(1)
      <4> DEFINE from == IF Len(logs) > MaxLiveLogsBuffer
                         THEN Len(logs) - MaxLiveLogsBuffer + 1 ELSE 1
                 kept == SubSeq(logs, from, Len(logs))
                 row  == [log |-> sent', key |-> logSequence]
      <4>1. Len(logs) \in Nat /\ MaxLiveLogsBuffer \in Nat /\ MaxLiveLogsBuffer > 0
        BY FeedAssumption DEF FeedInv, Rows
      <4>2. from \in 1..Len(logs) + 1
        BY <4>1
      <4> HIDE DEF from
      <4>3. /\ kept \in Rows /\ Len(kept) = Len(logs) - from + 1
            /\ \A k \in 1..Len(kept) : /\ kept[k] = logs[from + k - 1]
                                       /\ from + k - 1 \in 1..Len(logs)
        <5>1. logs \in Seq([log : Int, key : Int])
          BY DEF FeedInv, Rows
        <5>2. \A k \in from..Len(logs) : logs[k] \in [log : Int, key : Int]
          <6> SUFFICES ASSUME NEW k \in from..Len(logs)
                       PROVE  logs[k] \in [log : Int, key : Int]
            OBVIOUS
          <6>1. k \in 1..Len(logs)
            BY <4>1, <4>2
          <6> QED
            BY <5>1, <6>1, ElementOfSeq
        <5>3. kept \in Seq([log : Int, key : Int])
          BY <4>1, <4>2, <5>1, <5>2, SubSeqProperties
        <5>4. Len(kept) = Len(logs) - from + 1
          BY <4>1, <4>2, <5>1, SubSeqProperties
        <5>5. \A k \in 1..Len(kept) : from + k - 1 \in 1..Len(logs)
          BY <4>1, <4>2, <5>4
        <5>6. \A k \in 1..Len(kept) : kept[k] = logs[from + k - 1]
          BY <4>1, <4>2, <5>1, <5>4, SubSeqProperties
        <5> QED
          BY <5>3, <5>4, <5>5, <5>6 DEF Rows
      <4>4. logs' = Append(kept, row) /\ logSequence' = logSequence + 1
        BY <3>2 DEF Appended, NextKey, kept, from
      <4>5. row \in [log : Int, key : Int] /\ row.key = logSequence
        BY <2>1 DEF FeedInv
      <4> HIDE DEF kept, row
      <4>6. /\ logs' \in Rows /\ DOMAIN logs' = 1..Len(kept) + 1
            /\ logs'[Len(kept) + 1] = row
            /\ \A k \in 1..Len(kept) : logs'[k] = kept[k]
        BY <4>3, <4>4, <4>5 DEF Rows
      <4>7. Len(kept) \in Nat
        BY <4>3 DEF Rows
      <4>8. DOMAIN logs = 1..Len(logs)
        BY DEF FeedInv, Rows
      <4>9. \A k \in 1..Len(kept) : logs'[k].key = logs[from + k - 1].key
                                    /\ logs'[k].key < logSequence /\ logs'[k].key \in Int
        <5> SUFFICES ASSUME NEW k \in 1..Len(kept)
                     PROVE  /\ logs'[k].key = logs[from + k - 1].key
                            /\ logs'[k].key < logSequence /\ logs'[k].key \in Int
          OBVIOUS
        <5>1. from + k - 1 \in DOMAIN logs /\ logs'[k] = logs[from + k - 1]
          BY <4>3, <4>6, <4>8
        <5>2. \A i \in DOMAIN logs : logs[i].key \in Int /\ logs[i].key < logSequence
          BY KeysAreNumbers DEF FeedInv, KeysBehind
        <5> QED
          BY <5>1, <5>2
      <4>10. KeysBehind'
        <5> SUFFICES ASSUME NEW k \in DOMAIN logs' PROVE logs'[k].key < logSequence'
          BY DEF KeysBehind
        <5>1. CASE k = Len(kept) + 1
          BY <5>1, <4>4, <4>5, <4>6 DEF FeedInv
        <5>2. CASE k \in 1..Len(kept)
          BY <5>2, <4>4, <4>9 DEF FeedInv
        <5> QED
          BY <4>6, <4>7, <5>1, <5>2
      <4>11. FeedKeysUnique'
        <5> SUFFICES ASSUME NEW j \in DOMAIN logs', NEW k \in DOMAIN logs',
                            logs'[j].key = logs'[k].key
                     PROVE  j = k
          BY DEF FeedKeysUnique
        <5>1. CASE j \in 1..Len(kept) /\ k \in 1..Len(kept)
          <6>1. from + j - 1 = from + k - 1
            BY <5>1, <4>3, <4>8, <4>9 DEF FeedInv, FeedKeysUnique
          <6> QED
            BY <6>1, <5>1, <4>2, <4>1, <4>7
        <5>2. CASE j = Len(kept) + 1 /\ k \in 1..Len(kept)
          BY <5>2, <4>5, <4>6, <4>9 DEF FeedInv
        <5>3. CASE k = Len(kept) + 1 /\ j \in 1..Len(kept)
          BY <5>3, <4>5, <4>6, <4>9 DEF FeedInv
        <5> QED
          BY <4>6, <4>7, <5>1, <5>2, <5>3
      <4> QED
        BY <4>4, <4>6, <4>10, <4>11 DEF FeedInv
    <3> QED
      BY <1>4, <3>1, <3>2 DEF LogArrives
  <2> QED
    BY <2>1, <2>2 DEF FeedInv, OneSocket, Live
<1> QED
  BY <1>1, <1>2, <1>3, <1>4, SocketSteps DEF FeedNext

\* The live log page has at most one connection or a timer for one, never both, and none
\* of them outlives the page, however errors, closes and visits follow each other.
THEOREM OneConnection == TabSpec => []OneSocket
<1>1. FeedInv => OneSocket
  BY DEF FeedInv
<1>2. TabInit => FeedInv
  BY TabStarts, FeedInitInv
<1>3. FeedInv /\ [TabNext]_tabVars => FeedInv'
  BY TabSteps, FeedStep
<1> QED
  BY <1>1, <1>2, <1>3, PTL DEF TabSpec

\* No two rows of the live log have the same key, whatever the request and the socket
\* bring in which order, and whatever is cut off or cleared.
THEOREM KeysApart == TabSpec => []FeedKeysUnique
<1>1. FeedInv => FeedKeysUnique
  BY DEF FeedInv
<1>2. TabInit => FeedInv
  BY TabStarts, FeedInitInv
<1>3. FeedInv /\ [TabNext]_tabVars => FeedInv'
  BY TabSteps, FeedStep
<1> QED
  BY <1>1, <1>2, <1>3, PTL DEF TabSpec

----------------------------------------------------------------------------
(* The backup runs.                                                        *)

Formed(q) == DOMAIN q = {"op", "n", "runs", "page", "try", "at", "got", "mine"}

\* Every submission has one request at most, a creation or the read that follows it.
Numbered ==
  /\ \A q \in requests : Formed(q) /\ q.n \in 1..submits
  /\ \A q, r \in requests : q.n = r.n => q = r

Waiting(q) == q.op = "create" /\ q.at = "out"

\* Submissions whose creation has not been served yet.
Pending == {n \in 1..submits : \E q \in requests : q.n = n /\ Waiting(q)}

Counted == fixCount + Cardinality(Pending) <= Cardinality(FixedBefore) + submits

RunsInv == submits \in Nat /\ fixCount \in Int /\ Numbered /\ Counted

LEMMA PendingFinite ==
  ASSUME submits \in Nat
  PROVE  IsFiniteSet(Pending) /\ Cardinality(Pending) \in Nat
<1>1. IsFiniteSet(1..submits)
  BY FS_Interval
<1>2. Pending \subseteq 1..submits
  BY DEF Pending
<1> QED
  BY <1>1, <1>2, FS_Subset, FS_CardinalityType

LEMMA FixedBeforeFinite == Cardinality(FixedBefore) \in Nat
<1>1. IsFiniteSet({2})
  BY FS_Singleton
<1>2. FixedBefore \subseteq {2}
  BY DEF FixedBefore
<1> QED
  BY <1>1, <1>2, FS_Subset, FS_CardinalityType

LEMMA RunsInitInv == RunsInit => RunsInv
<1> SUFFICES ASSUME RunsInit PROVE RunsInv
  OBVIOUS
<1>1. requests = {} /\ submits = 0 /\ fixCount = Cardinality(FixedBefore)
  BY DEF RunsInit
<1>2. Pending = {}
  BY <1>1 DEF Pending
<1>3. Cardinality(Pending) = 0
  BY <1>2, FS_EmptySet
<1> QED
  BY <1>1, <1>3, FixedBeforeFinite DEF RunsInv, Numbered, Counted

\* With fewer submissions waiting, or the same, the count still holds.
LEMMA FewerPending ==
  ASSUME RunsInv, UNCHANGED <<submits, fixCount>>, Numbered', Pending' \subseteq Pending
  PROVE  RunsInv'
<1>1. IsFiniteSet(Pending) /\ Cardinality(Pending) \in Nat
  BY PendingFinite DEF RunsInv
<1>2. Cardinality(Pending') \in Nat /\ Cardinality(Pending') <= Cardinality(Pending)
  BY <1>1, FS_Subset, FS_CardinalityType
<1>3. FixedBefore' = FixedBefore
  BY DEF FixedBefore, Runs
<1> QED
  BY <1>1, <1>2, <1>3, FixedBeforeFinite DEF RunsInv, Counted

LEMMA FewerRequests ==
  ASSUME RunsInv, UNCHANGED <<submits, fixCount>>, requests' \subseteq requests
  PROVE  RunsInv'
<1>1. Numbered'
  BY DEF RunsInv, Numbered
<1>2. Pending' \subseteq Pending
  BY DEF Pending
<1> QED
  BY <1>1, <1>2, FewerPending

\* A request moves on.
LEMMA Replaced ==
  ASSUME RunsInv, NEW q \in requests, NEW r, Formed(r), r.n = q.n,
         requests' = (requests \ {q}) \cup {r}, UNCHANGED submits,
         Waiting(r) => Waiting(q)
  PROVE  /\ Numbered'
         /\ Pending' \subseteq Pending
         /\ ~Waiting(r) => Pending' = Pending \ {q.n}
<1>1. Numbered'
  BY DEF RunsInv, Numbered
<1>2. \A x \in requests' : x = r \/ (x \in requests /\ x # q /\ x.n # q.n)
  BY DEF RunsInv, Numbered
<1>3. Pending' \subseteq Pending
  BY <1>2 DEF Pending
<1>4. ASSUME ~Waiting(r) PROVE Pending' = Pending \ {q.n}
  <2>1. Pending' \subseteq Pending \ {q.n}
    BY <1>2, <1>3, <1>4 DEF Pending
  <2>2. Pending \ {q.n} \subseteq Pending'
    BY DEF Pending
  <2> QED
    BY <2>1, <2>2
<1> QED
  BY <1>1, <1>3, <1>4

LEMMA Submitting ==
  ASSUME RunsInv, HandleCreateFixSubmit
  PROVE  RunsInv'
<1>1. CASE ~(Submits /\ formTitle)
  <2>1. UNCHANGED <<requests, submits, fixCount>>
    BY <1>1 DEF HandleCreateFixSubmit
  <2> QED
    BY <2>1, FewerRequests
<1>2. CASE Submits /\ formTitle
  <2> DEFINE r == [op |-> "create", n |-> submits', runs |-> formAffected,
                   page |-> sheet.page, try |-> 0, at |-> "out", got |-> NoSheet,
                   mine |-> TRUE]
  <2>1. requests' = requests \cup {r} /\ submits' = submits + 1 /\ UNCHANGED fixCount
    BY <1>2 DEF HandleCreateFixSubmit
  <2>2. Formed(r) /\ r.n = submits + 1 /\ Waiting(r)
    BY <2>1 DEF Formed, Waiting
  <2> HIDE DEF r
  <2>3. submits \in Nat /\ \A q \in requests : q.n \in 1..submits /\ q.n # submits + 1
    BY DEF RunsInv, Numbered
  <2>4. Numbered'
    BY <2>1, <2>2, <2>3 DEF RunsInv, Numbered
  <2>5. Pending' = Pending \cup {submits + 1} /\ submits + 1 \notin Pending
    BY <2>1, <2>2, <2>3 DEF Pending
  <2>6. IsFiniteSet(Pending) /\ Cardinality(Pending) \in Nat
    BY <2>3, PendingFinite
  <2>7. Cardinality(Pending') = Cardinality(Pending) + 1
    BY <2>5, <2>6, FS_AddElement
  <2>8. FixedBefore' = FixedBefore
    BY DEF FixedBefore, Runs
  <2> QED
    BY <2>1, <2>3, <2>4, <2>6, <2>7, <2>8, FixedBeforeFinite DEF RunsInv, Counted
<1> QED
  BY <1>1, <1>2 DEF HandleCreateFixSubmit

LEMMA Serving ==
  ASSUME RunsInv, NEW q \in requests, Serve(q)
  PROVE  RunsInv'
<1>1. Formed(q)
  BY DEF RunsInv, Numbered
<1>2. CASE q.op = "create"
  <2> DEFINE r == [q EXCEPT !.at = "ok"]
  <2>1. Formed(r) /\ r.n = q.n /\ r.at = "ok"
    BY <1>1 DEF Formed
  <2>2. ~Waiting(r)
    BY <2>1 DEF Waiting
  <2>3. /\ requests' = (requests \ {q}) \cup {r} /\ fixCount' = fixCount + 1
        /\ UNCHANGED submits
    BY <1>2 DEF Serve
  <2> HIDE DEF r
  <2>4. Numbered' /\ Pending' = Pending \ {q.n}
    BY <2>1, <2>2, <2>3, Replaced
  <2>5. q.n \in Pending
    BY <1>2 DEF Serve, Pending, Waiting, RunsInv, Numbered
  <2>6. IsFiniteSet(Pending) /\ Cardinality(Pending) \in Nat
    BY PendingFinite DEF RunsInv
  <2>7. Cardinality(Pending') = Cardinality(Pending) - 1
    BY <2>4, <2>5, <2>6, FS_RemoveElement
  <2>8. FixedBefore' = FixedBefore
    BY DEF FixedBefore, Runs
  <2> QED
    BY <2>3, <2>4, <2>6, <2>7, <2>8, FixedBeforeFinite DEF RunsInv, Counted
<1>3. CASE q.op # "create"
  <2> DEFINE r == [q EXCEPT !.at = "ok", !.got = ReadOf(q.page)]
  <2>1. Formed(r) /\ r.n = q.n /\ r.at = "ok"
    BY <1>1 DEF Formed
  <2>2. ~Waiting(r)
    BY <2>1 DEF Waiting
  <2>3. /\ requests' = (requests \ {q}) \cup {r}
        /\ UNCHANGED <<submits, fixCount>>
    BY <1>3 DEF Serve
  <2> HIDE DEF r
  <2> QED
    BY <2>1, <2>2, <2>3, Replaced, FewerPending
<1> QED
  BY <1>2, <1>3

LEMMA Glitching ==
  ASSUME RunsInv, NEW q \in requests, Glitch(q)
  PROVE  RunsInv'
<1>1. Formed(q)
  BY DEF RunsInv, Numbered
<1>2. UNCHANGED <<submits, fixCount>>
  BY DEF Glitch
<1>3. CASE TriesAgain(q)
  <2> DEFINE r == [q EXCEPT !.try = @ + 1, !.at = "out", !.got = NoSheet]
  <2>1. Formed(r) /\ r.n = q.n /\ r.op = "read"
    BY <1>1, <1>3 DEF Formed, TriesAgain
  <2>2. ~Waiting(r)
    BY <2>1 DEF Waiting
  <2>3. requests' = (requests \ {q}) \cup {r}
    BY <1>3 DEF Glitch
  <2> HIDE DEF r
  <2> QED
    BY <1>2, <2>1, <2>2, <2>3, Replaced, FewerPending
<1>4. CASE ~TriesAgain(q)
  <2> DEFINE r == [q EXCEPT !.at = "failed", !.got = NoSheet]
  <2>1. Formed(r) /\ r.n = q.n /\ r.at = "failed"
    BY <1>1 DEF Formed
  <2>2. ~Waiting(r)
    BY <2>1 DEF Waiting
  <2>3. requests' = (requests \ {q}) \cup {r}
    BY <1>4 DEF Glitch
  <2> HIDE DEF r
  <2> QED
    BY <1>2, <2>1, <2>2, <2>3, Replaced, FewerPending
<1> QED
  BY <1>3, <1>4

LEMMA Saving ==
  ASSUME RunsInv, NEW q \in requests, Saved(q)
  PROVE  RunsInv'
<1>1. UNCHANGED <<submits, fixCount>>
  BY DEF Saved
<1>2. CASE q.at = "ok"
  <2> DEFINE r == [q EXCEPT !.op = "read", !.at = "out", !.try = 0]
  <2>1. Formed(q)
    BY DEF RunsInv, Numbered
  <2>2. Formed(r) /\ r.n = q.n /\ r.op = "read"
    BY <2>1 DEF Formed
  <2>3. ~Waiting(r)
    BY <2>2 DEF Waiting
  <2>4. requests' = (requests \ {q}) \cup {r}
    BY <1>2 DEF Saved
  <2> HIDE DEF r
  <2> QED
    BY <1>1, <2>2, <2>3, <2>4, Replaced, FewerPending
<1>3. CASE q.at # "ok"
  <2>1. requests' \subseteq requests
    BY <1>3 DEF Saved
  <2> QED
    BY <1>1, <2>1, FewerRequests
<1> QED
  BY <1>2, <1>3

LEMMA Unmounting ==
  ASSUME RunsInv, Unmounted
  PROVE  RunsInv'
<1> DEFINE left(q) == [q EXCEPT !.mine = FALSE]
<1>1. requests' = {left(q) : q \in requests} /\ UNCHANGED <<submits, fixCount>>
  BY DEF Unmounted
<1>2. \A q \in requests : /\ Formed(left(q)) /\ left(q).n = q.n
                          /\ left(q).op = q.op /\ left(q).at = q.at
  BY DEF Formed, RunsInv, Numbered
<1> HIDE DEF left
<1>3. Numbered'
  BY <1>1, <1>2 DEF RunsInv, Numbered
<1>4. Pending' \subseteq Pending
  BY <1>1, <1>2 DEF Pending, Waiting
<1> QED
  BY <1>1, <1>3, <1>4, FewerPending

LEMMA RunsStep == RunsInv /\ [RunsNext]_runsVars => RunsInv'
<1> SUFFICES ASSUME RunsInv, [RunsNext]_runsVars PROVE RunsInv'
  OBVIOUS
<1>1. ASSUME NEW q \in requests, FetchPage(q) \/ Missed(q) PROVE RunsInv'
  <2>1. requests' \subseteq requests /\ UNCHANGED <<submits, fixCount>>
    BY <1>1 DEF FetchPage, Missed
  <2> QED
    BY <2>1, FewerRequests
<1>2. CASE UNCHANGED <<requests, submits, fixCount>>
  BY <1>2, FewerRequests
<1>3. CASE Progress
  BY <1>1, <1>3, Serving, Saving DEF Progress
<1>4. CASE \E q \in requests : Glitch(q)
  BY <1>4, Glitching
<1>5. CASE Unmounted \/ HandleCreateFixSubmit
  BY <1>5, Unmounting, Submitting
<1>6. CASE Rendered \/ Synced \/ RenderFails \/ CloseDetails \/ EditFix \/ CloseCreateFix
           \/ TypeTitle
  BY <1>2, <1>6 DEF Rendered, Synced, RenderFails, CloseDetails, EditFix, CloseCreateFix,
                    TypeTitle
<1>7. CASE \E r \in Runs : OpenCreateFix(r) \/ OpenDetails(r) \/ ToggleAffectedRun(r)
  BY <1>2, <1>7 DEF OpenCreateFix, OpenDetails, ToggleAffectedRun
<1>8. CASE \E p \in Pages : HandlePage(p)
  BY <1>2, <1>8 DEF HandlePage
<1>9. CASE UNCHANGED runsVars
  BY <1>2, <1>9 DEF runsVars
<1> QED
  BY <1>3, <1>4, <1>5, <1>6, <1>7, <1>8, <1>9 DEF RunsNext, Routing

\* However many requests and answers are lost, and whatever is retried, the database
\* never has more fixes than were there and were submitted.
THEOREM FixesLoggedOnce == TabSpec => []LoggedOnce
<1>1. RunsInv => LoggedOnce
  <2> SUFFICES ASSUME RunsInv PROVE LoggedOnce
    OBVIOUS
  <2>1. Cardinality(Pending) \in Nat
    BY PendingFinite DEF RunsInv
  <2> QED
    BY <2>1, FixedBeforeFinite DEF RunsInv, Counted, LoggedOnce
<1>2. TabInit => RunsInv
  BY TabStarts, RunsInitInv
<1>3. RunsInv /\ [TabNext]_tabVars => RunsInv'
  BY TabSteps, RunsStep
<1> QED
  BY <1>1, <1>2, <1>3, PTL DEF TabSpec

----------------------------------------------------------------------------
(* The model menu.                                                         *)

\* Every visit has at most one request, and as long as it is awaited the visit has
\* neither models nor a choice.
MenuInv ==
  /\ chatVisit \in Nat
  /\ \A q \in lookups : DOMAIN q = {"visit", "at", "got"} /\ q.visit \in Nat
                        /\ q.visit <= chatVisit
  /\ \A p, q \in lookups : p.visit = q.visit => p = q
  /\ \A q \in lookups : onChat /\ q.visit = chatVisit => models = {} /\ selectedModel = 0
  /\ SelectedOffered

LEMMA MenuInitInv == MenuInit => MenuInv
BY DEF MenuInit, MenuInv, SelectedOffered

LEMMA MenuStep == MenuInv /\ [MenuNext]_menuVars => MenuInv'
<1> SUFFICES ASSUME MenuInv, [MenuNext]_menuVars PROVE MenuInv'
  OBVIOUS
<1>1. CASE OpenChat
  <2> DEFINE r == [visit |-> chatVisit', at |-> "out", got |-> {}]
  <2>1. /\ chatVisit' = chatVisit + 1 /\ lookups' = lookups \cup {r}
        /\ models' = {} /\ selectedModel' = 0
    BY <1>1 DEF OpenChat
  <2>2. r.visit = chatVisit + 1 /\ DOMAIN r = {"visit", "at", "got"}
    BY <2>1
  <2> HIDE DEF r
  <2> QED
    BY <2>1, <2>2 DEF MenuInv, SelectedOffered
<1>2. CASE \E q \in lookups : ModelsOffered(q)
  <2>1. PICK q \in lookups : ModelsOffered(q)
    BY <1>2
  <2>2. PICK offered : lookups' = (lookups \ {q}) \cup {[q EXCEPT !.at = "ok", !.got = offered]}
    BY <2>1 DEF ModelsOffered
  <2> DEFINE r == [q EXCEPT !.at = "ok", !.got = offered]
  <2>3. r.visit = q.visit /\ DOMAIN r = {"visit", "at", "got"}
    BY DEF MenuInv
  <2>4. lookups' = (lookups \ {q}) \cup {r}
    BY <2>2
  <2>5. UNCHANGED <<models, selectedModel, chatVisit, onChat>>
    BY <2>1 DEF ModelsOffered
  <2> HIDE DEF r
  <2> QED
    BY <2>3, <2>4, <2>5 DEF MenuInv, SelectedOffered
<1>3. CASE \E q \in lookups : FetchModels(q)
  <2>1. PICK q \in lookups : FetchModels(q)
    BY <1>3
  <2>2. lookups' = lookups \ {q} /\ UNCHANGED <<chatVisit, onChat>>
    BY <2>1 DEF FetchModels
  <2>3. CASE onChat /\ q.visit = chatVisit
    <3>1. \A p \in lookups' : p.visit # chatVisit
      BY <2>2, <2>3 DEF MenuInv
    <3>2. PICK first \in IF q.got = {} THEN {0} ELSE q.got :
            /\ models' = q.got
            /\ selectedModel' = CASE q.got = {}                  -> selectedModel
                                  [] TakesOver(Recalled, q.got)  -> Recalled
                                  [] OTHER                       -> first
      BY <2>1, <2>3 DEF FetchModels
    <3>3. CASE q.got = {}
      <4>1. selectedModel' = selectedModel \/ selectedModel' = Recalled
        BY <3>2, <3>3 DEF TakesOver
      <4>2. selectedModel = 0
        BY <2>3 DEF MenuInv
      <4>3. selectedModel' = 0
        BY <3>2, <3>3, <4>2 DEF TakesOver
      <4> QED
        BY <2>2, <3>1, <4>3 DEF MenuInv, SelectedOffered
    <3>4. CASE q.got # {}
      <4>1. selectedModel' \in q.got
        BY <3>2, <3>4 DEF TakesOver
      <4> QED
        BY <2>2, <3>1, <3>2, <4>1 DEF MenuInv, SelectedOffered
    <3> QED
      BY <3>3, <3>4
  <2>4. CASE ~(onChat /\ q.visit = chatVisit)
    <3>1. UNCHANGED <<models, selectedModel>>
      BY <2>1, <2>4 DEF FetchModels
    <3> QED
      BY <2>2, <3>1 DEF MenuInv, SelectedOffered
  <2> QED
    BY <2>3, <2>4
<1>4. CASE \E m \in Models : OnSelectModel(m)
  <2>1. PICK m \in Models : OnSelectModel(m)
    BY <1>4
  <2>2. m \in models /\ selectedModel' = m /\ UNCHANGED <<models, chatVisit, onChat, lookups>>
    BY <2>1 DEF OnSelectModel, FilteredModels
  <2> QED
    BY <2>1, <2>2 DEF OnSelectModel, MenuInv, SelectedOffered
<1>5. CASE LeaveChat
  BY <1>5 DEF LeaveChat, MenuInv, SelectedOffered
<1>6. CASE UNCHANGED <<models, selectedModel, chatVisit, onChat, lookups>>
  BY <1>6 DEF MenuInv, SelectedOffered
<1> QED
  BY <1>1, <1>2, <1>3, <1>4, <1>5, <1>6
  DEF MenuNext, ToggleMenu, CloseMenu, SearchModels, Sending, menuVars

\* A question is never sent with a remembered model that this visit was not offered,
\* whatever answers of earlier visits come in between.
THEOREM OnlyOffered == TabSpec => []SelectedOffered
<1>1. MenuInv => SelectedOffered
  BY DEF MenuInv
<1>2. TabInit => MenuInv
  BY TabStarts, MenuInitInv
<1>3. MenuInv /\ [TabNext]_tabVars => MenuInv'
  BY TabSteps, MenuStep
<1> QED
  BY <1>1, <1>2, <1>3, PTL DEF TabSpec

----------------------------------------------------------------------------
(* The tools page.                                                         *)

\* An execution under way is the latest and the only one; without one, a result on the
\* page is that of the latest.
BenchInv ==
  /\ executions \in Nat
  /\ \A r \in runs : DOMAIN r = {"n", "tool", "at"} /\ r.n = executions /\ isExecuting
  /\ \A r, s \in runs : r = s
  /\ ResultIsLatest

LEMMA BenchInitInv == BenchInit => BenchInv
BY DEF BenchInit, BenchInv, ResultIsLatest

LEMMA BenchStep == BenchInv /\ [BenchNext]_benchVars => BenchInv'
<1> SUFFICES ASSUME BenchInv, [BenchNext]_benchVars PROVE BenchInv'
  OBVIOUS
<1>1. CASE HandleExecute
  <2>1. CASE signedIn /\ argsJson.parses
    <3> DEFINE r == [n |-> executions', tool |-> selectedTool, at |-> "out"]
    <3>1. /\ executions' = executions + 1 /\ isExecuting' = TRUE
          /\ runs' = runs \cup {r} /\ ~isExecuting
      BY <1>1, <2>1 DEF HandleExecute, ExecuteOn
    <3>2. r.n = executions' /\ DOMAIN r = {"n", "tool", "at"}
      OBVIOUS
    <3> HIDE DEF r
    <3>3. runs = {}
      BY <3>1 DEF BenchInv
    <3> QED
      BY <3>1, <3>2, <3>3 DEF BenchInv, ResultIsLatest
  <2>2. CASE ~(signedIn /\ argsJson.parses)
    <3>1. executionResult' = -1 /\ UNCHANGED <<executions, isExecuting, runs>>
      BY <1>1, <2>2 DEF HandleExecute
    <3> QED
      BY <3>1 DEF BenchInv, ResultIsLatest
  <2> QED
    BY <2>1, <2>2
<1>2. CASE \E r \in runs : ToolRuns(r)
  <2>1. PICK r \in runs : ToolRuns(r)
    BY <1>2
  <2> DEFINE done == [r EXCEPT !.at = "ok"]
  <2>2. /\ runs' = (runs \ {r}) \cup {done}
        /\ UNCHANGED <<executions, isExecuting, executionResult>>
    BY <2>1 DEF ToolRuns
  <2>3. done.n = r.n /\ DOMAIN done = {"n", "tool", "at"}
    BY DEF BenchInv
  <2> HIDE DEF done
  <2>4. runs' = {done}
    BY <2>2 DEF BenchInv
  <2> QED
    BY <2>2, <2>3, <2>4 DEF BenchInv, ResultIsLatest
<1>3. CASE \E r \in runs : ToolAnswers(r)
  <2>1. PICK r \in runs : ToolAnswers(r)
    BY <1>3
  <2>2. runs' = runs \ {r} /\ executionResult' = r.n /\ UNCHANGED executions
    BY <2>1 DEF ToolAnswers
  <2>3. runs' = {}
    BY <2>2 DEF BenchInv
  <2> QED
    BY <2>2, <2>3 DEF BenchInv, ResultIsLatest
<1>4. CASE \E t \in Tools : HandleToolSelect(t)
  <2>1. executionResult' = 0 /\ UNCHANGED <<executions, isExecuting, runs>>
    BY <1>4 DEF HandleToolSelect
  <2> QED
    BY <2>1 DEF BenchInv, ResultIsLatest
<1>5. CASE UNCHANGED <<executions, isExecuting, runs, executionResult>>
  BY <1>5 DEF BenchInv, ResultIsLatest
<1>6. CASE \E l \in loads : ToolsListed(l) \/ LoadTools(l)
  BY <1>5, <1>6 DEF ToolsListed, LoadTools
<1> QED
  BY <1>1, <1>2, <1>3, <1>4, <1>5, <1>6
  DEF BenchNext, OpenTools, Refresh, EditArgs, SignInOrOut, Loading, Executing, benchVars

\* A result on the tools page is that of the latest execution once none is under way.
THEOREM LatestResult == TabSpec => []ResultIsLatest
<1>1. BenchInv => ResultIsLatest
  BY DEF BenchInv
<1>2. TabInit => BenchInv
  BY TabStarts, BenchInitInv
<1>3. BenchInv /\ [TabNext]_tabVars => BenchInv'
  BY TabSteps, BenchStep
<1> QED
  BY <1>1, <1>2, <1>3, PTL DEF TabSpec

----------------------------------------------------------------------------
(* The search playground.                                                  *)

\* A search under way is the latest and the only one.  An error is the latest search's,
\* and so are results that nothing hides.
SearchInv ==
  /\ searches \in Nat /\ searchError \in Nat
  /\ \A s \in searching : /\ DOMAIN s = {"n", "mode", "at", "rerank"}
                          /\ s.n = searches /\ s.n > 0 /\ isSearching
  /\ \A r, s \in searching : r = s
  /\ searchError # 0 => searchError = searches
  /\ searchResults.any /\ ~isSearching /\ searchError = 0 => searchResults.n = searches

LEMMA SearchInitInv == SearchInit => SearchInv
BY DEF SearchInit, SearchInv

LEMMA SearchStep == SearchInv /\ [SearchNext]_searchVars => SearchInv'
<1> SUFFICES ASSUME SearchInv, [SearchNext]_searchVars PROVE SearchInv'
  OBVIOUS
<1>1. CASE UNCHANGED <<searches, searchError, searching, isSearching, searchResults>>
  BY <1>1 DEF SearchInv
<1>2. CASE HandleSearch
  <2>1. CASE hasAuth
    <3> DEFINE s == [n |-> searches', mode |-> searchMode, at |-> "out",
                     rerank |-> IF enableRerank THEN selectedRerank ELSE NoReranker]
    <3>1. /\ searches' = searches + 1 /\ isSearching' = TRUE /\ searchError' = 0
          /\ searching' = searching \cup {s} /\ ~isSearching
      BY <1>2, <2>1 DEF HandleSearch, SearchOn
    <3>2. s.n = searches' /\ DOMAIN s = {"n", "mode", "at", "rerank"}
      OBVIOUS
    <3> HIDE DEF s
    <3>3. searching = {}
      BY <3>1 DEF SearchInv
    <3> QED
      BY <3>1, <3>2, <3>3 DEF SearchInv
  <2>2. CASE ~hasAuth
    BY <1>1, <1>2, <2>2 DEF HandleSearch, panel
  <2> QED
    BY <2>1, <2>2
<1>3. CASE \E s \in searching : SearchServed(s)
  <2>1. PICK s \in searching : SearchServed(s)
    BY <1>3
  <2>2. PICK at : searching' = (searching \ {s}) \cup {[s EXCEPT !.at = at]}
    BY <2>1 DEF SearchServed
  <2> DEFINE r == [s EXCEPT !.at = at]
  <2>3. UNCHANGED <<isSearching, searchResults, searchError, searches>>
    BY <2>1 DEF SearchServed
  <2>4. r.n = s.n /\ DOMAIN r = {"n", "mode", "at", "rerank"}
    BY DEF SearchInv
  <2>5. searching' = {r}
    BY <2>2 DEF SearchInv
  <2> HIDE DEF r
  <2> QED
    BY <2>3, <2>4, <2>5 DEF SearchInv
<1>4. CASE \E s \in searching : SearchAnswered(s)
  <2>1. PICK s \in searching : SearchAnswered(s)
    BY <1>4
  <2>2. searching' = searching \ {s} /\ isSearching' = FALSE /\ UNCHANGED searches
    BY <2>1 DEF SearchAnswered
  <2>3. searching' = {} /\ s.n = searches /\ s.n > 0
    BY <2>2 DEF SearchInv
  <2>4. CASE s.at \in {"found", "empty"}
    <3>1. /\ searchResults' = [n |-> s.n, any |-> (s.at = "found")]
          /\ UNCHANGED searchError
      BY <2>1, <2>4 DEF SearchAnswered
    <3>2. searchResults'.n = searches
      BY <2>3, <3>1
    <3> QED
      BY <2>2, <2>3, <3>1, <3>2 DEF SearchInv
  <2>5. CASE s.at \notin {"found", "empty"}
    <3>1. searchError' = s.n /\ UNCHANGED searchResults
      BY <2>1, <2>5 DEF SearchAnswered
    <3> QED
      BY <2>2, <2>3, <3>1 DEF SearchInv
  <2> QED
    BY <2>4, <2>5
<1>5. CASE \/ TypeQuery \/ ToggleRerank \/ RerankersListed \/ HandleInlineLogin
           \/ LoginAnswered \/ CancelLogin \/ SearchSignOut
  BY <1>1, <1>5 DEF TypeQuery, ToggleRerank, RerankersListed, HandleInlineLogin,
                    LoginAnswered, CancelLogin, SearchSignOut, panel
<1>6. CASE \E m \in Modes : SetSearchMode(m)
  BY <1>1, <1>6 DEF SetSearchMode, panel
<1>7. CASE \E m \in Rerankers : SelectReranker(m)
  BY <1>1, <1>7 DEF SelectReranker, panel
<1>8. CASE UNCHANGED searchVars
  BY <1>1, <1>8 DEF searchVars
<1> QED
  BY <1>2, <1>3, <1>4, <1>5, <1>6, <1>7, <1>8 DEF SearchNext, SearchProgress

\* The panel shows the outcome of the latest search, whatever was set, answered, refused
\* or lost before.
THEOREM LatestOutcome == TabSpec => []LatestSearch
<1>1. SearchInv => LatestSearch
  <2> SUFFICES ASSUME SearchInv PROVE LatestSearch
    OBVIOUS
  <2>1. CASE searchError # 0
    <3>1. Panel = "error"
      BY <2>1 DEF Panel
    <3> QED
      BY <2>1, <3>1 DEF SearchInv, LatestSearch
  <2>2. CASE searchError = 0 /\ searchResults.any /\ ~isSearching
    <3>1. Panel = "results"
      BY <2>2 DEF Panel
    <3> QED
      BY <2>2, <3>1 DEF SearchInv, LatestSearch
  <2>3. CASE searchError = 0 /\ ~(searchResults.any /\ ~isSearching)
    <3>1. Panel \in {"loading", "none found", "hint"}
      BY <2>3 DEF Panel
    <3> QED
      BY <3>1 DEF LatestSearch
  <2> QED
    BY <2>1, <2>2, <2>3
<1>2. TabInit => SearchInv
  BY TabStarts, SearchInitInv
<1>3. SearchInv /\ [TabNext]_tabVars => SearchInv'
  BY TabSteps, SearchStep
<1> QED
  BY <1>1, <1>2, <1>3, PTL DEF TabSpec

----------------------------------------------------------------------------
(* The account and its list of sessions.                                   *)

\* What is needed of a call: its fields, an answer that is a list, and the session it
\* is about.
CallFormed(c) ==
  /\ DOMAIN c = {"op", "n", "id", "as", "here", "then", "at", "got"}
  /\ c.got \in Sessions
  /\ c.op \in Changes \cup {"timer"} => c.id \in Ids
  /\ c.at \in {"out", "ok", "failed", "refused"}
  /\ c.op = "timer" => c.at = "out"

AccountForm ==
  /\ held \in Sessions /\ list \in Sessions
  /\ \A c \in inflight : CallFormed(c)

\* A difference in session i will be made good: the list is read again, or a change to
\* the session is under way, after which it will be.
Excused(i) == \E c \in inflight : c.op = "list" \/ (c.op \in Changes /\ c.id = i)

Agree == token # 0 /\ ~astray => \A i \in Ids : list[i] = held[i] \/ Excused(i)

\* A session that is being deleted is not in the list.
Hidden == ~astray => \A c \in inflight : c.op = "delete" => list[c.id] = 0

\* When its deletion was served it is not with the agent either, unless it was created
\* since, and then the list will be read.
CreatedSince(i) ==
  \E d \in inflight : \/ d.op = "list"
                      \/ d.op = "create" /\ d.id = i /\ d.at \in {"ok", "failed"}

Removed ==
  ~astray => \A c \in inflight :
               c.op = "delete" /\ c.at = "ok" => held[c.id] = 0 \/ CreatedSince(c.id)

AccountInv == AccountForm /\ Agree /\ Hidden /\ Removed

LEMMA AccountInitInv == AccountInit => AccountInv
<1> SUFFICES ASSUME AccountInit PROVE AccountInv
  OBVIOUS
<1>1. held \in Sessions /\ list \in Sessions /\ NoList \in Sessions
  BY DEF AccountInit, Sessions, NoList
<1>2. token = 0 /\ \A c \in inflight : CallFormed(c) /\ c.op = "validate"
  BY <1>1 DEF AccountInit, CallFormed, Changes
<1> QED
  BY <1>1, <1>2 DEF AccountInv, AccountForm, Agree, Hidden, Removed

LEMMA NoListType == NoList \in Sessions
BY DEF NoList, Sessions

\* A call that is no deletion starts.
LEMMA Joined ==
  ASSUME AccountInv, UNCHANGED <<token, held, list, astray>>,
         NEW r, CallFormed(r), r.op # "delete", inflight' = inflight \cup {r}
  PROVE  AccountInv'
<1>1. AccountForm'
  BY DEF AccountInv, AccountForm, CallFormed, Sessions
<1>2. Agree'
  BY DEF AccountInv, Agree, Excused
<1>3. Hidden'
  BY DEF AccountInv, Hidden
<1>4. Removed'
  BY DEF AccountInv, Removed, CreatedSince
<1> QED
  BY <1>1, <1>2, <1>3, <1>4 DEF AccountInv

LEMMA NewCallFormed ==
  ASSUME NEW op, NEW id, NEW as, op \in Changes \cup {"timer"} => id \in Ids
  PROVE  LET r == NewCall(op, id, as) IN
         CallFormed(r) /\ r.op = op /\ r.id = id /\ r.at = "out"
BY NoListType DEF NewCall, CallFormed

\* An excuse, and a session created since, stay when a call moves on without changing
\* its kind, its session, or the fact that it was served.
LEMMA MovesOn ==
  ASSUME AccountForm, NEW c \in inflight, NEW d, CallFormed(d), d.op = c.op, d.id = c.id,
         c.at \in {"ok", "failed"} => d.at \in {"ok", "failed"},
         inflight' = (inflight \ {c}) \cup {d}
  PROVE  /\ \A i : Excused(i) => Excused(i)'
         /\ \A i : CreatedSince(i) => CreatedSince(i)'
BY DEF Excused, CreatedSince

LEMMA Arriving ==
  ASSUME AccountInv, NEW c \in inflight, Arrive(c)
  PROVE  AccountInv'
<1> DEFINE status == IF Refused(c) THEN "refused"
                     ELSE IF c.op = "rename" /\ held[c.id] = 0 THEN "failed" ELSE "ok"
           d == [c EXCEPT !.at = status, !.got = IF c.op = "list" THEN held ELSE NoList]
<1>1. /\ c.at = "out" /\ c.op # "timer" /\ inflight' = (inflight \ {c}) \cup {d}
      /\ held' = IF status = "ok" THEN Stored(c) ELSE held
      /\ UNCHANGED <<token, list, astray>>
  BY DEF Arrive
<1>2. CallFormed(c) /\ held \in Sessions /\ list \in Sessions
  BY DEF AccountInv, AccountForm
<1>3. CallFormed(d) /\ d.op = c.op /\ d.id = c.id /\ d.at = status
  <2>1. status \in {"refused", "failed", "ok"}
    OBVIOUS
  <2> HIDE DEF status
  <2> QED
    BY <1>1, <1>2, <2>1, NoListType DEF CallFormed
<1> HIDE DEF d
<1>4. status \in {"refused", "failed", "ok"}
  OBVIOUS
<1>5. \/ held' = held
      \/ c.op = "create" /\ status = "ok" /\ held' = [held EXCEPT ![c.id] = 1]
      \/ c.op = "rename" /\ held[c.id] # 0 /\ held' = [held EXCEPT ![c.id] = 2]
      \/ c.op = "delete" /\ held' = [held EXCEPT ![c.id] = 0]
  BY <1>1 DEF Stored
<1>6. c.op = "delete" /\ status = "ok" => held' = [held EXCEPT ![c.id] = 0]
  BY <1>1 DEF Stored
<1> HIDE DEF status
<1>7. held' \in Sessions /\ \A i \in Ids : held'[i] # held[i] => c.op \in Changes /\ c.id = i
  BY <1>2, <1>5 DEF Sessions, Changes, CallFormed
<1>8. AccountForm'
  BY <1>1, <1>2, <1>3, <1>7 DEF AccountInv, AccountForm, CallFormed, Sessions
<1>9. /\ \A i : Excused(i) => Excused(i)'
      /\ \A i : CreatedSince(i) => CreatedSince(i)'
  BY <1>1, <1>3, MovesOn DEF AccountInv
<1>10. Agree'
  <2> SUFFICES ASSUME token' # 0, ~astray', NEW i \in Ids, list'[i] # held'[i]
               PROVE  Excused(i)'
    BY DEF Agree
  <2>1. CASE held'[i] # held[i]
    BY <2>1, <1>1, <1>3, <1>7 DEF Excused
  <2>2. CASE held'[i] = held[i]
    BY <2>2, <1>1, <1>9 DEF AccountInv, Agree
  <2> QED
    BY <2>1, <2>2
<1>11. Hidden'
  BY <1>1, <1>3 DEF AccountInv, Hidden
<1>12. Removed'
  <2> SUFFICES ASSUME ~astray', NEW x \in inflight', x.op = "delete", x.at = "ok",
                      held'[x.id] # 0
               PROVE  CreatedSince(x.id)'
    BY DEF Removed
  <2>1. CallFormed(x) /\ x.id \in Ids
    BY <1>8 DEF AccountForm, CallFormed, Changes
  <2>2. CASE x = d
    BY <2>1, <2>2, <1>2, <1>3, <1>6 DEF Sessions
  <2>3. CASE x \in inflight /\ held[x.id] # 0
    <3>1. CreatedSince(x.id)
      BY <2>3, <1>1 DEF AccountInv, Removed
    <3> QED
      BY <3>1, <1>9
  <2>4. CASE x \in inflight /\ held[x.id] = 0
    <3>1. c.op = "create" /\ status = "ok" /\ c.id = x.id
      BY <2>1, <2>4, <1>2, <1>5 DEF Sessions, CallFormed, Changes
    <3> QED
      BY <3>1, <1>1, <1>3 DEF CreatedSince
  <2> QED
    BY <1>1, <2>2, <2>3, <2>4
<1> QED
  BY <1>8, <1>10, <1>11, <1>12 DEF AccountInv

LEMMA Losing ==
  ASSUME AccountInv, NEW c \in inflight, Lose(c)
  PROVE  AccountInv'
<1> DEFINE d == [c EXCEPT !.at = "failed", !.got = NoList]
<1>1. /\ inflight' = (inflight \ {c}) \cup {d} /\ UNCHANGED <<token, held, list, astray>>
  BY DEF Lose
<1>2. CallFormed(d) /\ d.op = c.op /\ d.id = c.id /\ d.at = "failed"
  BY NoListType DEF Lose, AccountInv, AccountForm, CallFormed
<1> HIDE DEF d
<1>3. /\ \A i : Excused(i) => Excused(i)'
      /\ \A i : CreatedSince(i) => CreatedSince(i)'
  BY <1>1, <1>2, MovesOn DEF AccountInv
<1>4. AccountForm'
  BY <1>1, <1>2 DEF AccountInv, AccountForm, CallFormed, Sessions
<1>5. Agree'
  BY <1>1, <1>3 DEF AccountInv, Agree
<1>6. Hidden'
  BY <1>1, <1>2 DEF AccountInv, Hidden
<1>7. Removed'
  BY <1>1, <1>2, <1>3 DEF AccountInv, Removed
<1> QED
  BY <1>4, <1>5, <1>6, <1>7 DEF AccountInv

\* A list call or none replaces a call that was no excuse.
LEMMA LoggingIn ==
  ASSUME AccountInv, NEW c \in inflight, Validated(c) \/ LoggedIn(c)
  PROVE  AccountInv'
<1>1. c.op \in {"validate", "login"} /\ UNCHANGED <<held, list, astray>>
  BY DEF Validated, LoggedIn
<1>2. /\ inflight \ {c} \subseteq inflight'
      /\ \A r \in inflight' : r \in inflight \/ r = NewCall("list", 0, token')
      /\ token' = token \/ NewCall("list", 0, token') \in inflight'
  BY DEF Validated, LoggedIn, Effect
<1>3. LET r == NewCall("list", 0, token') IN CallFormed(r) /\ r.op = "list"
  BY NewCallFormed DEF Changes
<1>4. AccountForm'
  BY <1>1, <1>2, <1>3 DEF AccountInv, AccountForm, CallFormed, Sessions
<1>5. /\ \A i : Excused(i) => Excused(i)'
      /\ \A i : CreatedSince(i) => CreatedSince(i)'
  BY <1>1, <1>2 DEF Excused, CreatedSince, Changes
<1>6. Agree'
  <2>1. CASE token' = token
    BY <2>1, <1>1, <1>5 DEF AccountInv, Agree
  <2>2. CASE NewCall("list", 0, token') \in inflight'
    BY <2>2, <1>3 DEF Agree, Excused
  <2> QED
    BY <1>2, <2>1, <2>2
<1>7. Hidden'
  BY <1>1, <1>2, <1>3 DEF AccountInv, Hidden
<1>8. Removed'
  BY <1>1, <1>2, <1>3, <1>5 DEF AccountInv, Removed
<1> QED
  BY <1>4, <1>6, <1>7, <1>8 DEF AccountInv

LEMMA Collapsing ==
  ASSUME AccountInv, NEW c \in inflight, Collapse(c)
  PROVE  AccountInv'
<1> DEFINE d == [c EXCEPT !.op = "delete"]
<1>1. /\ c.op = "timer" /\ inflight' = (inflight \ {c}) \cup {d}
      /\ list' = [list EXCEPT ![c.id] = 0] /\ UNCHANGED <<token, held, astray>>
  BY DEF Collapse
<1>2. CallFormed(c) /\ list \in Sessions /\ held \in Sessions /\ c.id \in Ids
  BY <1>1 DEF AccountInv, AccountForm, CallFormed
<1>3. CallFormed(d) /\ d.op = "delete" /\ d.id = c.id /\ d.at = c.at
  BY <1>2 DEF CallFormed
<1> HIDE DEF d
<1>4. list' \in Sessions /\ list'[c.id] = 0
      /\ \A i \in Ids : list'[i] # list[i] => i = c.id
  BY <1>1, <1>2 DEF Sessions
<1>5. AccountForm'
  BY <1>1, <1>3, <1>4 DEF AccountInv, AccountForm, CallFormed, Sessions
<1>6. /\ \A i : Excused(i) => Excused(i)'
      /\ \A i : CreatedSince(i) => CreatedSince(i)'
  BY <1>1 DEF Excused, CreatedSince, Changes
<1>7. Excused(c.id)'
  BY <1>1, <1>3 DEF Excused, Changes
<1>8. Agree'
  BY <1>1, <1>4, <1>6, <1>7 DEF AccountInv, Agree
<1>9. Hidden'
  <2> SUFFICES ASSUME ~astray', NEW x \in inflight', x.op = "delete"
               PROVE  list'[x.id] = 0
    BY DEF Hidden
  <2>1. x.id \in Ids
    BY <1>5 DEF AccountForm, CallFormed, Changes
  <2> QED
    BY <2>1, <1>1, <1>3, <1>4 DEF AccountInv, Hidden
<1>10. Removed'
  <2>1. c.at = "out"
    BY <1>1, <1>2 DEF CallFormed
  <2> QED
    BY <2>1, <1>1, <1>3, <1>6 DEF AccountInv, Removed
<1> QED
  BY <1>5, <1>8, <1>9, <1>10 DEF AccountInv

\* A creation or a renaming was answered: the list is read, the tab is signed out, or
\* the list may be wrong.
LEMMA Changing ==
  ASSUME AccountInv, NEW c \in inflight, Created(c) \/ Renamed(c)
  PROVE  AccountInv'
<1> DEFINE d == [c EXCEPT !.op = "list", !.then = "open", !.at = "out"]
           e == [c EXCEPT !.op = "list", !.then = "endRename", !.at = "out"]
<1>1. /\ c.op \in {"create", "rename"} /\ c.at # "out"
      /\ inflight' = (inflight \ {c}) \cup (IF c.at = "ok"
                                            THEN {IF c.op = "create" THEN d ELSE e} ELSE {})
      /\ astray' = (astray \/ c.at = "failed") /\ Session(c) /\ UNCHANGED held
  BY DEF Created, Renamed, Reload
<1>2. CallFormed(c) /\ list \in Sessions
  BY DEF AccountInv, AccountForm
<1>3. /\ CallFormed(d) /\ d.op = "list"
      /\ CallFormed(e) /\ e.op = "list"
  BY <1>2 DEF CallFormed, Changes
<1> HIDE DEF d, e
<1>4. /\ c.at = "refused" => token' = 0 /\ list' = NoList
      /\ c.at # "refused" => UNCHANGED <<token, list>>
  BY <1>1 DEF Session, SignedOut
<1>5. AccountForm'
  <2>1. list' \in Sessions
    BY <1>2, <1>4, NoListType
  <2>2. \A x \in inflight' : x \in inflight \/ x \in {d, e}
    BY <1>1
  <2> QED
    BY <1>1, <1>3, <2>1, <2>2 DEF AccountInv, AccountForm, CallFormed, Sessions
<1>6. CASE c.at = "ok"
  <2>1. PICK r : r.op = "list" /\ inflight' = (inflight \ {c}) \cup {r}
    BY <1>1, <1>3, <1>6
  <2>2. Agree'
    BY <2>1 DEF Agree, Excused
  <2>3. UNCHANGED <<list, held>> /\ (~astray' => ~astray)
    BY <1>1, <1>4, <1>6
  <2>4. Hidden'
    BY <2>1, <2>3 DEF AccountInv, Hidden
  <2>5. Removed'
    BY <2>1 DEF Removed, CreatedSince
  <2> QED
    BY <1>5, <2>2, <2>4, <2>5 DEF AccountInv
<1>7. CASE c.at = "failed"
  BY <1>1, <1>5, <1>7 DEF AccountInv, Agree, Hidden, Removed
<1>8. CASE c.at \notin {"ok", "failed"}
  <2>1. inflight' = inflight \ {c} /\ (~astray' => ~astray) /\ UNCHANGED held
    BY <1>1, <1>8
  <2>2. Agree'
    <3>1. CASE c.at = "refused"
      BY <1>4, <3>1 DEF Agree
    <3>2. CASE c.at # "refused"
      BY <1>1, <1>2, <1>8, <3>2 DEF CallFormed
    <3> QED
      BY <3>1, <3>2
  <2>3. Hidden'
    <3>1. list' = list \/ list' = NoList
      BY <1>4
    <3>2. \A x \in inflight' : x.op = "delete" => x.id \in Ids
      BY <1>5 DEF AccountForm, CallFormed, Changes
    <3> QED
      BY <2>1, <3>1, <3>2 DEF AccountInv, Hidden, NoList
  <2>4. Removed'
    BY <1>1, <1>8, <2>1 DEF AccountInv, Removed, CreatedSince
  <2> QED
    BY <1>5, <2>2, <2>3, <2>4 DEF AccountInv
<1> QED
  BY <1>6, <1>7, <1>8

LEMMA Deleting ==
  ASSUME AccountInv, NEW c \in inflight, Deleted(c)
  PROVE  AccountInv'
<1> DEFINE d == [c EXCEPT !.op = "list", !.then = "rollBack", !.at = "out"]
<1>1. /\ c.op = "delete" /\ c.at # "out" /\ Session(c) /\ UNCHANGED <<held, astray>>
      /\ inflight' = (inflight \ {c}) \cup (IF c.at = "ok" THEN {} ELSE {d})
  BY DEF Deleted, Reload
<1>2. CallFormed(c) /\ list \in Sessions /\ c.id \in Ids
  BY <1>1 DEF AccountInv, AccountForm, CallFormed, Changes
<1>3. CallFormed(d) /\ d.op = "list"
  BY <1>2 DEF CallFormed, Changes
<1> HIDE DEF d
<1>4. /\ c.at = "refused" => token' = 0 /\ list' = NoList
      /\ c.at # "refused" => UNCHANGED <<token, list>>
  BY <1>1 DEF Session, SignedOut
<1>5. AccountForm'
  <2>1. list' \in Sessions
    BY <1>2, <1>4, NoListType
  <2>2. \A x \in inflight' : x \in inflight \/ x = d
    BY <1>1
  <2> QED
    BY <1>1, <1>3, <2>1, <2>2 DEF AccountInv, AccountForm, CallFormed, Sessions
<1>6. Hidden'
  <2>1. list' = list \/ list' = NoList
    BY <1>4
  <2>2. \A x \in inflight' : x.op = "delete" => x.id \in Ids /\ x \in inflight
    BY <1>1, <1>3, <1>5 DEF AccountForm, CallFormed, Changes
  <2> QED
    BY <1>1, <2>1, <2>2 DEF AccountInv, Hidden, NoList
<1>7. CASE c.at = "ok"
  <2>1. inflight' = inflight \ {c} /\ UNCHANGED <<token, list, held, astray>>
    BY <1>1, <1>4, <1>7
  <2>2. \A i : CreatedSince(i) => CreatedSince(i)'
    BY <1>1, <2>1 DEF CreatedSince
  <2>3. Removed'
    BY <2>1, <2>2 DEF AccountInv, Removed
  <2>4. Agree'
    <3> SUFFICES ASSUME token' # 0, ~astray', NEW i \in Ids, list'[i] # held'[i]
                 PROVE  Excused(i)'
      BY DEF Agree
    <3>1. Excused(i)
      BY <2>1 DEF AccountInv, Agree
    <3>2. CASE i # c.id
      BY <1>1, <2>1, <3>1, <3>2 DEF Excused
    <3>3. CASE i = c.id
      <4>1. list[i] = 0
        BY <1>1, <2>1, <3>3 DEF AccountInv, Hidden
      <4>2. CreatedSince(i)
        BY <1>1, <1>7, <2>1, <3>3, <4>1 DEF AccountInv, Removed
      <4> QED
        BY <2>2, <4>2 DEF CreatedSince, Excused, Changes
    <3> QED
      BY <3>2, <3>3
  <2> QED
    BY <1>5, <1>6, <2>3, <2>4 DEF AccountInv
<1>8. CASE c.at # "ok"
  <2>1. d \in inflight'
    BY <1>1, <1>8
  <2>2. Agree'
    BY <1>3, <2>1 DEF Agree, Excused
  <2>3. Removed'
    BY <1>3, <2>1 DEF Removed, CreatedSince
  <2> QED
    BY <1>5, <1>6, <2>2, <2>3 DEF AccountInv
<1> QED
  BY <1>7, <1>8

LEMMA Listing ==
  ASSUME AccountInv, NEW c \in inflight, Listed(c)
  PROVE  AccountInv'
<1>1. /\ c.op = "list" /\ list' = c.got /\ inflight' = inflight \ {c} /\ UNCHANGED held
      /\ astray' = (c.at = "failed" \/ c.got # held \/ \E d \in inflight : d.op \in Changes)
  BY DEF Listed
<1>2. AccountForm'
  BY <1>1 DEF AccountInv, AccountForm, CallFormed, Sessions
<1>3. ~astray' => list' = held' /\ \A d \in inflight' : d.op \notin Changes
  BY <1>1
<1> QED
  BY <1>2, <1>3 DEF AccountInv, Agree, Hidden, Removed, Changes

LEMMA SigningOut ==
  ASSUME AccountInv, SignOut
  PROVE  AccountInv'
<1>1. token' = 0 /\ list' = NoList /\ UNCHANGED <<held, inflight, astray>>
  BY DEF SignOut
<1>2. AccountForm'
  BY <1>1, NoListType DEF AccountInv, AccountForm, CallFormed, Sessions
<1>3. Hidden'
  BY <1>1, <1>2 DEF Hidden, AccountForm, CallFormed, Changes, NoList
<1>4. Agree' /\ Removed'
  BY <1>1 DEF AccountInv, Agree, Removed, CreatedSince
<1> QED
  BY <1>2, <1>3, <1>4 DEF AccountInv

LEMMA SameCalls ==
  ASSUME AccountInv, UNCHANGED <<token, held, list, inflight, astray>>
  PROVE  AccountInv'
BY DEF AccountInv, AccountForm, CallFormed, Sessions, Agree, Excused, Hidden, Removed,
       CreatedSince

LEMMA Clicking ==
  ASSUME AccountInv,
         \/ SubmitLogin \/ HandleNewChat
         \/ \E i \in Ids : HandleDeleteSession(i) \/ HandleRenameSession(i)
  PROVE  AccountInv'
<1>1. CASE SubmitLogin
  <2> DEFINE r == NewCall("login", 0, 0)
  <2>1. inflight' = inflight \cup {r} /\ UNCHANGED <<token, held, list, astray>>
    BY <1>1 DEF SubmitLogin
  <2>2. CallFormed(r) /\ r.op = "login"
    BY NewCallFormed DEF Changes
  <2> HIDE DEF r
  <2> QED
    BY <2>1, <2>2, Joined
<1>2. CASE HandleNewChat
  <2>1. PICK i \in Ids : inflight' = inflight \cup {NewCall("create", i, token)}
    BY <1>2 DEF HandleNewChat
  <2>2. UNCHANGED <<token, held, list, astray>>
    BY <1>2 DEF HandleNewChat
  <2> DEFINE r == NewCall("create", i, token)
  <2>3. CallFormed(r) /\ r.op = "create"
    BY NewCallFormed
  <2> HIDE DEF r
  <2> QED
    BY <2>1, <2>2, <2>3, Joined DEF r
<1>3. ASSUME NEW i \in Ids, HandleDeleteSession(i) PROVE AccountInv'
  <2> DEFINE q == NewCall("timer", i, token)
             r == [q EXCEPT !.here = (path = i)]
  <2>1. inflight' = inflight \cup {r} /\ UNCHANGED <<token, held, list, astray>>
    BY <1>3 DEF HandleDeleteSession
  <2>2. CallFormed(q) /\ q.op = "timer"
    BY NewCallFormed
  <2>3. CallFormed(r) /\ r.op = "timer"
    BY <2>2 DEF CallFormed
  <2> HIDE DEF r
  <2> QED
    BY <2>1, <2>3, Joined
<1>4. ASSUME NEW i \in Ids, HandleRenameSession(i) PROVE AccountInv'
  <2>1. CASE token = 0
    <3>1. UNCHANGED <<token, held, list, inflight, astray>>
      BY <1>4, <2>1 DEF HandleRenameSession
    <3> QED
      BY <3>1, SameCalls
  <2>2. CASE token # 0
    <3> DEFINE r == NewCall("rename", i, token)
    <3>1. inflight' = inflight \cup {r} /\ UNCHANGED <<token, held, list, astray>>
      BY <1>4, <2>2 DEF HandleRenameSession
    <3>2. CallFormed(r) /\ r.op = "rename"
      BY NewCallFormed
    <3> HIDE DEF r
    <3> QED
      BY <3>1, <3>2, Joined
  <2> QED
    BY <2>1, <2>2
<1> QED
  BY <1>1, <1>2, <1>3, <1>4

LEMMA AccountStep == AccountInv /\ [AccountNext]_accountVars => AccountInv'
<1> SUFFICES ASSUME AccountInv, [AccountNext]_accountVars PROVE AccountInv'
  OBVIOUS
<1>1. CASE CancelName \/ \E i \in Ids : EditName(i) \/ OpenSession(i)
  BY <1>1, SameCalls DEF CancelName, EditName, OpenSession
<1>2. CASE \E t \in 1..2 : Expire(t)
  BY <1>2, SameCalls DEF Expire
<1>3. CASE UNCHANGED accountVars
  BY <1>3, SameCalls DEF accountVars
<1>4. CASE Served
  BY <1>4, Arriving DEF Served
<1>5. CASE \E c \in inflight : Lose(c)
  BY <1>5, Losing
<1>6. CASE Answer
  BY <1>6, LoggingIn, Collapsing, Changing, Deleting, Listing DEF Answer
<1> QED
  BY <1>1, <1>2, <1>3, <1>4, <1>5, <1>6, Clicking, SigningOut DEF AccountNext

\* When no call is under way, a signed-in tab shows the agent's sessions, whatever
\* deletions, creations, renamings, logins and losses there were, unless the list it
\* got was one of those that "astray" names.
THEOREM QuietList == TabSpec => []QuietListRight
<1>1. AccountInv => QuietListRight
  <2> SUFFICES ASSUME AccountInv, inflight = {}, token # 0, ~astray PROVE list = held
    BY DEF QuietListRight
  <2>1. \A i \in Ids : list[i] = held[i]
    BY DEF AccountInv, Agree, Excused
  <2> QED
    BY <2>1 DEF AccountInv, AccountForm, Sessions
<1>2. TabInit => AccountInv
  BY TabStarts, AccountInitInv
<1>3. AccountInv /\ [TabNext]_tabVars => AccountInv'
  BY TabSteps, AccountStep
<1> QED
  BY <1>1, <1>2, <1>3, PTL DEF TabSpec

----------------------------------------------------------------------------
(* The telemetry page.                                                     *)

\* The tools and the statistics that the telemetry page divides are of one load, however
\* the answers of overlapping loads come in.
THEOREM OneLoad == TabSpec => []OneLoadShown
<1>1. TabInit => OneLoadShown
  BY TabStarts DEF StatsInit, OneLoadShown
<1>2. OneLoadShown /\ [TabNext]_tabVars => OneLoadShown'
  <2> SUFFICES ASSUME OneLoadShown, [StatsNext]_statsVars PROVE OneLoadShown'
    BY TabSteps
  <2>1. ASSUME NEW g \in gathers, Gathered(g) PROVE OneLoadShown'
    BY <2>1 DEF Gathered, OneLoadShown
  <2>2. ASSUME NEW t \in StatTools, TestInPlayground(t) PROVE OneLoadShown'
    BY <2>2 DEF TestInPlayground, OneLoadShown
  <2>3. CASE UNCHANGED <<registered, stats>>
    BY <2>3 DEF OneLoadShown
  <2> QED
    BY <2>1, <2>2, <2>3
    DEF StatsNext, StatsProgress, OpenStats, TokenChanges, RefreshStats, TypeSearch,
        ToolCalled, SetFilter, ToolsAnswered, StatsAnswered, statsVars
<1> QED
  BY <1>1, <1>2, PTL DEF TabSpec
==============================================================================
