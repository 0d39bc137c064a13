---------------------------- MODULE LogHub_proofs ----------------------------
(***************************************************************************)
(* Proofs about LogHub for any number of writers, browsers, logs and       *)
(* failures.                                                               *)
(***************************************************************************)
EXTENDS LogHub, TLAPS

\* The page holds rows behind the cursor, and only while it is being sent.
PageBehind ==
  /\ \A i \in poller.page : i > poller.lastLogID
  /\ poller.pc # "sending" => poller.page = {}

\* What a browser has received lies before the cursor.
ReceivedBefore ==
  \A c \in Clients : \A k \in DOMAIN got[c] : got[c][k] <= poller.lastLogID

\* Before the first tick the cursor is at 0, and no page is read.
FirstTick ==
  ~poller.initialized => poller.lastLogID = 0 /\ poller.pc \in {"waiting", "stopped"}

\* The sequence is ahead of every insert under way.
SequenceAhead == \A w \in Writers : inserting[w] <= lastId

IInv == TypeOK /\ SequenceAhead /\ PageBehind /\ ReceivedBefore /\ FirstTick /\ InOrder

LEMMA InitIInv == Init => IInv
<1> SUFFICES ASSUME Init PROVE IInv
  OBVIOUS
<1>1. poller \in Poller
  BY DEF Init, Poller
<1>2. logs \subseteq 1..lastId /\ lastId \in Nat
  BY ConstantsAssumption DEF Init
<1>3. got \in [Clients -> Seq(Nat)] /\ \A c \in Clients : DOMAIN got[c] = {}
  BY DEF Init
<1>4. TypeOK
  BY <1>1, <1>2, <1>3 DEF Init, TypeOK
<1>5. PageBehind /\ FirstTick /\ SequenceAhead
  BY <1>2 DEF Init, PageBehind, FirstTick, SequenceAhead
<1>6. ReceivedBefore /\ InOrder
  BY <1>3 DEF ReceivedBefore, InOrder
<1> QED
  BY <1>4, <1>5, <1>6 DEF IInv

\* Appending to what a browser has received.
LEMMA AppendGot ==
  ASSUME NEW s \in Seq(Nat), NEW id \in Nat
  PROVE  /\ Append(s, id) \in Seq(Nat)
         /\ DOMAIN Append(s, id) = DOMAIN s \cup {Len(s) + 1}
         /\ \A k \in DOMAIN s : Append(s, id)[k] = s[k] /\ k < Len(s) + 1
         /\ Append(s, id)[Len(s) + 1] = id
         /\ Len(s) + 1 \notin DOMAIN s
  OBVIOUS

\* What holds of the poller and of what was received outlives a step that
\* leaves both alone.
LEMMA PollerUnchanged ==
  ASSUME IInv, UNCHANGED <<poller, got>>
  PROVE  PageBehind' /\ ReceivedBefore' /\ FirstTick' /\ InOrder'
  BY DEF IInv, PageBehind, ReceivedBefore, FirstTick, InOrder

LEMMA WriterIInv ==
  ASSUME IInv, NEW w \in Writers, Insert(w) \/ Commit(w) \/ Rollback(w)
  PROVE  IInv'
<1> USE DEF IInv, TypeOK
<1>1. UNCHANGED <<conn, connects, before, poller, stopCh, got>>
  BY DEF Insert, Commit, Rollback, sockets
<1>2. /\ inserting' \in [Writers -> Nat]
      /\ lastId' \in Nat /\ lastId' >= lastId
      /\ faults' \in Nat
  <2>1. lastId \in Nat /\ faults \in Nat /\ inserting \in [Writers -> Nat]
    OBVIOUS
  <2>2. /\ lastId' \in {lastId, lastId + 1}
        /\ faults' \in {faults, faults + 1}
        /\ \/ inserting' = [inserting EXCEPT ![w] = 0]
           \/ inserting' = [inserting EXCEPT ![w] = lastId + 1]
    BY DEF Insert, Commit, Rollback, Fault
  <2> HIDE DEF IInv, TypeOK
  <2> QED
    BY <2>1, <2>2
<1>3. SequenceAhead'
  <2> SUFFICES ASSUME NEW v \in Writers PROVE inserting'[v] <= lastId'
    BY DEF SequenceAhead
  <2>1. inserting[v] \in Nat /\ inserting[v] <= lastId /\ lastId \in Nat
    BY DEF SequenceAhead
  <2>2. inserting'[v] \in {inserting[v], 0} \/ inserting'[v] = lastId'
    BY DEF Insert, Commit, Rollback
  <2> QED
    BY <1>2, <2>1, <2>2
<1>4. logs' \subseteq 1..lastId'
  <2>1. inserting[w] \in Nat /\ inserting[w] <= lastId
    BY DEF SequenceAhead
  <2>2. logs' \subseteq logs \cup {inserting[w]} /\ (inserting[w] = 0 => logs' = logs)
    BY DEF Insert, Commit, Rollback
  <2> QED
    BY <1>2, <2>1, <2>2
<1> QED
  BY <1>1, <1>2, <1>3, <1>4, PollerUnchanged

LEMMA ClientIInv ==
  ASSUME IInv, NEW c \in Clients, Register(c) \/ Unregister(c) \/ Stall(c)
  PROVE  IInv'
<1> USE DEF IInv, TypeOK
<1>1. UNCHANGED <<lastId, inserting, logs, poller, stopCh, got, faults>>
  BY DEF Register, Unregister, Stall, table
<1>2. conn' \in [Clients -> {"closed", "open", "stuck"}]
  BY DEF Register, Unregister, Stall
<1>3. connects' \in [Clients -> Nat]
  <2>1. connects' = connects \/ connects' = [connects EXCEPT ![c] = @ + 1]
    BY DEF Register, Unregister, Stall
  <2>2. connects \in [Clients -> Nat]
    OBVIOUS
  <2> HIDE DEF IInv
  <2> QED
    BY <2>1, <2>2
<1>4. before' \in [Clients -> SUBSET Nat]
  <2>1. CASE Register(c)
    <3>1. logs \in SUBSET Nat
      OBVIOUS
    <3>2. before' = [before EXCEPT ![c] = logs]
      BY <2>1 DEF Register
    <3> QED
      BY <3>1, <3>2, Zenon
  <2>2. CASE UNCHANGED before
    BY <2>2
  <2> QED
    BY <2>1, <2>2 DEF Unregister, Stall
<1> QED
  BY <1>1, <1>2, <1>3, <1>4, PollerUnchanged DEF SequenceAhead

\* Every step of the poller that delivers nothing.
LEMMA QuietIInv ==
  ASSUME IInv, UNCHANGED <<table, sockets, stopCh, got>>, faults' \in Nat,
         before' \in [Clients -> SUBSET Nat],
         poller' \in Poller, PageBehind', FirstTick',
         poller'.lastLogID >= poller.lastLogID
  PROVE  IInv'
<1> USE DEF IInv, TypeOK
<1>1. ReceivedBefore'
  <2> SUFFICES ASSUME NEW c \in Clients, NEW k \in DOMAIN got[c]
               PROVE  got[c][k] <= poller'.lastLogID
    BY DEF ReceivedBefore
  <2>1. got[c][k] \in Nat /\ got[c][k] <= poller.lastLogID
    BY DEF ReceivedBefore
  <2> QED
    BY <2>1 DEF Poller
<1>2. InOrder'
  BY DEF InOrder
<1> QED
  BY <1>1, <1>2 DEF table, sockets, SequenceAhead

LEMMA TickIInv ==
  ASSUME IInv, Tick
  PROVE  IInv'
<1>1. poller \in Poller /\ faults \in Nat /\ logs \subseteq Nat
  BY DEF IInv, TypeOK
<1>2. poller.pc = "waiting" /\ poller.page = {}
  BY DEF Tick, IInv, PageBehind
<1>3. UNCHANGED <<table, sockets, stopCh, got>>
  BY DEF Tick, SetPoller, table, sockets
<1>4. faults' \in Nat
  <2>1. faults' = faults \/ faults' = faults + 1
    BY DEF Tick, Fault
  <2> QED
    BY <1>1, <2>1
<1>7. before' \in [Clients -> SUBSET Nat]
  <2>1. before' = before \/ before' = [c \in Clients |-> logs]
    BY DEF Tick
  <2>2. before \in [Clients -> SUBSET Nat]
    BY DEF IInv, TypeOK
  <2> QED
    BY <1>1, <2>1, <2>2
<1> DEFINE Ticked ==
      /\ poller' \in Poller
      /\ poller'.page = {} /\ poller'.pc = "counting" /\ poller'.initialized
      /\ poller'.lastLogID >= poller.lastLogID
<1>5. Ticked
  <2> DEFINE ticked == [poller EXCEPT !.pc = "counting", !.initialized = TRUE]
  <2>0. /\ ticked \in Poller
        /\ ticked.page = {} /\ ticked.pc = "counting" /\ ticked.initialized
        /\ ticked.lastLogID = poller.lastLogID /\ poller.lastLogID \in Nat
    BY <1>1, <1>2 DEF Poller
  <2>1. \/ poller' = ticked
        \/ /\ ~poller.initialized
           /\ \E newest \in logs \cup {0} : poller' = [ticked EXCEPT !.lastLogID = newest]
    BY DEF Tick, SetPoller
  <2>2. CASE poller' = ticked
    BY <2>0, <2>2
  <2>3. ASSUME NEW newest \in logs \cup {0}, ~poller.initialized,
               poller' = [ticked EXCEPT !.lastLogID = newest]
        PROVE  Ticked
    <3>1. poller.lastLogID = 0
      BY <2>3 DEF IInv, FirstTick
    <3>2. newest \in Nat
      BY <1>1
    <3>3. /\ poller' \in Poller
          /\ poller'.page = ticked.page /\ poller'.pc = ticked.pc
          /\ poller'.initialized = ticked.initialized
          /\ poller'.lastLogID = newest
      <4> HIDE DEF ticked
      <4> QED
        BY <2>0, <2>3, <3>2 DEF Poller
    <3> QED
      BY <2>0, <3>1, <3>2, <3>3
  <2> QED
    BY <2>1, <2>2, <2>3
<1>6. PageBehind' /\ FirstTick'
  BY <1>5 DEF PageBehind, FirstTick
<1> QED
  BY <1>3, <1>4, <1>5, <1>6, <1>7, QuietIInv

\* The steps that neither move the cursor nor deliver a log.
LEMMA QuietStepIInv ==
  ASSUME IInv, CountClients \/ QueryPage \/ EndPage \/ Stopped
  PROVE  IInv'
<1>1. poller \in Poller /\ faults \in Nat /\ logs \subseteq Nat
  BY DEF IInv, TypeOK
<1>2. UNCHANGED <<table, sockets, stopCh, got>>
  BY DEF CountClients, QueryPage, EndPage, Stopped, SetPoller, table, sockets
<1>3. faults' \in Nat
  <2>1. faults' = faults \/ faults' = faults + 1
    BY DEF CountClients, QueryPage, EndPage, Stopped, Fault
  <2> QED
    BY <1>1, <2>1
<1>4. Newer \subseteq Nat /\ \A i \in Newer : i > poller.lastLogID
  BY <1>1 DEF Newer
<1> DEFINE Quiet ==
      /\ poller' \in Poller
      /\ poller'.lastLogID = poller.lastLogID
      /\ poller'.page \subseteq Newer
      /\ poller'.pc # "sending" => poller'.page = {}
      /\ poller'.initialized = poller.initialized
      /\ poller.pc = "waiting" => poller'.pc = "stopped"
<1>5. Quiet
  <2>1. CASE CountClients
    <3>1. \/ poller' = [poller EXCEPT !.pc = "waiting"]
          \/ poller' = [poller EXCEPT !.pc = "querying"]
      BY <2>1 DEF CountClients, SetPoller
    <3>2. poller.page = {} /\ poller.pc = "counting"
      BY <2>1 DEF CountClients, IInv, PageBehind
    <3> QED
      BY <1>1, <3>1, <3>2 DEF Poller
  <2>2. CASE QueryPage
    <3>1. poller.page = {} /\ poller.pc = "querying"
      BY <2>2 DEF QueryPage, IInv, PageBehind
    <3>2. \/ \E page \in SUBSET Newer :
               poller' = [poller EXCEPT !.pc = "sending", !.page = page]
          \/ poller' = [poller EXCEPT !.pc = "waiting"]
      BY <2>2 DEF QueryPage, SetPoller
    <3>3. CASE poller' = [poller EXCEPT !.pc = "waiting"]
      BY <1>1, <3>1, <3>3 DEF Poller
    <3>4. ASSUME NEW page \in SUBSET Newer,
                 poller' = [poller EXCEPT !.pc = "sending", !.page = page]
          PROVE  Quiet
      <4>1. page \in SUBSET Nat
        BY <1>4
      <4> QED
        BY <1>1, <3>1, <3>4, <4>1 DEF Poller
    <3> QED
      BY <3>2, <3>3, <3>4
  <2>3. CASE EndPage
    <3>1. /\ poller' = [poller EXCEPT !.pc = "waiting", !.page = {}]
          /\ poller.pc = "sending"
      BY <2>3 DEF EndPage, SetPoller
    <3> QED
      BY <1>1, <3>1 DEF Poller
  <2>4. CASE Stopped
    <3>1. poller' = [poller EXCEPT !.pc = "stopped"] /\ poller.pc = "waiting"
      BY <2>4 DEF Stopped, SetPoller
    <3>2. poller.page = {}
      BY <3>1 DEF IInv, PageBehind
    <3> QED
      BY <1>1, <3>1, <3>2 DEF Poller
  <2> QED
    BY <2>1, <2>2, <2>3, <2>4
<1>6. PageBehind'
  BY <1>4, <1>5 DEF PageBehind
<1>7. FirstTick'
  <2>1. ~poller.initialized => poller.lastLogID = 0 /\ poller.pc \in {"waiting", "stopped"}
    BY DEF IInv, FirstTick
  <2>2. poller.pc # "stopped"
    BY DEF CountClients, QueryPage, EndPage, Stopped
  <2> QED
    BY <1>5, <2>1, <2>2 DEF FirstTick
<1>8. poller'.lastLogID >= poller.lastLogID
  BY <1>1, <1>5 DEF Poller
<1>9. before' \in [Clients -> SUBSET Nat]
  BY DEF CountClients, QueryPage, EndPage, Stopped, IInv, TypeOK
<1> QED
  BY <1>2, <1>3, <1>5, <1>6, <1>7, <1>8, <1>9, QuietIInv

LEMMA BroadcastIInv ==
  ASSUME IInv, Broadcast
  PROVE  IInv'
<1> USE DEF IInv, TypeOK
<1>1. UNCHANGED <<lastId, inserting, logs, conn, connects, before, stopCh, faults>>
  BY DEF Broadcast, SetPoller, table, sockets
<1>2. PICK id \in poller.page :
        /\ \A j \in poller.page : id <= j
        /\ Deliver(id)
        /\ poller' = [poller EXCEPT !.page = @ \ {id}, !.lastLogID = id]
  BY DEF Broadcast, SetPoller
<1>3. id \in Nat /\ id > poller.lastLogID /\ poller.lastLogID \in Nat
  BY DEF Poller, PageBehind
<1>4. /\ poller' \in Poller
      /\ poller'.lastLogID = id
      /\ poller'.page = poller.page \ {id}
      /\ poller'.pc = poller.pc /\ poller'.initialized = poller.initialized
  BY <1>2, <1>3 DEF Poller
<1>5. PageBehind'
  <2>1. poller.pc = "sending"
    BY DEF Broadcast
  <2>2. ASSUME NEW i \in poller.page \ {id} PROVE i > id
    BY <1>2, <1>3, <2>2 DEF Poller
  <2> QED
    BY <1>4, <2>1, <2>2 DEF PageBehind
<1>6. FirstTick'
  BY <1>4 DEF FirstTick, Broadcast
<1>7. ASSUME NEW c \in Clients
      PROVE  /\ got'[c] \in Seq(Nat)
             /\ \A k \in DOMAIN got'[c] : got'[c][k] <= id
             /\ \A j, k \in DOMAIN got'[c] : j < k => got'[c][j] < got'[c][k]
  <2>1. got'[c] = Append(got[c], id) \/ got'[c] = got[c]
    BY <1>2 DEF Deliver
  <2>2. got[c] \in Seq(Nat)
    OBVIOUS
  <2>3. \A k \in DOMAIN got[c] : got[c][k] \in Nat /\ got[c][k] < id
    <3> SUFFICES ASSUME NEW k \in DOMAIN got[c] PROVE got[c][k] \in Nat /\ got[c][k] < id
      OBVIOUS
    <3>1. got[c][k] \in Nat /\ got[c][k] <= poller.lastLogID
      BY <2>2 DEF ReceivedBefore
    <3> QED
      BY <1>3, <3>1
  <2>4. \A j, k \in DOMAIN got[c] : j < k => got[c][j] < got[c][k]
    BY DEF InOrder
  <2>5. CASE got'[c] = got[c]
    BY <1>3, <2>2, <2>3, <2>4, <2>5
  <2>6. CASE got'[c] = Append(got[c], id)
    BY <1>3, <2>2, <2>3, <2>4, <2>6, AppendGot
  <2> QED
    BY <2>1, <2>5, <2>6
<1>8. got' \in [Clients -> Seq(Nat)]
  <2>1. got' = [c \in Clients |-> got'[c]]
    BY <1>2 DEF Deliver
  <2> QED
    BY <1>7, <2>1
<1>9. ReceivedBefore' /\ InOrder'
  BY <1>4, <1>7 DEF ReceivedBefore, InOrder
<1> QED
  BY <1>1, <1>4, <1>5, <1>6, <1>8, <1>9 DEF SequenceAhead

LEMMA NextIInv == IInv /\ [Next]_vars => IInv'
<1> SUFFICES ASSUME IInv, [Next]_vars PROVE IInv'
  OBVIOUS
<1>1. CASE Stop
  BY <1>1, PollerUnchanged DEF Stop, table, sockets, IInv, TypeOK, SequenceAhead
<1>2. CASE UNCHANGED vars
  BY <1>2, PollerUnchanged DEF vars, table, sockets, IInv, TypeOK, SequenceAhead
<1> QED
  BY <1>1, <1>2, WriterIInv, ClientIInv, TickIInv, QuietStepIInv, BroadcastIInv
  DEF Next, PollerStep

\* The invariant holds in every reachable state, for all constants.
THEOREM Invariance == Spec => []IInv
<1>1. Init => IInv
  BY InitIInv
<1>2. IInv /\ [Next]_vars => IInv'
  BY NextIInv
<1> QED
  BY <1>1, <1>2, PTL DEF Spec

\* The hub's variables keep their types: in particular only ids the sequence
\* has given out are logs.
THEOREM TypeCorrect == Spec => []TypeOK
  BY Invariance, PTL DEF IInv

\* However many browsers, writers and failures there are and in whatever order
\* inserts commit, no browser sees a log twice or out of order.
THEOREM DeliversInOrder == Spec => []InOrder
  BY Invariance, PTL DEF IInv

-----------------------------------------------------------------------------
(* Nothing is skipped, if inserts commit in the order of their ids.        *)

\* Inserts under way will only add logs behind those there are.
CommitOrder ==
  /\ \A w \in Writers : inserting[w] # 0 => \A i \in logs : i < inserting[w]
  /\ \A v, w \in Writers : v # w /\ inserting[v] = inserting[w] => inserting[v] = 0

CursorIsLog == poller.lastLogID \in logs \cup {0} /\ poller.page \subseteq logs

\* The page has no holes.
PageComplete ==
  \A i \in logs, j \in poller.page : i > poller.lastLogID /\ i <= j => i \in poller.page

SInv == CommitOrder /\ CursorIsLog /\ PageComplete /\ NothingSkipped

LEMMA InitSInv == Init => SInv
  BY DEF Init, SInv, CommitOrder, CursorIsLog, PageComplete,
         NothingSkipped

LEMMA InsertSInv ==
  ASSUME IInv, SInv, NEW w \in Writers, Insert(w) \/ Rollback(w)
  PROVE  SInv'
<1>1. UNCHANGED <<logs, conn, before, poller, got>>
  BY DEF Insert, Rollback, sockets
<1>2. /\ lastId \in Nat /\ logs \subseteq 1..lastId
      /\ inserting \in [Writers -> Nat]
      /\ \A v \in Writers : inserting[v] \in Nat /\ inserting[v] <= lastId
  BY DEF IInv, TypeOK, SequenceAhead
<1>3. CommitOrder'
  <2>1. CASE inserting' = [inserting EXCEPT ![w] = 0]
    BY <1>1, <1>2, <2>1 DEF SInv, CommitOrder
  <2>2. CASE inserting' = [inserting EXCEPT ![w] = lastId + 1]
    BY <1>1, <1>2, <2>2 DEF SInv, CommitOrder
  <2> QED
    BY <2>1, <2>2 DEF Insert, Rollback
<1> QED
  BY <1>1, <1>3 DEF SInv, CursorIsLog, PageComplete, NothingSkipped, Received

LEMMA CommitSInv ==
  ASSUME IInv, SInv, ~LateCommits, NEW w \in Writers, Commit(w)
  PROVE  SInv'
<1>1. UNCHANGED <<lastId, conn, before, poller, got>>
  BY DEF Commit, sockets
<1>2. /\ inserting[w] # 0
      /\ \A v \in Writers : inserting[v] = 0 \/ inserting[v] >= inserting[w]
      /\ logs' = logs \cup {inserting[w]}
      /\ inserting' = [inserting EXCEPT ![w] = 0]
  BY DEF Commit
<1>3. /\ logs \subseteq Nat /\ inserting \in [Writers -> Nat]
      /\ \A v \in Writers : inserting[v] \in Nat
      /\ poller.lastLogID \in Nat /\ poller.page \subseteq Nat
  BY DEF IInv, TypeOK, Poller
<1>4. \A i \in logs : i < inserting[w]
  BY <1>2 DEF SInv, CommitOrder
<1>5. CommitOrder'
  <2>1. ASSUME NEW v \in Writers, inserting'[v] # 0, NEW i \in logs'
        PROVE  i < inserting'[v]
    <3>1. v # w /\ inserting'[v] = inserting[v]
      BY <1>2, <1>3, <2>1
    <3>2. inserting[v] > inserting[w]
      BY <1>2, <1>3, <2>1, <3>1 DEF SInv, CommitOrder
    <3>3. i \in Nat /\ i <= inserting[w]
      BY <1>2, <1>3, <1>4
    <3>4. inserting[v] \in Nat /\ inserting[w] \in Nat
      BY <1>3
    <3> QED
      BY <3>1, <3>2, <3>3, <3>4
  <2>2. ASSUME NEW u \in Writers, NEW v \in Writers, u # v, inserting'[u] = inserting'[v]
        PROVE  inserting'[u] = 0
    <3>1. inserting[u] = inserting[v] => inserting[u] = 0
      BY <2>2 DEF SInv, CommitOrder
    <3>2. inserting'[u] = IF u = w THEN 0 ELSE inserting[u]
      BY <1>2, <1>3
    <3>3. inserting'[v] = IF v = w THEN 0 ELSE inserting[v]
      BY <1>2, <1>3
    <3> QED
      BY <2>2, <3>1, <3>2, <3>3
  <2> QED
    BY <2>1, <2>2 DEF CommitOrder
<1>6. CursorIsLog'
  BY <1>1, <1>2 DEF SInv, CursorIsLog
<1>7. PageComplete'
  BY <1>1, <1>2, <1>3, <1>4 DEF SInv, PageComplete, CursorIsLog
<1>8. NothingSkipped'
  <2>1. inserting[w] > poller.lastLogID
    BY <1>2, <1>3, <1>4 DEF SInv, CursorIsLog
  <2> QED
    BY <1>1, <1>2, <1>3, <2>1 DEF SInv, NothingSkipped, Received
<1> QED
  BY <1>1, <1>5, <1>6, <1>7, <1>8 DEF SInv

LEMMA ClientSInv ==
  ASSUME IInv, SInv, NEW c \in Clients,
         Register(c) \/ Unregister(c) \/ Stall(c)
  PROVE  SInv'
<1>1. UNCHANGED <<lastId, inserting, logs, poller, got>>
  BY DEF Register, Unregister, Stall, table
<1>2. ASSUME NEW d \in Clients, conn'[d] = "open"
      PROVE  \/ before'[d] = logs
             \/ conn[d] = "open" /\ before'[d] = before[d]
  <2>1. /\ conn \in [Clients -> {"closed", "open", "stuck"}]
        /\ before \in [Clients -> SUBSET Nat]
    BY DEF IInv, TypeOK
  <2> QED
    BY <1>2, <2>1 DEF Register, Unregister, Stall
<1>3. NothingSkipped'
  BY <1>1, <1>2 DEF SInv, NothingSkipped, Received
<1> QED
  BY <1>1, <1>3 DEF SInv, CommitOrder, CursorIsLog, PageComplete

LEMMA PollerSInv ==
  ASSUME IInv, SInv, Tick \/ CountClients \/ QueryPage \/ EndPage \/ Stopped
  PROVE  SInv'
<1>1. UNCHANGED <<lastId, inserting, logs, conn, got>>
  BY DEF Tick, CountClients, QueryPage, EndPage, Stopped, SetPoller, table, sockets
<1>2. poller \in Poller /\ logs \subseteq Nat
  BY DEF IInv, TypeOK
<1> DEFINE Kept ==
      /\ \/ before' = before /\ poller'.lastLogID = poller.lastLogID
         \/ before' = [c \in Clients |-> logs]
      /\ poller'.lastLogID \in logs \cup {0}
      /\ poller'.page \subseteq logs
      /\ PageComplete'
<1>3. Kept
  <2>1. CASE Tick
    <3>1. poller.page = {}
      BY <2>1 DEF Tick, IInv, PageBehind
    <3> DEFINE ticked == [poller EXCEPT !.pc = "counting", !.initialized = TRUE]
    <3>2. \/ poller' = ticked /\ before' = before
          \/ poller' = ticked /\ before' = [c \in Clients |-> logs]
          \/ /\ before' = [c \in Clients |-> logs]
             /\ \E newest \in logs \cup {0} :
                  poller' = [ticked EXCEPT !.lastLogID = newest]
      BY <2>1 DEF Tick, SetPoller
    <3>3. /\ poller'.page = {}
          /\ \/ poller'.lastLogID = poller.lastLogID
             \/ poller'.lastLogID \in logs \cup {0}
          /\ \/ before' = before /\ poller'.lastLogID = poller.lastLogID
             \/ before' = [c \in Clients |-> logs]
      BY <1>2, <3>1, <3>2 DEF Poller
    <3> QED
      BY <3>3 DEF SInv, CursorIsLog, PageComplete
  <2>2. CASE CountClients \/ Stopped
    <3>1. /\ poller'.page = poller.page
          /\ poller'.lastLogID = poller.lastLogID
          /\ before' = before
      BY <1>2, <2>2 DEF CountClients, Stopped, SetPoller, Poller
    <3> QED
      BY <1>1, <3>1 DEF SInv, CursorIsLog, PageComplete
  <2>3. CASE QueryPage
    <3>0. before' = before
      BY <2>3 DEF QueryPage
    <3>1. \/ /\ poller' = [poller EXCEPT !.pc = "waiting"]
             /\ poller.page = {}
          \/ \E page \in SUBSET Newer :
               /\ \A i \in page, j \in Newer \ page : i < j
               /\ poller' = [poller EXCEPT !.pc = "sending", !.page = page]
      BY <2>3 DEF QueryPage, SetPoller, IInv, PageBehind
    <3>2. CASE poller' = [poller EXCEPT !.pc = "waiting"] /\ poller.page = {}
      BY <1>1, <1>2, <3>0, <3>2 DEF SInv, CursorIsLog, PageComplete, Poller
    <3>3. ASSUME NEW page \in SUBSET Newer,
                 \A i \in page, j \in Newer \ page : i < j,
                 poller' = [poller EXCEPT !.pc = "sending", !.page = page]
          PROVE  Kept
      <4>1. /\ poller'.page = page
            /\ poller'.lastLogID = poller.lastLogID
        BY <1>2, <3>3 DEF Poller
      <4>2. page \subseteq logs
        BY DEF Newer
      <4>3. PageComplete'
        <5> SUFFICES ASSUME NEW i \in logs, NEW j \in page,
                            i > poller.lastLogID, i <= j
                     PROVE  i \in page
          BY <1>1, <4>1 DEF PageComplete
        <5>1. i \in Newer
          BY DEF Newer
        <5>2. i \in Nat /\ j \in Nat
          BY <1>2, <4>2
        <5> QED
          BY <3>3, <5>1, <5>2
      <4> QED
        BY <3>0, <4>1, <4>2, <4>3 DEF SInv, CursorIsLog
    <3> QED
      BY <3>1, <3>2, <3>3
  <2>4. CASE EndPage
    <3>1. /\ poller'.page = {}
          /\ poller'.lastLogID = poller.lastLogID
          /\ before' = before
      BY <1>2, <2>4 DEF EndPage, SetPoller, Poller
    <3> QED
      BY <3>1 DEF SInv, CursorIsLog, PageComplete
  <2> QED
    BY <2>1, <2>2, <2>3, <2>4
<1>4. CursorIsLog'
  BY <1>1, <1>3 DEF SInv, CursorIsLog
<1>5. NothingSkipped'
  BY <1>1, <1>3 DEF SInv, NothingSkipped, Received
<1>6. CommitOrder'
  BY <1>1 DEF SInv, CommitOrder
<1> QED
  BY <1>3, <1>4, <1>5, <1>6 DEF SInv

LEMMA BroadcastSInv ==
  ASSUME IInv, SInv, Broadcast
  PROVE  SInv'
<1>1. UNCHANGED <<lastId, inserting, logs, conn, before>>
  BY DEF Broadcast, SetPoller, table, sockets
<1>2. PICK id \in poller.page :
        /\ \A j \in poller.page : id <= j
        /\ Deliver(id)
        /\ poller' = [poller EXCEPT !.page = @ \ {id}, !.lastLogID = id]
  BY DEF Broadcast, SetPoller
<1>3. poller \in Poller /\ logs \subseteq Nat /\ got \in [Clients -> Seq(Nat)]
  BY DEF IInv, TypeOK
<1>4. poller.page \subseteq logs /\ id \in Nat /\ poller.lastLogID \in Nat
      /\ id > poller.lastLogID
  BY <1>3 DEF SInv, CursorIsLog, Poller, IInv, PageBehind
<1>5. /\ poller'.lastLogID = id
      /\ poller'.page = poller.page \ {id}
  BY <1>2, <1>3 DEF Poller
<1>6. CursorIsLog' /\ CommitOrder'
  BY <1>1, <1>4, <1>5 DEF SInv, CursorIsLog, CommitOrder
<1>7. PageComplete'
  <2> SUFFICES ASSUME NEW i \in logs, NEW j \in poller.page \ {id}, i > id, i <= j
               PROVE  i \in poller.page \ {id}
    BY <1>1, <1>5 DEF PageComplete
  <2>1. i \in Nat /\ j \in Nat
    BY <1>3, <1>4
  <2> QED
    BY <1>4, <2>1 DEF SInv, PageComplete
<1>8. NothingSkipped'
  <2> SUFFICES ASSUME NEW c \in Clients, conn[c] = "open",
                      NEW i \in logs \ before[c], i <= id
               PROVE  i \in Received(c)'
    BY <1>1, <1>5 DEF NothingSkipped
  <2>1. got'[c] = Append(got[c], id) /\ got[c] \in Seq(Nat)
    BY <1>2, <1>3 DEF Deliver
  <2>2. id \in Received(c)' /\ Received(c) \subseteq Received(c)'
    BY <1>4, <2>1, AppendGot DEF Received
  <2>3. CASE i <= poller.lastLogID
    BY <2>2, <2>3 DEF SInv, NothingSkipped
  <2>4. CASE i > poller.lastLogID
    <3>1. i \in poller.page /\ i \in Nat
      BY <1>3, <2>4 DEF SInv, PageComplete
    <3>2. i = id
      BY <1>2, <1>4, <3>1
    <3> QED
      BY <2>2, <3>2
  <2>5. i \in Nat
    BY <1>3
  <2> QED
    BY <1>4, <2>3, <2>4, <2>5
<1> QED
  BY <1>6, <1>7, <1>8 DEF SInv

LEMMA NextSInv ==
  ASSUME ~LateCommits, IInv, SInv, [Next]_vars
  PROVE  SInv'
<1>1. CASE Stop \/ UNCHANGED vars
  <2>1. UNCHANGED <<inserting, logs, conn, before, poller, got>>
    BY <1>1 DEF Stop, vars, table, sockets
  <2> QED
    BY <2>1 DEF SInv, CommitOrder, CursorIsLog, PageComplete,
                NothingSkipped, Received
<1> QED
  BY <1>1, InsertSInv, CommitSInv, ClientSInv, PollerSInv, BroadcastSInv
  DEF Next, PollerStep

\* If inserts commit in the order of their ids, the cursor never passes a log
\* that a connected browser lacks, for every page size and any number of
\* browsers, writers and failures.
THEOREM SkipsNothing ==
  ASSUME ~LateCommits
  PROVE  Spec => []NothingSkipped
<1>1. Init => SInv
  BY InitSInv
<1>2. IInv /\ SInv /\ [Next]_vars => SInv'
  BY NextSInv
<1>3. SInv => NothingSkipped
  BY DEF SInv
<1> QED
  BY <1>1, <1>2, <1>3, Invariance, PTL DEF Spec

=============================================================================
