------------------------------- MODULE LogHub -------------------------------
(***************************************************************************)
(* The log stream of the backend: workers insert rows into execution_logs, *)
(* the hub's poller reads the rows behind its cursor, a page at a time, and *)
(* broadcasts them to the browsers registered at that moment.              *)
(*                                                                         *)
(* A log is its id.  Ids come from a sequence when the insert starts and   *)
(* become visible when it commits.                                         *)
(***************************************************************************)
EXTENDS Naturals, Sequences, FiniteSets

CONSTANTS
  Writers,      \* database connections that insert logs
  Clients,      \* browsers
  PageSize,     \* LIMIT of the poller's query
  Old,          \* rows in the table before the hub starts
  LateCommits,  \* may an insert commit after one with a larger id?
  Faults,       \* the kinds of failure this instance explores
  MaxLogs,      \* bound: ids
  MaxConnects,  \* bound: connections of each browser
  MaxFaults     \* bound: failures of one behaviour

ASSUME ConstantsAssumption ==
  /\ PageSize \in Nat \ {0}
  /\ Old \in Nat
  /\ LateCommits \in BOOLEAN
  /\ Faults \subseteq {"init", "query", "rows", "insert"}
  /\ MaxLogs \in Nat
  /\ MaxConnects \in Nat
  /\ MaxFaults \in Nat

VARIABLES
  lastId,       \* the sequence of execution_logs.id
  inserting,    \* inserting[w]: id of the insert under way, 0 for none
  logs,         \* execution_logs: the committed ids
  conn,         \* conn[c]: stuck is a connection whose write timed out
  connects,     \* connections made by each browser
  poller,       \* the loop of StartPolling
  stopCh,       \* is the stop channel closed?
  got,          \* got[c]: what the browser has received, in order
  before,       \* history: before[c], the logs there were when c connected or,
                \* if that was later, when the cursor was initialized
  faults        \* failures so far

table == <<lastId, inserting, logs>>
sockets == <<conn, connects>>
vars == <<table, sockets, before, poller, stopCh, got, faults>>

Poller == [pc : {"waiting", "counting", "querying", "sending", "stopped"},
           initialized : BOOLEAN, lastLogID : Nat, page : SUBSET Nat]

TypeOK ==
  /\ lastId \in Nat
  /\ inserting \in [Writers -> Nat]
  /\ logs \subseteq 1..lastId
  /\ conn \in [Clients -> {"closed", "open", "stuck"}]
  /\ connects \in [Clients -> Nat]
  /\ poller \in Poller
  /\ stopCh \in BOOLEAN
  /\ got \in [Clients -> Seq(Nat)]
  /\ before \in [Clients -> SUBSET Nat]
  /\ faults \in Nat

Fault(kind) ==
  /\ kind \in Faults
  /\ faults < MaxFaults
  /\ faults' = faults + 1

Received(c) == {got[c][k] : k \in DOMAIN got[c]}

-----------------------------------------------------------------------------
(* The workers' side: one insert per log line.                             *)

\* Seeded bug: the id is the newest one plus one instead of the sequence's next.
InsertAfterNewest(w) ==
  /\ inserting[w] = 0
  /\ lastId < MaxLogs
  /\ inserting' = [inserting EXCEPT ![w] = lastId + 1]
  /\ UNCHANGED <<lastId, logs, sockets, before, poller, stopCh, got, faults>>

Insert(w) ==
  /\ inserting[w] = 0
  /\ lastId < MaxLogs
  /\ lastId' = lastId + 1
  /\ inserting' = [inserting EXCEPT ![w] = lastId + 1]
  /\ UNCHANGED <<logs, sockets, before, poller, stopCh, got, faults>>

Commit(w) ==
  /\ inserting[w] # 0
  /\ LateCommits \/ \A v \in Writers : inserting[v] = 0 \/ inserting[v] >= inserting[w]
  /\ logs' = logs \cup {inserting[w]}
  /\ inserting' = [inserting EXCEPT ![w] = 0]
  /\ UNCHANGED <<lastId, sockets, before, poller, stopCh, got, faults>>

\* An insert that fails uses up its id.
Rollback(w) ==
  /\ inserting[w] # 0
  /\ Fault("insert")
  /\ inserting' = [inserting EXCEPT ![w] = 0]
  /\ UNCHANGED <<lastId, logs, sockets, before, poller, stopCh, got>>

-----------------------------------------------------------------------------
(* HandleWebSocket.                                                        *)

Register(c) ==
  /\ conn[c] = "closed"
  /\ connects[c] < MaxConnects
  /\ conn' = [conn EXCEPT ![c] = "open"]
  /\ connects' = [connects EXCEPT ![c] = @ + 1]
  /\ before' = [before EXCEPT ![c] = logs]
  /\ UNCHANGED <<table, poller, stopCh, got, faults>>

Unregister(c) ==
  /\ conn[c] # "closed"
  /\ conn' = [conn EXCEPT ![c] = "closed"]
  /\ UNCHANGED <<table, connects, before, poller, stopCh, got, faults>>

\* A write runs into its deadline.  No later write to that connection works,
\* and nobody takes it out of the clients until the browser goes away.
Stall(c) ==
  /\ conn[c] = "open"
  /\ conn' = [conn EXCEPT ![c] = "stuck"]
  /\ UNCHANGED <<table, connects, before, poller, stopCh, got, faults>>

-----------------------------------------------------------------------------
(* StartPolling: one tick.                                                 *)

SetPoller(changed) ==
  /\ poller' = changed
  /\ UNCHANGED <<table, sockets, stopCh>>

\* The first tick moves the cursor to the newest log.  If that query fails the
\* cursor stays at 0 and is initialized all the same.
Tick ==
  LET ticked == [poller EXCEPT !.pc = "counting", !.initialized = TRUE] IN
  /\ poller.pc = "waiting"
  /\ UNCHANGED got
  /\ \/ /\ poller.initialized
        /\ SetPoller(ticked)
        /\ UNCHANGED <<before, faults>>
     \/ /\ ~poller.initialized
        /\ before' = [c \in Clients |-> logs]
        /\ \/ /\ \E newest \in logs \cup {0} :
                  /\ \A i \in logs : i <= newest
                  /\ SetPoller([ticked EXCEPT !.lastLogID = newest])
              /\ UNCHANGED faults
           \/ Fault("init") /\ SetPoller(ticked)

\* Seeded bug: the loop returns instead of waiting for the next tick.
CountClientsOnce ==
  /\ poller.pc = "counting"
  /\ SetPoller([poller EXCEPT
                  !.pc = IF \A c \in Clients : conn[c] = "closed" THEN "stopped"
                         ELSE "querying"])
  /\ UNCHANGED <<before, got, faults>>

CountClients ==
  /\ poller.pc = "counting"
  /\ SetPoller([poller EXCEPT
                  !.pc = IF \A c \in Clients : conn[c] = "closed" THEN "waiting"
                         ELSE "querying"])
  /\ UNCHANGED <<before, got, faults>>

Newer == {i \in logs : i > poller.lastLogID}

\* Seeded bug: LIMIT without ORDER BY.
QueryAnyPage ==
  /\ poller.pc = "querying"
  /\ UNCHANGED <<before, got, faults>>
  /\ \E page \in SUBSET Newer :
       /\ Cardinality(page) <= PageSize
       /\ page = Newer \/ Cardinality(page) = PageSize
       /\ SetPoller([poller EXCEPT !.pc = "sending", !.page = page])

\* The first PageSize rows behind the cursor.
QueryPage ==
  /\ poller.pc = "querying"
  /\ UNCHANGED <<before, got>>
  /\ \/ /\ UNCHANGED faults
        /\ \E page \in SUBSET Newer :
             /\ Cardinality(page) <= PageSize
             /\ page = Newer \/ Cardinality(page) = PageSize
             /\ \A i \in page, j \in Newer \ page : i < j
             /\ SetPoller([poller EXCEPT !.pc = "sending", !.page = page])
     \/ /\ Fault("query")
        /\ SetPoller([poller EXCEPT !.pc = "waiting"])

Deliver(id) ==
  got' = [c \in Clients |-> IF conn[c] = "open" THEN Append(got[c], id) ELSE got[c]]

\* Seeded bug: the cursor moves when the page is through.
BroadcastAhead ==
  /\ poller.pc = "sending"
  /\ \E id \in poller.page :
       /\ \A j \in poller.page : id <= j
       /\ Deliver(id)
       /\ SetPoller([poller EXCEPT !.page = @ \ {id},
                                   !.lastLogID = IF poller.page = {id} THEN id ELSE @])
  /\ UNCHANGED <<before, faults>>

\* The next row: the cursor moves, then the log goes to every client.
Broadcast ==
  /\ poller.pc = "sending"
  /\ \E id \in poller.page :
       /\ \A j \in poller.page : id <= j
       /\ Deliver(id)
       /\ SetPoller([poller EXCEPT !.page = @ \ {id}, !.lastLogID = id])
  /\ UNCHANGED <<before, faults>>

\* The page is through, or the rest of it cannot be read any more: the query's
\* context ends while slow clients are written to.
EndPage ==
  /\ poller.pc = "sending"
  /\ IF poller.page = {} THEN UNCHANGED faults ELSE Fault("rows")
  /\ SetPoller([poller EXCEPT !.pc = "waiting", !.page = {}])
  /\ UNCHANGED <<before, got>>

Stop ==
  /\ ~stopCh
  /\ stopCh' = TRUE
  /\ UNCHANGED <<table, sockets, before, poller, got, faults>>

\* With a tick due as well, the loop takes either.
Stopped ==
  /\ poller.pc = "waiting"
  /\ stopCh
  /\ SetPoller([poller EXCEPT !.pc = "stopped"])
  /\ UNCHANGED <<before, got, faults>>

-----------------------------------------------------------------------------
Init ==
  /\ lastId = Old
  /\ inserting = [w \in Writers |-> 0]
  /\ logs = 1..Old
  /\ conn = [c \in Clients |-> "closed"]
  /\ connects = [c \in Clients |-> 0]
  /\ poller = [pc |-> "waiting", initialized |-> FALSE, lastLogID |-> 0, page |-> {}]
  /\ stopCh = FALSE
  /\ got = [c \in Clients |-> <<>>]
  /\ before = [c \in Clients |-> {}]
  /\ faults = 0

PollerStep == Tick \/ CountClients \/ QueryPage \/ Broadcast \/ EndPage \/ Stopped

Next ==
  \/ \E w \in Writers : Insert(w) \/ Commit(w) \/ Rollback(w)
  \/ \E c \in Clients : Register(c) \/ Unregister(c) \/ Stall(c)
  \/ PollerStep
  \/ Stop

Spec == Init /\ [][Next]_vars

\* The ticker ticks and the poller goes on.
FairSpec == Spec /\ WF_vars(PollerStep)

-----------------------------------------------------------------------------
(* Properties.                                                             *)

\* A browser never sees a log twice or out of order, also not after a page
\* broken off in the middle, a failed query or a reconnect.
InOrder ==
  \A c \in Clients : \A j, k \in DOMAIN got[c] : j < k => got[c][j] < got[c][k]

\* From the first tick on, the cursor never passes a log that a connected
\* browser has not received:
\* "polls new execution_logs entries and broadcasts ... to all connected
\* clients".
NothingSkipped ==
  \A c \in Clients :
    conn[c] = "open" =>
      \A i \in logs \ before[c] : i <= poller.lastLogID => i \in Received(c)

\* From the first tick on, a log written while a browser is connected reaches
\* it, as long as it stays and the hub is not stopped.
EventuallyDelivered ==
  \A c \in Clients : \A i \in 1..MaxLogs :
    (poller.initialized /\ conn[c] = "open" /\ i \in logs \ before[c])
      ~> (i \in Received(c) \/ conn[c] # "open" \/ stopCh)

=============================================================================
