------------------------------- MODULE LiveFeed -------------------------------
(***************************************************************************)
(* The page of the live log: one request for the recent logs, which fills  *)
(* the feed only while it is empty, and a WebSocket that appends what the  *)
(* hub broadcasts and is opened again three seconds after every close.     *)
(*                                                                         *)
(* The request answers newest first, the socket appends: the two orders    *)
(* meet in the feed, and a log may come through both.                      *)
(***************************************************************************)
EXTENDS Integers, Sequences

CONSTANTS MaxLiveLogsBuffer,   \* MAX_LIVE_LOGS_BUFFER
          RecentLimit,         \* the limit of the request
          MaxWritten, MaxFeedVisits   \* bounds

ASSUME FeedAssumption == /\ {MaxLiveLogsBuffer, RecentLimit, MaxWritten} \subseteq Nat \ {0}
                         /\ MaxFeedVisits \in Nat

VARIABLES logs,        \* the feed: log numbers with their clientId
          logSequence, \* logSequenceRef: the next clientId
          connected,
          sockets,     \* how many sockets are connecting, open or closing
          timers,      \* reconnect timers
          onFeed,      \* whether the page is shown, that is, its effects not disposed
          recent,      \* the request for the recent logs
          written,     \* logs 1..written are in the database
          sent,        \* logs 1..sent have been broadcast by the hub
          feedVisits

feedVars == <<logs, logSequence, connected, sockets, timers, onFeed, recent, written, sent,
              feedVisits>>

NoSockets == [connecting |-> 0, open |-> 0, closing |-> 0]
Live      == sockets.connecting + sockets.open
NoRecent  == [at |-> "none", got |-> <<>>]

FeedInit ==
  /\ logs = <<>> /\ logSequence = 0 /\ connected = FALSE
  /\ sockets = NoSockets /\ timers = 0 /\ onFeed = FALSE /\ recent = NoRecent
  /\ written = 1 /\ sent = 1 /\ feedVisits = 0

\* Mounting: the request and the first connect.  A socket of the last visit has closed;
\* its close event does nothing any more.
OpenFeed ==
  /\ ~onFeed /\ sockets = NoSockets /\ feedVisits < MaxFeedVisits
  /\ feedVisits' = feedVisits + 1 /\ onFeed' = TRUE
  /\ logs' = <<>> /\ logSequence' = 0 /\ connected' = FALSE
  /\ sockets' = [sockets EXCEPT !.connecting = @ + 1]
  /\ recent' = [at |-> "out", got |-> <<>>]
  /\ UNCHANGED <<timers, written, sent>>

\* The cleanup of the two effects.
LeaveFeed ==
  /\ onFeed /\ onFeed' = FALSE
  /\ timers' = 0
  /\ sockets' = [sockets EXCEPT !.connecting = 0, !.open = 0, !.closing = @ + Live]
  /\ recent' = NoRecent
  /\ UNCHANGED <<logs, logSequence, connected, written, sent, feedVisits>>

\* GET /api/logs answers newest first.
RecentRead ==
  /\ recent.at = "out"
  /\ LET newest == IF written > RecentLimit THEN RecentLimit ELSE written
     IN  recent' = [at |-> "ok", got |-> [k \in 1..newest |-> written + 1 - k]]
  /\ UNCHANGED <<logs, logSequence, connected, sockets, timers, onFeed, written, sent,
                 feedVisits>>

RecentFails ==
  /\ recent.at = "out" /\ recent' = NoRecent
  /\ UNCHANGED <<logs, logSequence, connected, sockets, timers, onFeed, written, sent,
                 feedVisits>>

\* Seeded bug: the answer's rows take their keys without moving the sequence on.
NextKeyKept(n) == logSequence

NextKey(n) == logSequence + n

\* Every row takes a clientId, also when the feed is not empty any more and stays.
LoadRecentLogs ==
  /\ recent.at = "ok" /\ recent' = NoRecent
  /\ logs' = IF logs = <<>>
               THEN [k \in DOMAIN recent.got |-> [log |-> recent.got[k], key |-> logSequence + k - 1]]
               ELSE logs
  /\ logSequence' = NextKey(Len(recent.got))
  /\ UNCHANGED <<connected, sockets, timers, onFeed, written, sent, feedVisits>>

SocketOpens ==
  /\ sockets.connecting > 0 /\ connected' = TRUE
  /\ sockets' = [sockets EXCEPT !.connecting = @ - 1, !.open = @ + 1]
  /\ UNCHANGED <<logs, logSequence, timers, onFeed, recent, written, sent, feedVisits>>

\* Seeded bug: the error handler starts a reconnect timer of its own.
SocketErrorReconnects ==
  /\ \E s \in {"connecting", "open"} :
       /\ sockets[s] > 0
       /\ sockets' = [sockets EXCEPT ![s] = @ - 1, !.closing = @ + 1]
  /\ timers' = timers + 1
  /\ UNCHANGED <<logs, logSequence, connected, onFeed, recent, written, sent, feedVisits>>

\* The connection ends or cannot be made: an error closes the socket, or the hub did.
SocketError ==
  /\ \E s \in {"connecting", "open"} :
       /\ sockets[s] > 0
       /\ sockets' = [sockets EXCEPT ![s] = @ - 1, !.closing = @ + 1]
  /\ UNCHANGED <<logs, logSequence, connected, timers, onFeed, recent, written, sent,
                 feedVisits>>

\* Seeded bug: only a socket that had been open is opened again.
ReconnectsIfConnected == onFeed /\ connected

Reconnects == onFeed

\* The close event.
SocketCloses ==
  /\ sockets.closing > 0
  /\ sockets' = [sockets EXCEPT !.closing = @ - 1]
  /\ timers' = IF Reconnects THEN timers + 1 ELSE timers
  /\ connected' = IF onFeed THEN FALSE ELSE connected
  /\ UNCHANGED <<logs, logSequence, onFeed, recent, written, sent, feedVisits>>

\* The timer fires: connect.
ConnectAgain ==
  /\ timers > 0 /\ timers' = timers - 1
  /\ sockets' = IF onFeed THEN [sockets EXCEPT !.connecting = @ + 1] ELSE sockets
  /\ UNCHANGED <<logs, logSequence, connected, onFeed, recent, written, sent, feedVisits>>

LogWritten ==
  /\ written < MaxWritten /\ written' = written + 1
  /\ UNCHANGED <<logs, logSequence, connected, sockets, timers, onFeed, recent, sent,
                 feedVisits>>

\* Seeded bug: the feed is not cut.
AppendedUncut(s, x) == Append(s, x)

\* slice(-MAX) keeps the last MAX, then one more is appended.
Appended(s, x) ==
  Append(SubSeq(s, IF Len(s) > MaxLiveLogsBuffer THEN Len(s) - MaxLiveLogsBuffer + 1 ELSE 1,
                Len(s)), x)

\* The hub broadcasts the next log; without an open socket the page misses it.
LogArrives ==
  /\ sent < written /\ sent' = sent + 1
  /\ IF sockets.open > 0
       THEN /\ logs' = Appended(logs, [log |-> sent', key |-> logSequence])
            /\ logSequence' = NextKey(1)
       ELSE UNCHANGED <<logs, logSequence>>
  /\ UNCHANGED <<connected, sockets, timers, onFeed, recent, written, feedVisits>>

ClearFeed ==
  /\ onFeed /\ logs # <<>> /\ logs' = <<>>
  /\ UNCHANGED <<logSequence, connected, sockets, timers, onFeed, recent, written, sent,
                 feedVisits>>

FeedNext ==
  \/ OpenFeed \/ LeaveFeed \/ RecentRead \/ RecentFails \/ LoadRecentLogs
  \/ SocketOpens \/ SocketError \/ SocketCloses \/ ConnectAgain
  \/ LogWritten \/ LogArrives \/ ClearFeed

\* A close event follows every close, and a timer fires.
FeedFair == WF_feedVars(SocketCloses) /\ WF_feedVars(ConnectAgain)
FeedSpec == FeedInit /\ [][FeedNext]_feedVars /\ FeedFair

----------------------------------------------------------------------------
FeedTypeOK ==
  /\ \A k \in DOMAIN logs : logs[k] \in [log : 1..MaxWritten, key : 0..logSequence - 1]
  /\ Len(logs) <= MaxLiveLogsBuffer + 1 \/ Len(logs) <= RecentLimit
  /\ logSequence \in Nat /\ connected \in BOOLEAN /\ onFeed \in BOOLEAN
  /\ sockets \in [{"connecting", "open", "closing"} -> 0..2] /\ timers \in 0..2
  /\ recent.at \in {"none", "out", "ok"}
  /\ written \in 1..MaxWritten /\ sent \in 1..written /\ feedVisits \in 0..MaxFeedVisits

\* The page never has two connections, nor one and a timer that will open another,
\* which would show every log twice; and none outlives the page (LiveLogStream).
OneSocket ==
  /\ Live + sockets.closing + timers <= 1
  /\ ~onFeed => Live + timers = 0

\* No two rows of the feed have the same clientId, the key by which React tells them
\* apart, whichever of the two sources they came from and whatever was cleared between.
FeedKeysUnique ==
  \A j, k \in DOMAIN logs : logs[j].key = logs[k].key => j = k

\* A page that stays open does not stop trying: with no socket there is another one
\* after a while, also when the last could not even be opened.
TriesAnew == (onFeed /\ Live = 0) ~> (Live > 0 \/ ~onFeed)
==============================================================================
