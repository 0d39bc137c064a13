------------------------------- MODULE Account -------------------------------
(***************************************************************************)
(* The account of the browser tab and its list of chat sessions: the hooks *)
(* useAuth and useSessions behind AIContext, and the rows, the New Chat    *)
(* button and the Sign Out button that the sidebar hangs on them.  Every   *)
(* handler awaits one or two calls of the agent, and nothing keeps two     *)
(* handlers from being under way at once.                                  *)
(*                                                                         *)
(* A call is in flight from its start to the handler's last statement.     *)
(* It carries the token its closure captured, which may not be the tab's   *)
(* token any more.                                                         *)
(***************************************************************************)
EXTENDS Integers

CONSTANTS Ids,        \* session ids, a set of positive numbers; 0 is no session
          MaxOps,     \* bound: clicks that start a call
          MaxFaults   \* bound: calls that fail on the network

ASSUME AccountAssumption == /\ Ids \subseteq Nat \ {0} /\ 1 \in Ids
                            /\ MaxOps \in Nat /\ MaxFaults \in Nat

VARIABLES token,             \* auth.token: 0 none, 1 from the last visit, 2 from a login
          stored,            \* the token in the local storage
          expired,           \* tokens the agent does not accept any more
          held,              \* the agent's sessions: 0 absent, 1 as created, 2 renamed
          list,              \* sessions: what the sidebar shows, in the same terms
          inflight,          \* calls under way
          deletingId,        \* the row that collapses
          deletingSessionId, \* the session useSessions is deleting
          renaming,          \* renamingSessionId: the row with the name editor
          path,              \* 0 for /ai, an id for /ai/<id>
          ops, drops,        \* clicks and faults so far
          astray             \* history: the list may differ from the agent's for a reason
                             \* that "QuietListRight" names

accountVars == <<token, stored, expired, held, list, inflight, deletingId,
                 deletingSessionId, renaming, path, ops, drops, astray>>

Tokens   == 0..2
Sessions == [Ids -> 0..2]
NoList   == [i \in Ids |-> 0]
Changes  == {"create", "rename", "delete"}

\* "timer" is the 220 ms of the row's animation before the delete is sent.
Call == [op : {"validate", "login", "list", "timer"} \cup Changes,
         n : 0..MaxOps, id : Ids \cup {0}, as : Tokens, here : BOOLEAN,
         then : {"nothing", "open", "endRename", "rollBack"},
         at : {"out", "ok", "failed", "refused"}, got : Sessions]

NewCall(op, id, as) ==
  [op |-> op, n |-> ops, id |-> id, as |-> as, here |-> FALSE,
   then |-> "nothing", at |-> "out", got |-> NoList]

\* fetchSessions, as a handler continues with it.
Reload(c, then) == [c EXCEPT !.op = "list", !.then = then, !.at = "out"]

\* The effect of useSessions when the token changes.
Effect(t) == {NewCall("list", 0, t)}

\* The last visit left token 1 behind; mounting the tab starts its validation.
AccountInit ==
  /\ token = 0 /\ stored = 1 /\ expired = {}
  /\ held = [i \in Ids |-> IF i = 1 THEN 1 ELSE 0] /\ list = NoList
  /\ ops = 0 /\ drops = 0
  /\ inflight = {[op |-> "validate", n |-> 0, id |-> 0, as |-> 1, here |-> FALSE,
                  then |-> "nothing", at |-> "out", got |-> NoList]}
  /\ deletingId = 0 /\ deletingSessionId = 0 /\ renaming = 0 /\ path = 0
  /\ astray = FALSE

----------------------------------------------------------------------------
(* The user.                                                               *)

Click == ops < MaxOps /\ ops' = ops + 1

\* The login form, shown while there is no token, off while a login is under way.
SubmitLogin ==
  /\ token = 0 /\ 2 \notin expired
  /\ \A c \in inflight : c.op # "login"
  /\ Click
  /\ inflight' = inflight \cup {NewCall("login", 0, 0)}
  /\ UNCHANGED <<token, stored, expired, held, list, deletingId, deletingSessionId,
                 renaming, path, drops, astray>>

SignOut ==
  /\ token # 0 /\ token' = 0 /\ stored' = 0 /\ list' = NoList
  /\ UNCHANGED <<expired, held, inflight, deletingId, deletingSessionId, renaming,
                 path, ops, drops, astray>>

Row(i)      == list[i] # 0
HasTools(i) == Row(i) /\ renaming # i /\ token # 0     \* the row's hover controls

HandleNewChat ==
  /\ token # 0 /\ Click
  /\ \E i \in Ids : /\ held[i] = 0 /\ list[i] = 0
                    /\ \A c \in inflight : c.id # i
                    /\ path # i /\ renaming # i
                    /\ inflight' = inflight \cup {NewCall("create", i, token)}
  /\ UNCHANGED <<token, stored, expired, held, list, deletingId, deletingSessionId,
                 renaming, path, drops, astray>>

HandleDeleteSession(i) ==
  /\ HasTools(i) /\ Click
  /\ deletingId' = i
  /\ inflight' = inflight \cup {[NewCall("timer", i, token) EXCEPT !.here = (path = i)]}
  /\ UNCHANGED <<token, stored, expired, held, list, deletingSessionId, renaming, path,
                 drops, astray>>

EditName(i) ==
  /\ HasTools(i) /\ renaming' = i
  /\ UNCHANGED <<token, stored, expired, held, list, inflight, deletingId,
                 deletingSessionId, path, ops, drops, astray>>

\* Enter, and the blur of the field, both submit; the field stays until the answer.
HandleRenameSession(i) ==
  /\ renaming = i /\ Row(i)
  /\ IF token = 0
       THEN renaming' = 0 /\ UNCHANGED <<inflight, ops>>
       ELSE /\ Click /\ UNCHANGED renaming
            /\ inflight' = inflight \cup {NewCall("rename", i, token)}
  /\ UNCHANGED <<token, stored, expired, held, list, deletingId, deletingSessionId, path,
                 drops, astray>>

CancelName ==
  /\ renaming # 0 /\ renaming' = 0
  /\ UNCHANGED <<token, stored, expired, held, list, inflight, deletingId,
                 deletingSessionId, path, ops, drops, astray>>

OpenSession(i) ==
  /\ Row(i) /\ renaming # i /\ path # i /\ path' = i
  /\ UNCHANGED <<token, stored, expired, held, list, inflight, deletingId,
                 deletingSessionId, renaming, ops, drops, astray>>

----------------------------------------------------------------------------
(* The agent and the network.  GET /sessions, which also serves as the     *)
(* validation, asks for no token; the three changes do.                    *)

Refused(c) == c.op \in Changes /\ c.as \in expired

Stored(c) ==
  CASE c.op = "create" /\ held[c.id] = 0 -> [held EXCEPT ![c.id] = 1]
    [] c.op = "rename" /\ held[c.id] # 0 -> [held EXCEPT ![c.id] = 2]
    [] c.op = "delete"                   -> [held EXCEPT ![c.id] = 0]
    [] OTHER                             -> held

Arrive(c) ==
  /\ c.at = "out" /\ c.op # "timer"
  /\ LET status == IF Refused(c) THEN "refused"
                   ELSE IF c.op = "rename" /\ held[c.id] = 0 THEN "failed" ELSE "ok"
     IN  /\ inflight' = (inflight \ {c})
                          \cup {[c EXCEPT !.at = status,
                                          !.got = IF c.op = "list" THEN held ELSE NoList]}
         /\ held' = IF status = "ok" THEN Stored(c) ELSE held
  /\ UNCHANGED <<token, stored, expired, list, deletingId, deletingSessionId, renaming,
                 path, ops, drops, astray>>

\* The request or its answer is lost; for a login also a wrong password.
Lose(c) ==
  /\ c.at \in {"out", "ok"} /\ c.op # "timer" /\ drops < MaxFaults
  /\ drops' = drops + 1
  /\ inflight' = (inflight \ {c}) \cup {[c EXCEPT !.at = "failed", !.got = NoList]}
  /\ UNCHANGED <<token, stored, expired, held, list, deletingId, deletingSessionId,
                 renaming, path, ops, astray>>

Expire(t) ==
  /\ t \in 1..2 /\ t \notin expired /\ expired' = expired \cup {t}
  /\ UNCHANGED <<token, stored, held, list, inflight, deletingId, deletingSessionId,
                 renaming, path, ops, drops, astray>>

----------------------------------------------------------------------------
(* The answers.  A 401 fires auth:unauthorized, which signs the tab out    *)
(* whatever token the refused call had.                                    *)

SignedOut(c) == c.at = "refused"

Session(c) ==
  IF SignedOut(c) THEN /\ token' = 0 /\ stored' = 0 /\ list' = NoList
                  ELSE UNCHANGED <<token, stored, list>>

\* useAuth: the stored token is taken over only when the agent answered.
Validated(c) ==
  /\ c.op = "validate" /\ c.at \in {"ok", "failed"}
  /\ IF c.at = "ok"
       THEN /\ token' = c.as /\ UNCHANGED stored
            /\ inflight' = (inflight \ {c})
                             \cup (IF token = c.as THEN {} ELSE Effect(c.as))
       ELSE stored' = 0 /\ inflight' = inflight \ {c} /\ UNCHANGED token
  /\ UNCHANGED <<expired, held, list, deletingId, deletingSessionId, renaming, path,
                 ops, drops, astray>>

LoggedIn(c) ==
  /\ c.op = "login" /\ c.at \in {"ok", "failed"}
  /\ IF c.at = "ok"
       THEN /\ token' = 2 /\ stored' = 2
            /\ inflight' = (inflight \ {c}) \cup (IF token = 2 THEN {} ELSE Effect(2))
       ELSE inflight' = inflight \ {c} /\ UNCHANGED <<token, stored>>
  /\ UNCHANGED <<expired, held, list, deletingId, deletingSessionId, renaming, path,
                 ops, drops, astray>>

\* deleteSession, once the row has collapsed: the row goes before the agent answers.
Collapse(c) ==
  /\ c.op = "timer"
  /\ inflight' = (inflight \ {c}) \cup {[c EXCEPT !.op = "delete"]}
  /\ deletingSessionId' = c.id
  /\ list' = [list EXCEPT ![c.id] = 0]
  /\ UNCHANGED <<token, stored, expired, held, deletingId, renaming, path, ops, drops,
                 astray>>

Created(c) ==
  /\ c.op = "create" /\ c.at # "out"
  /\ inflight' = (inflight \ {c}) \cup (IF c.at = "ok" THEN {Reload(c, "open")} ELSE {})
  /\ astray' = (astray \/ c.at = "failed")
  /\ Session(c)
  /\ UNCHANGED <<expired, held, deletingId, deletingSessionId, renaming, path, ops, drops>>

Renamed(c) ==
  /\ c.op = "rename" /\ c.at # "out"
  /\ inflight' = (inflight \ {c}) \cup (IF c.at = "ok" THEN {Reload(c, "endRename")} ELSE {})
  /\ astray' = (astray \/ c.at = "failed")
  /\ Session(c)
  /\ UNCHANGED <<expired, held, deletingId, deletingSessionId, renaming, path, ops, drops>>

\* Seeded bug: the row stays marked when the deletion failed.
EndDeletionOk(c) ==
  /\ deletingSessionId' = IF c.op = "delete" /\ deletingSessionId = c.id
                            THEN 0 ELSE deletingSessionId
  /\ deletingId' = IF c.op = "delete" THEN 0 ELSE deletingId

\* The two finally blocks, of deleteSession and of the sidebar's handler.
EndDeletion(c) ==
  /\ deletingSessionId' = IF deletingSessionId = c.id THEN 0 ELSE deletingSessionId
  /\ deletingId' = 0

\* Seeded bug: a failed deletion does not read the sessions again.
DeletedNoRollBack(c) ==
  /\ c.op = "delete" /\ c.at # "out"
  /\ inflight' = inflight \ {c}
  /\ path' = IF c.at = "ok" /\ c.here THEN 0 ELSE path
  /\ EndDeletion(c)
  /\ Session(c)
  /\ UNCHANGED <<expired, held, renaming, ops, drops, astray>>

\* Leaving for /ai goes by the page the user was on when they clicked.
Deleted(c) ==
  /\ c.op = "delete" /\ c.at # "out"
  /\ IF c.at = "ok"
       THEN /\ inflight' = inflight \ {c}
            /\ path' = IF c.here THEN 0 ELSE path
            /\ EndDeletion(c)
       ELSE /\ inflight' = (inflight \ {c}) \cup {Reload(c, "rollBack")}
            /\ UNCHANGED <<path, deletingId, deletingSessionId>>
  /\ Session(c)
  /\ UNCHANGED <<expired, held, renaming, ops, drops, astray>>

\* An answer that fails becomes an empty list; then the handler that asked goes on.
Listed(c) ==
  /\ c.op = "list" /\ c.at \in {"ok", "failed"}
  /\ list' = c.got
  /\ inflight' = inflight \ {c}
  /\ path' = IF c.then = "open" THEN c.id ELSE path
  /\ renaming' = IF c.then = "endRename" THEN 0 ELSE renaming
  /\ IF c.then = "rollBack" THEN EndDeletion(c) ELSE UNCHANGED <<deletingId, deletingSessionId>>
  /\ astray' = (c.at = "failed" \/ c.got # held \/ \E d \in inflight : d.op \in Changes)
  /\ UNCHANGED <<token, stored, expired, held, ops, drops>>

Answer == \E c \in inflight :
  Validated(c) \/ LoggedIn(c) \/ Collapse(c) \/ Created(c) \/ Renamed(c) \/ Deleted(c)
  \/ Listed(c)
Served == \E c \in inflight : Arrive(c)

AccountNext ==
  \/ SubmitLogin \/ SignOut \/ HandleNewChat \/ CancelName \/ Served
  \/ \E i \in Ids : HandleDeleteSession(i) \/ EditName(i) \/ HandleRenameSession(i)
                    \/ OpenSession(i)
  \/ \E c \in inflight : Lose(c)
  \/ \E t \in 1..2 : Expire(t)
  \/ Answer

\* A call arrives or fails, its answer is delivered, and a timer fires.
AccountFair == WF_accountVars(Served) /\ WF_accountVars(Answer)
AccountSpec == AccountInit /\ [][AccountNext]_accountVars /\ AccountFair

----------------------------------------------------------------------------
AccountTypeOK ==
  /\ token \in Tokens /\ stored \in Tokens /\ expired \subseteq 1..2
  /\ held \in Sessions /\ list \in Sessions
  /\ \A c \in inflight : c \in Call
  /\ {deletingId, deletingSessionId, renaming, path} \subseteq Ids \cup {0}
  /\ ops \in 0..MaxOps /\ drops \in 0..MaxFaults /\ astray \in BOOLEAN

\* When no call is under way, a signed-in tab shows the sessions the agent has,
\* under their names: deletions that failed have been rolled back, new and renamed
\* sessions are there.  Three things excuse it, until the next clean list arrives:
\* the list could not be read, it was delivered while a change was under way or
\* after a newer one, or a creation or renaming failed without the tab knowing
\* whether the agent had done it (useSessions).
QuietListRight == inflight = {} /\ token # 0 /\ ~astray => list = held

\* A row that collapses, and the mark useSessions keeps beside it, do not stay
\* that way: every way out of the two deletion handlers clears them.
DeletingEnds ==
  (deletingId # 0 \/ deletingSessionId # 0) ~> (deletingId = 0 /\ deletingSessionId = 0)
==============================================================================
