---------------------------- MODULE ChatConsole ----------------------------
(***************************************************************************)
(* The AI chat page of one browser tab and the agent server behind it: the *)
(* feed of messages, the streams that fill it, the loads of stored         *)
(* messages, deletions, and the confirmations the agent asks for before it *)
(* mails a report.                                                         *)
(*                                                                         *)
(* A question is a turn: a user message and the assistant message of the   *)
(* same turn.  A message is in the feed as the copy made when it was sent  *)
(* (local) or as the copy loaded from the server (stored).  Left out are    *)
(* the token events, whose words the text of done replaces, and the info,  *)
(* agent_reasoning and error events, which change only what is displayed   *)
(* around the messages.                                                    *)
(***************************************************************************)
EXTENDS Naturals, Sequences, FiniteSets, Subsequences

CONSTANTS
  Rounds,       \* sequences of tools the model may call in one round
  Old,          \* questions of session 1 that were answered on an earlier day
  MaxTurns,     \* bound: questions, old ones included
  MaxConfirms,  \* bound: confirmations the agent asks for
  MaxRounds,    \* tool rounds of one question (10 in the code)
  MaxEvents     \* bound: deletions, navigations, logouts and failures, where
                \*   a question counts as two

Tools == {"send_report_email", "lookup"}

ASSUME ConstantsAssumption ==
  /\ IsFiniteSet(Rounds)
  /\ Rounds \subseteq Seq(Tools) \ {<<>>}
  /\ Old \in 0..MaxTurns
  /\ MaxTurns \in Nat /\ MaxConfirms \in Nat /\ MaxRounds \in Nat
  /\ MaxEvents \in Nat

Turns == 1..MaxTurns
Confirms == 1..MaxConfirms

(* A session is named by the question it was created for. *)
Sessions == Turns
None == 0

VARIABLES
  signedIn,     \* is there a token?
  route,        \* session in the path the page was mounted for
  active,       \* activeSessionId: localSessionId, or else the route
  feed,         \* messages, in the order shown
  sending,      \* of useStreamingAgent
  modal,        \* activeConfirmation, 0 for none
  asks,         \* asks[t]: the call of handleSendMessage for turn t
  loads,        \* requests for stored messages, and their answers
  removing,     \* deletions whose animation runs
  wire,         \* wire[t]: events of the stream that are under way
  link,         \* link[t]: the connection of the stream
  posts,        \* answers to confirmations that are under way
  drops,        \* requests to delete a message that are under way
  gen,          \* gen[t]: the server's stream_agent of turn t
  registry,     \* active_confirmations; they are inserted as they are minted,
                \*   so the first of them is the least
  responses,    \* active_responses
  fired,        \* confirmations whose event is set
  minted,       \* confirmations made so far
  stored,       \* turns with rows in ai_chat_messages, in order
  approved,     \* confirmations the user said yes to
  mailed,       \* confirmations whose mail was sent
  events        \* events so far

browser == <<signedIn, route, active, feed, sending, modal, asks, loads, removing>>
network == <<wire, link, posts, drops>>
server == <<gen, registry, responses, fired, minted, stored, mailed>>
vars == <<browser, network, server, approved, events>>

----------------------------------------------------------------------------
(* Data *)

Message == [turn: Turns, role: {"user", "assistant"}, copy: {"local", "stored"},
            streaming: BOOLEAN, text: {"question", "", "answer", "excuse", "error"},
            running: SUBSET Tools, ended: SUBSET Tools]

Id(m) == <<m.turn, m.role, m.copy>>
Ids(s) == {Id(s[i]) : i \in 1..Len(s)}

UserMessage(t, c) ==
  [turn |-> t, role |-> "user", copy |-> c, streaming |-> FALSE,
   text |-> "question", running |-> {}, ended |-> {}]

AssistantMessage(t, c) ==
  [turn |-> t, role |-> "assistant", copy |-> c, streaming |-> c = "local",
   text |-> IF c = "local" THEN "" ELSE gen[t].said, running |-> {}, ended |-> {}]

Without(s, ids) == Kept(s, {i \in DOMAIN s : Id(s[i]) \notin ids})

Nothing == [type |-> "nothing"]

Greatest(S) == CHOOSE c \in S : \A d \in S : d <= c

(* An assistant message after a write of the server, or after the catch     *)
Changed(m, e) ==
  CASE e.type = "calls" -> [m EXCEPT !.running = @ \union (e.tools \ m.ended)]
    [] e.type = "ends"  -> [m EXCEPT !.running = @ \ e.tools, !.ended = @ \union e.tools]
    [] e.type = "done"  -> [m EXCEPT !.text = e.answer, !.streaming = FALSE]
    [] e.type = "error" -> [m EXCEPT !.text = "error", !.streaming = FALSE]

(* updateMessage, as the handler of turn t calls it: a page left behind     *)
(* ignores it.                                                              *)
Write(t, e) ==
  feed' = [i \in DOMAIN feed |->
             IF asks[t].here /\ Id(feed[i]) = <<t, "assistant", "local">>
             THEN Changed(feed[i], e) ELSE feed[i]]

Unasked == {t \in Turns : asks[t].pc = "unused"}
NextTurn == CHOOSE t \in Unasked : \A u \in Unasked : t <= u

Live == {"llm", "tools", "closing"}

----------------------------------------------------------------------------
Init ==
  /\ signedIn = TRUE
  /\ route \in {None} \union IF Old > 0 THEN {1} ELSE {}
  /\ active = route
  /\ feed = <<>>
  /\ sending = FALSE
  /\ modal = 0
  /\ asks = [t \in Turns |-> IF t <= Old THEN [pc |-> "over", session |-> 1, here |-> FALSE]
                             ELSE [pc |-> "unused", session |-> None, here |-> FALSE]]
  /\ loads = [asked |-> {route} \ {None}, answers |-> {}]
  /\ removing = {}
  /\ wire = [t \in Turns |-> Nothing]
  /\ link = [t \in Turns |-> "none"]
  /\ posts = {} /\ drops = {}
  /\ gen = [t \in Turns |-> [phase |-> IF t <= Old THEN "saved" ELSE "none", calls |-> <<>>,
                            round |-> 0, said |-> IF t <= Old THEN "answer" ELSE ""]]
  /\ registry = {}
  /\ responses = [c \in Confirms |-> "none"]
  /\ fired = {}
  /\ minted = 0
  /\ stored = [t \in 1..Old |-> t]
  /\ approved = {} /\ mailed = {}
  /\ events = 0

----------------------------------------------------------------------------
(* The page *)

(* sendMessage up to its first await *)
BeginStream(t, s, here) ==
  /\ asks' = [asks EXCEPT ![t] = [pc |-> "connecting", session |-> s, here |-> here]]
  /\ feed' = IF here THEN feed \o <<UserMessage(t, "local"), AssistantMessage(t, "local")>>
                     ELSE feed
  /\ sending' = (here \/ sending)

(* The composer takes the place of the login panel, and is off while sending. *)
ComposerOn == signedIn /\ ~sending

(* The page shows a chat, or the dashboard when no session is active. *)
ChatView == active # None

(* A question in an open chat *)
Ask ==
  /\ ComposerOn /\ ChatView /\ Unasked # {}
  /\ events + 2 <= MaxEvents /\ events' = events + 2
  /\ BeginStream(NextTurn, active, TRUE)
  /\ UNCHANGED <<signedIn, route, active, modal, loads, removing, network, server,
                 approved>>

(* A question with no chat open: the session is created first, and sending *)
(* is not set while that request is under way.                             *)
AskNew ==
  /\ ComposerOn /\ ~ChatView /\ Unasked # {}
  /\ events + 2 <= MaxEvents /\ events' = events + 2
  /\ asks' = [asks EXCEPT ![NextTurn] = [pc |-> "creating", session |-> NextTurn, here |-> TRUE]]
  /\ UNCHANGED <<signedIn, route, active, feed, sending, modal, loads, removing,
                 network, server, approved>>

(* useChat loads the messages whenever the active session changes. *)
Load(s) == IF signedIn /\ s # None THEN [loads EXCEPT !.asked = @ \union {s}] ELSE loads

CreateSucceeds(t) ==
  /\ asks[t].pc = "creating"
  /\ BeginStream(t, asks[t].session, asks[t].here)
  /\ active' = IF asks[t].here THEN asks[t].session ELSE active
  /\ loads' = IF asks[t].here THEN Load(asks[t].session) ELSE loads
  /\ UNCHANGED <<signedIn, route, modal, removing, network, server, approved, events>>

CreateFails(t) ==
  /\ asks[t].pc = "creating" /\ events < MaxEvents
  /\ events' = events + 1
  /\ asks' = [asks EXCEPT ![t].pc = "over"]
  /\ UNCHANGED <<signedIn, route, active, feed, sending, modal, loads, removing,
                 network, server, approved>>

(* Seeded bug: sending is reset only when the stream ended without error. *)
FinallyAtEnd(t) ==
  /\ asks' = [asks EXCEPT ![t].pc = "over"]
  /\ sending' = (sending /\ (link[t] = "broken" \/ ~asks[t].here))

(* The catch and finally blocks of sendMessage *)
Finally(t) ==
  /\ asks' = [asks EXCEPT ![t].pc = "over"]
  /\ sending' = (sending /\ ~asks[t].here)

Catch(t) ==
  /\ Write(t, [type |-> "error"])
  /\ Finally(t)

Connect(t) ==
  /\ asks[t].pc = "connecting"
  /\ asks' = [asks EXCEPT ![t].pc = "reading"]
  /\ gen' = [gen EXCEPT ![t].phase = "llm"]
  /\ link' = [link EXCEPT ![t] = "open"]
  /\ UNCHANGED <<signedIn, route, active, feed, sending, modal, loads, removing, wire, posts,
                 drops, registry, responses, fired, minted, stored, mailed, approved, events>>

ConnectFails(t) ==
  /\ asks[t].pc = "connecting" /\ events < MaxEvents
  /\ events' = events + 1
  /\ Catch(t)
  /\ UNCHANGED <<signedIn, route, active, modal, loads, removing, network, server,
                 approved>>

(* What one write of the server does to the page.  Each confirm_required    *)
(* replaces the confirmation shown before.                                  *)
Handle(t, e) ==
  /\ Write(t, e)
  /\ modal' = IF e.type = "calls" /\ e.asked # {} /\ asks[t].here
              THEN Greatest(e.asked) ELSE modal

Read(t) ==
  /\ asks[t].pc = "reading" /\ wire[t] # Nothing
  /\ Handle(t, wire[t])
  /\ wire' = [wire EXCEPT ![t] = Nothing]
  /\ UNCHANGED <<signedIn, route, active, sending, asks, loads, removing, link, posts, drops,
                 server, approved, events>>

ReadEnds(t) ==
  /\ asks[t].pc = "reading" /\ wire[t] = Nothing /\ link[t] = "ended"
  /\ Finally(t)
  /\ UNCHANGED <<signedIn, route, active, feed, modal, loads, removing, network, server,
                 approved, events>>

(* What was under way on a broken connection may be lost. *)
ReadFails(t) ==
  /\ asks[t].pc = "reading" /\ link[t] = "broken"
  /\ wire' = [wire EXCEPT ![t] = Nothing]
  /\ Catch(t)
  /\ UNCHANGED <<signedIn, route, active, modal, loads, removing, link, posts, drops,
                 server, approved, events>>

ModalShown == modal # 0

(* Seeded bug: the confirmation is cleared before its id is read. *)
ConfirmCleared(yes) ==
  /\ ModalShown
  /\ modal' = 0
  /\ posts' = IF signedIn THEN posts \union {[id |-> modal', yes |-> yes]} ELSE posts
  /\ approved' = IF yes THEN approved \union {modal} ELSE approved
  /\ UNCHANGED <<signedIn, route, active, feed, sending, asks, loads, removing, wire, link,
                 drops, server, events>>

(* The two buttons of the confirmation *)
Confirm(yes) ==
  /\ ModalShown
  /\ modal' = 0
  /\ posts' = IF signedIn THEN posts \union {[id |-> modal, yes |-> yes]} ELSE posts
  /\ approved' = IF yes THEN approved \union {modal} ELSE approved
  /\ UNCHANGED <<signedIn, route, active, feed, sending, asks, loads, removing, wire, link,
                 drops, server, events>>

Rows(ts) ==
  [i \in 1..(2 * Len(ts)) |-> LET t == ts[(i + 1) \div 2] IN
     IF i % 2 = 1 THEN UserMessage(t, "stored") ELSE AssistantMessage(t, "stored")]

(* Seeded bug: what was loaded replaces the messages. *)
MergeReplacing(ts) == Rows(ts)

Merge(ts) == Rows(ts) \o Without(feed, Ids(Rows(ts)))

Loaded(a) ==
  /\ a \in loads.answers
  /\ feed' = Merge(a)
  /\ loads' = [loads EXCEPT !.answers = @ \ {a}]
  /\ UNCHANGED <<signedIn, route, active, sending, modal, asks, removing, network, server,
                 approved, events>>

(* Seeded bug: only the message itself. *)
CascadeOne(i) == {Id(feed[i])}

(* deleteMessage: what goes with the message, found when it is clicked *)
Cascade(i) ==
  LET m == feed[i] IN
  IF m.copy = "stored" THEN {Id(x) : x \in {feed[j] : j \in DOMAIN feed}} \intersect
                            {<<m.turn, r, "stored">> : r \in {"user", "assistant"}}
  ELSE {Id(m)} \union {Id(feed[j]) : j \in {k \in DOMAIN feed : /\ k = i + 1
                                                               /\ feed[k].role = "assistant"}}

(* Only user messages have the button. *)
ClickDelete(i) ==
  /\ events < MaxEvents
  /\ i \in DOMAIN feed /\ feed[i].role = "user" /\ ~feed[i].streaming
  /\ removing' = removing \union
       {[target |-> Id(feed[i]), ids |-> Cascade(i), send |-> signedIn /\ active # None]}
  /\ events' = events + 1
  /\ UNCHANGED <<signedIn, route, active, feed, sending, modal, asks, loads, network, server,
                 approved>>

Sent(ds) == {d.target : d \in {x \in ds : x.send}}

FinishDelete(d) ==
  /\ d \in removing
  /\ feed' = Without(feed, d.ids)
  /\ removing' = removing \ {d}
  /\ drops' = drops \union Sent({d})
  /\ UNCHANGED <<signedIn, route, active, sending, modal, asks, loads, wire, link, posts,
                 server, approved, events>>

(* A new page: the state of the old one is dropped, its handlers run on. *)
Mount(s) ==
  /\ route' = s /\ active' = s
  /\ feed' = <<>> /\ sending' = FALSE /\ modal' = 0
  /\ loads' = [asked |-> IF signedIn /\ s # None THEN {s} ELSE {}, answers |-> {}]
  /\ removing' = {}

(* A link of the sidebar.  A path that is mounted already mounts nothing. *)
Visit(s) ==
  /\ events < MaxEvents /\ s # route
  /\ s = None \/ s \in {asks[t].session : t \in {u \in Turns : asks[u].pc # "creating"}}
  /\ events' = events + 1
  /\ Mount(s)
  /\ asks' = [t \in Turns |-> [asks[t] EXCEPT !.here = FALSE]]
  /\ drops' = drops \union Sent(removing)
  /\ UNCHANGED <<signedIn, wire, link, posts, server, approved>>

Reload ==
  /\ events < MaxEvents
  /\ events' = events + 1
  /\ Mount(active)
  /\ asks' = [t \in Turns |-> [asks[t] EXCEPT !.here = FALSE,
                 !.pc = IF @ = "unused" THEN @ ELSE "over"]]
  /\ link' = [t \in Turns |-> IF link[t] = "open" THEN "broken" ELSE link[t]]
  /\ wire' = [t \in Turns |-> Nothing]
  /\ UNCHANGED <<signedIn, posts, drops, server, approved>>

(* By the user, or because a request was refused with 401 *)
Logout ==
  /\ events < MaxEvents /\ signedIn
  /\ events' = events + 1
  /\ signedIn' = FALSE
  /\ UNCHANGED <<route, active, feed, sending, modal, asks, loads, removing, network, server,
                 approved>>

(* LoginPanel: the new token makes useChat load the active session again. *)
Login ==
  /\ ~signedIn
  /\ signedIn' = TRUE
  /\ loads' = IF active # None THEN [loads EXCEPT !.asked = @ \union {active}] ELSE loads
  /\ UNCHANGED <<route, active, feed, sending, modal, asks, removing, network, server,
                 approved, events>>

----------------------------------------------------------------------------
(* The server *)

(* A write waits until the one before it was read. *)
Emit(t, e) ==
  /\ wire[t] = Nothing \/ link[t] # "open"
  /\ wire' = IF link[t] = "open" THEN [wire EXCEPT ![t] = e] ELSE wire

Done(answer) == [type |-> "done", answer |-> answer]

(* The model answers.  The words are what will be saved. *)
LlmAnswers(t) ==
  /\ gen[t].phase = "llm" /\ gen[t].round < MaxRounds
  /\ Emit(t, Done("answer"))
  /\ gen' = [gen EXCEPT ![t].phase = "closing", ![t].said = "answer"]
  /\ UNCHANGED <<browser, link, posts, drops, registry, responses, fired, minted, stored,
                 mailed, approved, events>>

(* All keys failed, or the rounds are used up: done has a text no token had. *)
LlmGivesUp(t) ==
  /\ gen[t].phase = "llm"
  /\ gen[t].round = MaxRounds \/ events < MaxEvents
  /\ events' = IF gen[t].round = MaxRounds THEN events ELSE events + 1
  /\ Emit(t, Done("excuse"))
  /\ gen' = [gen EXCEPT ![t].phase = "closing"]
  /\ UNCHANGED <<browser, link, posts, drops, registry, responses, fired, minted, stored,
                 mailed, approved>>

ToolsOf(calls) == {calls[i].tool : i \in DOMAIN calls}

(* Every call is announced before the first one runs: tool_start, and for a *)
(* mail a new confirmation with its confirm_required.                       *)
LlmCallsTools(t, tools) ==
  /\ gen[t].phase = "llm" /\ gen[t].round < MaxRounds
  /\ LET Mails(n) == {i \in 1..n : tools[i] = "send_report_email"}
         last == minted + Cardinality(Mails(Len(tools)))
         calls == [i \in DOMAIN tools |->
                     [tool |-> tools[i], state |-> "started", on |-> 0,
                      id |-> IF i \in Mails(i) THEN minted + Cardinality(Mails(i)) ELSE 0]] IN
     /\ last <= MaxConfirms
     /\ minted' = last
     /\ registry' = registry \union ((minted + 1)..last)
     /\ Emit(t, [type |-> "calls", tools |-> ToolsOf(calls), asked |-> (minted + 1)..last])
     /\ gen' = [gen EXCEPT ![t].phase = "tools", ![t].calls = calls]
  /\ UNCHANGED <<browser, link, posts, drops, responses, fired, stored, mailed, approved, events>>

InState(t, state) == {i \in DOMAIN gen[t].calls : gen[t].calls[i].state = state}
Least(S) == CHOOSE i \in S : \A j \in S : i <= j

(* Seeded bug: the answer stays in active_responses. *)
ForgetEvent(c) ==
  /\ registry' = registry \ {c}
  /\ UNCHANGED responses

Forget(c) ==
  /\ registry' = registry \ {c}
  /\ responses' = [responses EXCEPT ![c] = "none"]

(* The call goes on with the answer recorded for c, and forgets c. *)
Resolve(t, i, c) ==
  /\ mailed' = IF responses[c] = "yes" THEN mailed \union {gen[t].calls[i].id} ELSE mailed
  /\ Forget(c)
  /\ gen' = [gen EXCEPT ![t].calls[i].state = "over"]

(* The calls of a round start in order, before any of them goes on.  A mail *)
(* waits for the first of all registered confirmations; if that one is      *)
(* answered it does not wait.                                               *)
StartCall(t) ==
  /\ gen[t].phase = "tools" /\ InState(t, "started") # {}
  /\ LET i == Least(InState(t, "started")) IN
     \/ /\ gen[t].calls[i].tool = "lookup" \/ registry = {}
        /\ gen' = [gen EXCEPT ![t].calls[i].state = "over"]
        /\ UNCHANGED <<registry, responses, mailed>>
     \/ /\ gen[t].calls[i].tool = "send_report_email" /\ registry # {}
        /\ IF Least(registry) \in fired THEN Resolve(t, i, Least(registry))
           ELSE /\ gen' = [gen EXCEPT ![t].calls[i].state = "waiting",
                                      ![t].calls[i].on = Least(registry)]
                /\ UNCHANGED <<registry, responses, mailed>>
  /\ UNCHANGED <<browser, network, fired, minted, stored, approved, events>>

Resume(t, i) ==
  /\ i \in InState(t, "waiting") /\ InState(t, "started") = {}
  /\ gen[t].calls[i].on \in fired
  /\ Resolve(t, i, gen[t].calls[i].on)
  /\ UNCHANGED <<browser, network, fired, minted, stored, approved, events>>

(* 120 seconds without an answer *)
TimeOut(t, i) ==
  /\ i \in InState(t, "waiting") /\ InState(t, "started") = {}
  /\ gen[t].calls[i].on \notin fired
  /\ Forget(gen[t].calls[i].on)
  /\ gen' = [gen EXCEPT ![t].calls[i].state = "over"]
  /\ UNCHANGED <<browser, network, fired, minted, stored, mailed, approved, events>>

(* Seeded bug: a call that did not mail reports no end. *)
EndRoundSilent(t) ==
  /\ gen[t].phase = "tools" /\ InState(t, "over") = DOMAIN gen[t].calls
  /\ Emit(t, [type |-> "ends", tools |-> {c.tool : c \in
       {gen[t].calls[i] : i \in {j \in DOMAIN gen[t].calls : gen[t].calls[j].id \in mailed}}}])
  /\ gen' = [gen EXCEPT ![t].phase = "llm", ![t].calls = <<>>, ![t].round = @ + 1]
  /\ UNCHANGED <<browser, link, posts, drops, registry, responses, fired, minted, stored,
                 mailed, approved, events>>

EndRound(t) ==
  /\ gen[t].phase = "tools" /\ InState(t, "over") = DOMAIN gen[t].calls
  /\ Emit(t, [type |-> "ends", tools |-> ToolsOf(gen[t].calls)])
  /\ gen' = [gen EXCEPT ![t].phase = "llm", ![t].calls = <<>>, ![t].round = @ + 1]
  /\ UNCHANGED <<browser, link, posts, drops, registry, responses, fired, minted, stored,
                 mailed, approved, events>>

Save(t) ==
  /\ gen[t].phase = "closing"
  /\ gen' = [gen EXCEPT ![t].phase = "saved"]
  /\ stored' = Append(stored, t)
  /\ link' = [link EXCEPT ![t] = IF @ = "open" THEN "ended" ELSE @]
  /\ UNCHANGED <<browser, wire, posts, drops, registry, responses, fired, minted, mailed,
                 approved, events>>

(* The client is gone: the generator is cancelled, and what it waits for is *)
(* forgotten in the finally block.                                          *)
Cancel(t) ==
  /\ gen[t].phase \in Live /\ link[t] # "open"
  /\ LET waits == {gen[t].calls[i].on : i \in InState(t, "waiting")} IN
     /\ registry' = registry \ waits
     /\ responses' = [c \in Confirms |-> IF c \in waits THEN "none" ELSE responses[c]]
  /\ gen' = [gen EXCEPT ![t].phase = "gone", ![t].calls = <<>>]
  /\ UNCHANGED <<browser, network, fired, minted, stored, mailed, approved, events>>

ConfirmArrives(p) ==
  /\ p \in posts
  /\ posts' = posts \ {p}
  /\ \/ /\ p.id \in registry
        /\ responses' = [responses EXCEPT ![p.id] = IF p.yes THEN "yes" ELSE "no"]
        /\ fired' = fired \union {p.id}
     \/ /\ p.id \notin registry
        /\ UNCHANGED <<responses, fired>>
  /\ UNCHANGED <<browser, wire, link, drops, gen, registry, minted, stored, mailed, approved, events>>

(* GET of the messages of a session, answered with the rows of the moment *)
LoadAnswered(s) ==
  /\ s \in loads.asked
  /\ loads' = [asked |-> loads.asked \ {s},
               answers |-> loads.answers \union
                 {Kept(stored, {i \in DOMAIN stored : asks[stored[i]].session = s})}]
  /\ UNCHANGED <<signedIn, route, active, feed, sending, modal, asks, removing, network,
                 server, approved, events>>

(* delete_session_message: the whole turn of a stored message.  The id of a *)
(* local copy is no UUID, and nothing is deleted.                           *)
DropArrives(id) ==
  /\ id \in drops
  /\ drops' = drops \ {id}
  /\ stored' = IF id[3] = "stored" THEN Kept(stored, {i \in DOMAIN stored : stored[i] # id[1]})
             ELSE stored
  /\ UNCHANGED <<browser, wire, link, posts, gen, registry, responses, fired, minted, mailed,
                 approved, events>>

(* A stream's connection is cut, seen by the page as an error or as an end. *)
LinkCut(t, seen) ==
  /\ link[t] = "open" /\ events < MaxEvents
  /\ events' = events + 1
  /\ link' = [link EXCEPT ![t] = seen]
  /\ UNCHANGED <<browser, wire, posts, drops, server, approved>>

Restart ==
  /\ events < MaxEvents
  /\ events' = events + 1
  /\ gen' = [t \in Turns |-> IF gen[t].phase \in Live
                             THEN [gen[t] EXCEPT !.phase = "gone", !.calls = <<>>] ELSE gen[t]]
  /\ link' = [t \in Turns |-> IF link[t] = "open" THEN "broken" ELSE link[t]]
  /\ registry' = {} /\ fired' = {}
  /\ responses' = [c \in Confirms |-> "none"]
  /\ UNCHANGED <<browser, wire, posts, drops, minted, stored, mailed, approved>>

----------------------------------------------------------------------------
Handler(t) == CreateSucceeds(t) \/ Connect(t) \/ Read(t) \/ ReadEnds(t) \/ ReadFails(t)

Agent(t) ==
  \/ LlmAnswers(t) \/ LlmGivesUp(t)
  \/ \E tools \in Rounds : LlmCallsTools(t, tools)
  \/ StartCall(t)
  \/ \E i \in DOMAIN gen[t].calls : Resume(t, i) \/ TimeOut(t, i)
  \/ EndRound(t) \/ Save(t)

(* Nothing makes these fair: an answer to a confirmation, a load or a       *)
(* deletion that never arrives is one that was lost, which the page ignores. *)
Answers ==
  \/ \E p \in posts : ConfirmArrives(p)
  \/ \E s \in loads.asked : LoadAnswered(s)
  \/ \E a \in loads.answers : Loaded(a)
  \/ \E d \in removing : FinishDelete(d)
  \/ \E id \in drops : DropArrives(id)

User ==
  \/ Ask
  \/ AskNew
  \/ \E yes \in BOOLEAN : Confirm(yes)
  \/ \E i \in DOMAIN feed : ClickDelete(i)
  \/ \E s \in Sessions \union {None} : Visit(s)
  \/ Reload \/ Logout \/ Login

Trouble ==
  \/ \E t \in Turns : CreateFails(t) \/ ConnectFails(t) \/ Cancel(t)
  \/ \E t \in Turns, seen \in {"broken", "ended"} : LinkCut(t, seen)
  \/ Restart

Next == (\E t \in Turns : Handler(t) \/ Agent(t)) \/ Answers \/ User \/ Trouble

Fairness == \A t \in Turns : WF_vars(Handler(t)) /\ WF_vars(Agent(t))

Spec == Init /\ [][Next]_vars /\ Fairness

----------------------------------------------------------------------------
(* Properties *)

TypeOK ==
  /\ signedIn \in BOOLEAN
  /\ {route, active} \subseteq Sessions \union {None}
  /\ feed \in Seq(Message)
  /\ sending \in BOOLEAN
  /\ modal \in Confirms \union {0}
  /\ asks \in [Turns -> [pc: {"unused", "creating", "connecting", "reading", "over"},
                         session: Sessions \union {None}, here: BOOLEAN]]
  /\ loads.asked \subseteq Sessions /\ loads.answers \subseteq Seq(Turns)
  /\ link \in [Turns -> {"none", "open", "ended", "broken"}]
  /\ posts \subseteq [id: Confirms, yes: BOOLEAN]
  /\ \A t \in Turns :
       /\ gen[t].phase \in Live \union {"none", "saved", "gone"}
       /\ \A i \in DOMAIN gen[t].calls :
            gen[t].calls[i] \in [tool: Tools, state: {"started", "waiting", "over"},
                                 id: Confirms \union {0}, on: Confirms \union {0}]
  /\ registry \subseteq Confirms
  /\ responses \in [Confirms -> {"none", "yes", "no"}]
  /\ fired \subseteq Confirms /\ minted \in Confirms \union {0}
  /\ stored \in Seq(Turns)

(* No message is in the feed twice, and every question is directly followed *)
(* by its answer, whatever loads, streams and deletions did to the feed in  *)
(* between: deleteMessage takes the next message along, so an answer that   *)
(* stands elsewhere would stay behind, or another one would go.             *)
FeedInTurns ==
  /\ Cardinality(Ids(feed)) = Len(feed)
  /\ \A i \in DOMAIN feed :
       IF feed[i].role = "user"
       THEN i < Len(feed) /\ Id(feed[i + 1]) = <<feed[i].turn, "assistant", feed[i].copy>>
       ELSE i > 1 /\ Id(feed[i - 1]) = <<feed[i].turn, "user", feed[i].copy>>

(* A message leaves the page that shows it only if it was marked for        *)
(* deletion: an answer to a load that was asked before a question was sent  *)
(* does not take the question away (merge in useChat.loadMessages).         *)
MessagesStay ==
  [][\A x \in Ids(feed) : \/ x \in Ids(feed')
                          \/ \E d \in removing : x \in d.ids
                          \/ Mount(route')]_vars

(* The agent mails no more reports than the user said yes to, although the  *)
(* mail tool waits for whatever confirmation was registered first: an       *)
(* answer serves one call (the pops in _run_stream_tool).                   *)
MailsWithinApprovals == Cardinality(mailed) <= Cardinality(approved)

(* Every mail was agreed to: docs/ARCHITECTURE.md, "Sensitive actions yield *)
(* confirmation tokens (confirm_id) requiring user approval before          *)
(* execution".                                                              *)
MailedOnlyApproved == mailed \subseteq approved

(* A tool is shown as running only while the agent is at it or its end is   *)
(* under way, however rounds, reads, reloads and visits interleave - unless *)
(* the connection was cut.  Then nothing ends what was shown: the message,  *)
(* which has no answer, keeps its tools until the page is left (the catch   *)
(* and finally blocks of sendMessage).                                      *)
ShownToolsRun ==
  \A i \in DOMAIN feed : feed[i].running # {} =>
    LET m == feed[i]
        t == m.turn
    IN /\ m.text \notin {"answer", "excuse"}
       /\ \/ gen[t].phase = "tools" /\ m.running \subseteq ToolsOf(gen[t].calls)
          \/ wire[t].type = "ends" /\ m.running \subseteq wire[t].tools
          \/ link[t] \in {"ended", "broken"}

(* The composer is off only for a while: whatever breaks, sending is reset. *)
ComposerReturns == sending ~> ~sending
=============================================================================
