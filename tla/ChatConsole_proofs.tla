------------------------- MODULE ChatConsole_proofs -------------------------
(***************************************************************************)
(* Proofs about ChatConsole for any number of questions, confirmations,    *)
(* tool rounds and failures.                                               *)
(***************************************************************************)
EXTENDS ChatConsole, Subsequences_proofs

----------------------------------------------------------------------------
(* Types *)

Ask_ == [pc: {"unused", "creating", "connecting", "reading", "over"},
         session: Sessions \union {None}, here: BOOLEAN]
Call == [tool: Tools, state: {"started", "waiting", "over"},
         id: Confirms \union {0}, on: Confirms \union {0}]
Gen  == [phase: Live \union {"none", "saved", "gone"}, calls: Seq(Call), round: Nat,
         said: {"", "answer"}]

CallsEvents == [type: {"calls"}, tools: SUBSET Tools, asked: SUBSET Confirms]
EndsEvents  == [type: {"ends"}, tools: SUBSET Tools]
DoneEvents  == [type: {"done"}, answer: {"answer", "excuse"}]
Events      == CallsEvents \union EndsEvents \union DoneEvents

PageTypes ==
  /\ signedIn \in BOOLEAN /\ sending \in BOOLEAN
  /\ route \in Sessions \union {None} /\ active \in Sessions \union {None}
  /\ modal \in Confirms \union {0}
  /\ asks \in [Turns -> Ask_]
  /\ loads \in [asked: SUBSET Sessions, answers: SUBSET Seq(Turns)]

FeedTypes == feed \in Seq(Message)

NetworkTypes ==
  /\ wire \in [Turns -> Events \union {Nothing}]
  /\ link \in [Turns -> {"none", "open", "ended", "broken"}]
  /\ posts \subseteq [id: Confirms, yes: BOOLEAN]

ServerTypes ==
  /\ gen \in [Turns -> Gen]
  /\ registry \subseteq Confirms
  /\ responses \in [Confirms -> {"none", "yes", "no"}]
  /\ fired \subseteq Confirms
  /\ minted \in Confirms \union {0}
  /\ stored \in Seq(Turns)

TypeInv == PageTypes /\ FeedTypes /\ NetworkTypes /\ ServerTypes

LEMMA TypeInvTypeOK == TypeInv => TypeOK
<1> SUFFICES ASSUME TypeInv PROVE TypeOK
  OBVIOUS
<1>1. ASSUME NEW t \in Turns
      PROVE  /\ gen[t].phase \in Live \union {"none", "saved", "gone"}
             /\ \A i \in DOMAIN gen[t].calls : gen[t].calls[i] \in Call
  <2>1. gen[t] \in Gen
    BY DEF TypeInv, ServerTypes
  <2>2. gen[t].phase \in Live \union {"none", "saved", "gone"} /\ gen[t].calls \in Seq(Call)
    BY <2>1 DEF Gen
  <2> HIDE DEF Call
  <2> QED
    BY <2>2
<1> QED
  BY <1>1 DEF TypeInv, PageTypes, FeedTypes, NetworkTypes, ServerTypes, TypeOK, Ask_, Call

LEMMA NextTurnUnasked ==
  ASSUME Unasked # {}
  PROVE  NextTurn \in Turns /\ asks[NextTurn].pc = "unused"
<1>1. Unasked \in SUBSET Nat
  BY DEF Unasked, Turns
<1>2. \E t \in Unasked : \A u \in Unasked : t <= u
  BY <1>1, Smallest
<1> QED
  BY <1>2 DEF NextTurn, Unasked

LEMMA LeastIsMember ==
  ASSUME NEW T \in SUBSET Nat, T # {}
  PROVE  Least(T) \in T /\ \A x \in T : Least(T) <= x
BY Smallest DEF Least

LEMMA GreatestIsMember ==
  ASSUME NEW T \in SUBSET Confirms, T # {}
  PROVE  Greatest(T) \in T
<1>1. T \in SUBSET Nat /\ MaxConfirms \in Nat /\ \A x \in T : x <= MaxConfirms
  BY ConstantsAssumption DEF Confirms
<1>2. \E c \in T : \A d \in T : d <= c
  BY <1>1, Largest
<1> QED
  BY <1>2 DEF Greatest

LEMMA InitTypes == Init => TypeInv
<1> SUFFICES ASSUME Init PROVE TypeInv
  OBVIOUS
<1>1. MaxTurns \in Nat /\ Old \in 0..MaxTurns /\ (Old > 0 => 1 \in Turns)
  BY ConstantsAssumption DEF Turns
<1>2. route \in Sessions \union {None}
  BY <1>1 DEF Init, Sessions
<1>3. asks \in [Turns -> Ask_]
  <2>1. ASSUME NEW t \in Turns
        PROVE  (IF t <= Old THEN [pc |-> "over", session |-> 1, here |-> FALSE]
                ELSE [pc |-> "unused", session |-> None, here |-> FALSE]) \in Ask_
    <3>1. t <= Old => 1 \in Sessions
      BY <1>1 DEF Sessions, Turns
    <3> QED
      BY <3>1 DEF Ask_
  <2> QED
    BY <2>1 DEF Init
<1>4. gen \in [Turns -> Gen]
  <2>1. <<>> \in Seq(Call) /\ 0 \in Nat
    OBVIOUS
  <2> HIDE DEF Call
  <2>2. ASSUME NEW t \in Turns
        PROVE  [phase |-> IF t <= Old THEN "saved" ELSE "none", calls |-> <<>>,
                round |-> 0, said |-> IF t <= Old THEN "answer" ELSE ""] \in Gen
    BY <2>1 DEF Gen
  <2> QED
    BY <2>2 DEF Init
<1>5. stored \in Seq(Turns)
  <2>1. \A t \in 1..Old : t \in Turns
    BY <1>1 DEF Turns
  <2>2. Old \in Nat /\ [t \in 1..Old |-> t] \in [1..Old -> Turns]
    BY <1>1, <2>1
  <2>3. [t \in 1..Old |-> t] \in Seq(Turns)
    BY <2>2
  <2> QED
    BY <2>3 DEF Init
<1>6. loads \in [asked: SUBSET Sessions, answers: SUBSET Seq(Turns)]
  BY <1>2 DEF Init, None
<1>7. PageTypes
  BY <1>2, <1>3, <1>6 DEF Init, PageTypes
<1>8. FeedTypes /\ NetworkTypes
  <2>1. feed = <<>> /\ wire = [t \in Turns |-> Nothing] /\ link = [t \in Turns |-> "none"] /\ posts = {}
    BY DEF Init
  <2> QED
    BY <2>1 DEF FeedTypes, NetworkTypes
<1>9. ServerTypes
  BY <1>4, <1>5 DEF Init, ServerTypes
<1> QED
  BY <1>7, <1>8, <1>9 DEF TypeInv

Written == Events \union {[type |-> "error"]}

\* Writing to a message leaves it a message, and the same one.
LEMMA ChangedMessage ==
  ASSUME NEW m \in Message, NEW e \in Written
  PROVE  /\ Changed(m, e) \in Message
         /\ Changed(m, e).turn = m.turn /\ Changed(m, e).role = m.role
         /\ Changed(m, e).copy = m.copy /\ Id(Changed(m, e)) = Id(m)
<1>1. CASE e \in CallsEvents
  <2>1. e.type = "calls" /\ e.tools \in SUBSET Tools
    BY <1>1 DEF CallsEvents
  <2>2. Changed(m, e) = [m EXCEPT !.running = @ \union (e.tools \ m.ended)]
    BY <2>1 DEF Changed
  <2> QED
    BY <2>1, <2>2 DEF Message, Id
<1>2. CASE e \in EndsEvents
  <2>1. e.type = "ends" /\ e.tools \in SUBSET Tools
    BY <1>2 DEF EndsEvents
  <2>2. Changed(m, e) = [m EXCEPT !.running = @ \ e.tools, !.ended = @ \union e.tools]
    BY <2>1 DEF Changed
  <2> QED
    BY <2>1, <2>2 DEF Message, Id
<1>3. CASE e \in DoneEvents
  <2>1. e.type = "done" /\ e.answer \in {"answer", "excuse"}
    BY <1>3 DEF DoneEvents
  <2>2. Changed(m, e) = [m EXCEPT !.text = e.answer, !.streaming = FALSE]
    BY <2>1 DEF Changed
  <2> QED
    BY <2>1, <2>2 DEF Message, Id
<1>4. CASE e = [type |-> "error"]
  <2>1. Changed(m, e) = [m EXCEPT !.text = "error", !.streaming = FALSE]
    BY <1>4 DEF Changed
  <2> QED
    BY <2>1 DEF Message, Id
<1> QED
  BY <1>1, <1>2, <1>3, <1>4 DEF Written, Events

\* What a write does to the feed.
LEMMA WriteFeed ==
  ASSUME FeedTypes, NEW t \in Turns, NEW e \in Written, Write(t, e)
  PROVE  /\ FeedTypes' /\ Len(feed') = Len(feed) /\ DOMAIN feed' = DOMAIN feed
         /\ \A i \in DOMAIN feed :
              /\ feed'[i] = IF asks[t].here /\ Id(feed[i]) = <<t, "assistant", "local">>
                            THEN Changed(feed[i], e) ELSE feed[i]
              /\ feed'[i].turn = feed[i].turn /\ feed'[i].role = feed[i].role
              /\ feed'[i].copy = feed[i].copy /\ Id(feed'[i]) = Id(feed[i])
<1>1. /\ DOMAIN feed = 1..Len(feed) /\ Len(feed) \in Nat
      /\ \A i \in 1..Len(feed) : feed[i] \in Message
  BY DEF FeedTypes
<1>2. /\ DOMAIN feed' = 1..Len(feed)
      /\ \A i \in 1..Len(feed) :
           feed'[i] = IF asks[t].here /\ Id(feed[i]) = <<t, "assistant", "local">>
                      THEN Changed(feed[i], e) ELSE feed[i]
  BY <1>1 DEF Write
<1>3. \A i \in 1..Len(feed) :
        /\ feed'[i] \in Message
        /\ feed'[i].turn = feed[i].turn /\ feed'[i].role = feed[i].role
        /\ feed'[i].copy = feed[i].copy /\ Id(feed'[i]) = Id(feed[i])
  BY <1>1, <1>2, ChangedMessage
<1>4. feed' \in [1..Len(feed) -> Message]
  <2>1. feed' = [i \in 1..Len(feed) |-> feed'[i]]
    BY <1>1, <1>2 DEF Write
  <2> QED
    BY <1>3, <2>1
<1>5. feed' \in Seq(Message) /\ Len(feed') = Len(feed)
  BY <1>1, <1>4
<1> QED
  BY <1>1, <1>2, <1>3, <1>5 DEF FeedTypes

LEMMA NewMessages ==
  ASSUME NEW t \in Turns, TypeInv, NEW c \in {"local", "stored"}
  PROVE  /\ UserMessage(t, c) \in Message /\ AssistantMessage(t, c) \in Message
         /\ Id(UserMessage(t, c)) = <<t, "user", c>>
         /\ Id(AssistantMessage(t, c)) = <<t, "assistant", c>>
<1>1. gen[t].said \in {"", "answer"}
  BY DEF TypeInv, ServerTypes, Gen
<1> QED
  BY <1>1 DEF UserMessage, AssistantMessage, Message, Id

LEMMA BeginTypes ==
  ASSUME TypeInv, NEW t \in Turns, NEW s \in Sessions \union {None}, NEW here \in BOOLEAN,
         BeginStream(t, s, here)
  PROVE  asks' \in [Turns -> Ask_] /\ FeedTypes' /\ sending' \in BOOLEAN
<1>1. asks' \in [Turns -> Ask_]
  <2>1. [pc |-> "connecting", session |-> s, here |-> here] \in Ask_
    BY DEF Ask_
  <2> QED
    BY <2>1 DEF BeginStream, TypeInv, PageTypes
<1>2. FeedTypes'
  <2> DEFINE new == <<UserMessage(t, "local"), AssistantMessage(t, "local")>>
  <2>1. new \in Seq(Message)
    BY NewMessages
  <2>2. feed' \in {feed, feed \o new}
    BY DEF BeginStream
  <2> HIDE DEF new
  <2> QED
    BY <2>1, <2>2, ConcatProperties DEF TypeInv, FeedTypes
<1>3. sending' \in BOOLEAN
  BY DEF BeginStream, TypeInv, PageTypes
<1> QED
  BY <1>1, <1>2, <1>3

\* Other fields of a call of handleSendMessage keep their types.
LEMMA AskFields ==
  ASSUME TypeInv, NEW t \in Turns
  PROVE  /\ asks[t].session \in Sessions \union {None} /\ asks[t].here \in BOOLEAN
         /\ \A p \in {"unused", "creating", "connecting", "reading", "over"} :
              /\ [asks EXCEPT ![t].pc = p] \in [Turns -> Ask_]
              /\ [asks EXCEPT ![t].pc = p][t].pc = p
              /\ [asks EXCEPT ![t].pc = p][t].here = asks[t].here
              /\ \A u \in Turns \ {t} : [asks EXCEPT ![t].pc = p][u] = asks[u]
<1>1. asks \in [Turns -> Ask_]
  BY DEF TypeInv, PageTypes
<1> QED
  BY <1>1 DEF Ask_

LEMMA CatchTypes ==
  ASSUME TypeInv, NEW t \in Turns, Catch(t)
  PROVE  asks' \in [Turns -> Ask_] /\ FeedTypes' /\ sending' \in BOOLEAN
<1>1. FeedTypes'
  BY WriteFeed DEF TypeInv, Catch, Written
<1>2. asks' \in [Turns -> Ask_]
  BY AskFields DEF Catch, Finally
<1>3. sending' \in BOOLEAN
  BY DEF Catch, Finally, TypeInv, PageTypes
<1> QED
  BY <1>1, <1>2, <1>3

LEMMA NetworkKept == NetworkTypes /\ UNCHANGED network => NetworkTypes'
BY DEF NetworkTypes, network

LEMMA ServerKept == ServerTypes /\ UNCHANGED server => ServerTypes'
BY DEF ServerTypes, server

LEMMA PageKept ==
  PageTypes /\ UNCHANGED <<signedIn, route, active, sending, modal, asks, loads>> => PageTypes'
BY DEF PageTypes

LEMMA LoadTypes ==
  ASSUME TypeInv, NEW s \in Sessions \union {None}
  PROVE  Load(s) \in [asked: SUBSET Sessions, answers: SUBSET Seq(Turns)]
BY DEF TypeInv, PageTypes, Load

LEMMA AskingTypes ==
  ASSUME TypeInv, Ask \/ AskNew \/ \E t \in Turns : CreateSucceeds(t) \/ CreateFails(t)
  PROVE  TypeInv'
<1> USE DEF TypeInv
<1>1. CASE Ask
  <2>1. NextTurn \in Turns /\ active \in Sessions
    BY <1>1, NextTurnUnasked DEF Ask, ChatView, PageTypes
  <2>2. asks' \in [Turns -> Ask_] /\ FeedTypes' /\ sending' \in BOOLEAN
    BY <1>1, <2>1, BeginTypes DEF Ask
  <2>3. PageTypes' /\ UNCHANGED <<network, server>>
    BY <1>1, <2>2 DEF Ask, PageTypes
  <2> QED
    BY <2>2, <2>3, NetworkKept, ServerKept
<1>2. CASE AskNew
  <2>1. NextTurn \in Turns
    BY <1>2, NextTurnUnasked DEF AskNew
  <2>2. [pc |-> "creating", session |-> NextTurn, here |-> TRUE] \in Ask_
    BY <2>1 DEF Ask_, Sessions
  <2>3. asks' \in [Turns -> Ask_]
    BY <1>2, <2>1, <2>2 DEF AskNew, PageTypes
  <2>4. PageTypes' /\ FeedTypes' /\ UNCHANGED <<network, server>>
    BY <1>2, <2>3 DEF AskNew, PageTypes, FeedTypes
  <2> QED
    BY <2>4, NetworkKept, ServerKept
<1>3. ASSUME NEW t \in Turns, CreateSucceeds(t) PROVE TypeInv'
  <2>1. asks[t].session \in Sessions \union {None} /\ asks[t].here \in BOOLEAN
    BY AskFields
  <2>2. asks' \in [Turns -> Ask_] /\ FeedTypes' /\ sending' \in BOOLEAN
    BY <1>3, <2>1, BeginTypes DEF CreateSucceeds
  <2>3. loads' \in [asked: SUBSET Sessions, answers: SUBSET Seq(Turns)]
    BY <1>3, <2>1, LoadTypes DEF CreateSucceeds, PageTypes
  <2>4. PageTypes' /\ UNCHANGED <<network, server>>
    BY <1>3, <2>1, <2>2, <2>3 DEF CreateSucceeds, PageTypes
  <2> QED
    BY <2>2, <2>4, NetworkKept, ServerKept
<1>4. ASSUME NEW t \in Turns, CreateFails(t) PROVE TypeInv'
  <2>1. asks' \in [Turns -> Ask_]
    BY <1>4, AskFields, ZenonT(30) DEF CreateFails
  <2>2. PageTypes' /\ FeedTypes' /\ UNCHANGED <<network, server>>
    BY <1>4, <2>1 DEF CreateFails, PageTypes, FeedTypes
  <2> QED
    BY <2>2, NetworkKept, ServerKept
<1> QED
  BY <1>1, <1>2, <1>3, <1>4

\* A phase, and what goes with it.
LEMMA GenFields ==
  ASSUME TypeInv, NEW t \in Turns
  PROVE  /\ gen[t].calls \in Seq(Call) /\ gen[t].round \in Nat
         /\ gen[t].phase \in Live \union {"none", "saved", "gone"}
         /\ gen[t].said \in {"", "answer"}
BY DEF TypeInv, ServerTypes, Gen

LEMMA StreamTypes ==
  ASSUME TypeInv, NEW t \in Turns,
         Connect(t) \/ ConnectFails(t) \/ Read(t) \/ ReadEnds(t) \/ ReadFails(t)
  PROVE  TypeInv'
<1> USE DEF TypeInv
<1>1. CASE Connect(t)
  <2>1. asks' \in [Turns -> Ask_]
    BY <1>1, AskFields DEF Connect
  <2>2. gen' \in [Turns -> Gen]
    <3>1. [gen[t] EXCEPT !.phase = "llm"] \in Gen
      BY DEF ServerTypes, Gen, Live
    <3>2. gen' = [gen EXCEPT ![t] = [gen[t] EXCEPT !.phase = "llm"]]
      BY <1>1 DEF Connect
    <3> QED
      BY <3>1, <3>2 DEF ServerTypes
  <2>3. link' \in [Turns -> {"none", "open", "ended", "broken"}]
    BY <1>1 DEF Connect, NetworkTypes
  <2>4. PageTypes' /\ FeedTypes'
    BY <1>1, <2>1 DEF Connect, PageTypes, FeedTypes
  <2>5. NetworkTypes'
    BY <1>1, <2>3 DEF Connect, NetworkTypes
  <2>6. ServerTypes'
    BY <1>1, <2>2 DEF Connect, ServerTypes
  <2> QED
    BY <2>4, <2>5, <2>6
<1>2. CASE ConnectFails(t)
  <2>1. asks' \in [Turns -> Ask_] /\ FeedTypes' /\ sending' \in BOOLEAN
    BY <1>2, CatchTypes DEF ConnectFails
  <2>2. PageTypes' /\ UNCHANGED <<network, server>>
    BY <1>2, <2>1 DEF ConnectFails, PageTypes
  <2> QED
    BY <2>1, <2>2, NetworkKept, ServerKept
<1>3. CASE Read(t)
  <2>1. wire[t] \in Events
    BY <1>3 DEF Read, NetworkTypes
  <2>2. FeedTypes'
    BY <1>3, <2>1, WriteFeed DEF Read, Handle, Written
  <2>3. modal' \in Confirms \union {0}
    <3>1. CASE wire[t].type = "calls" /\ wire[t].asked # {}
      <4>1. wire[t] \in CallsEvents
        BY <2>1, <3>1 DEF Events, EndsEvents, DoneEvents
      <4>2. wire[t].asked \in SUBSET Confirms
        BY <4>1 DEF CallsEvents
      <4>3. Greatest(wire[t].asked) \in Confirms
        BY <3>1, <4>2, GreatestIsMember
      <4> QED
        BY <1>3, <4>3 DEF Read, Handle, PageTypes
    <3>2. CASE ~(wire[t].type = "calls" /\ wire[t].asked # {})
      BY <1>3, <3>2 DEF Read, Handle, PageTypes
    <3> QED
      BY <3>1, <3>2
  <2>4. PageTypes'
    BY <1>3, <2>3 DEF Read, PageTypes
  <2>5. NetworkTypes'
    BY <1>3 DEF Read, NetworkTypes
  <2>6. UNCHANGED server
    BY <1>3 DEF Read
  <2> QED
    BY <2>2, <2>4, <2>5, <2>6, ServerKept
<1>4. CASE ReadEnds(t)
  <2>1. asks' \in [Turns -> Ask_]
    BY <1>4, AskFields DEF ReadEnds, Finally
  <2>2. PageTypes' /\ FeedTypes' /\ UNCHANGED <<network, server>>
    BY <1>4, <2>1 DEF ReadEnds, Finally, PageTypes, FeedTypes
  <2> QED
    BY <2>2, NetworkKept, ServerKept
<1>5. CASE ReadFails(t)
  <2>1. asks' \in [Turns -> Ask_] /\ FeedTypes' /\ sending' \in BOOLEAN
    BY <1>5, CatchTypes DEF ReadFails
  <2>2. PageTypes' /\ UNCHANGED server
    BY <1>5, <2>1 DEF ReadFails, PageTypes
  <2>3. NetworkTypes'
    BY <1>5 DEF ReadFails, NetworkTypes
  <2> QED
    BY <2>1, <2>2, <2>3, ServerKept
<1> QED
  BY <1>1, <1>2, <1>3, <1>4, <1>5

\* What a load brings is messages; how many, and which.
LEMMA RowsMessages ==
  ASSUME TypeInv, NEW ts \in Seq(Turns)
  PROVE  /\ Rows(ts) \in Seq(Message) /\ Len(Rows(ts)) = 2 * Len(ts)
         /\ \A k \in 1..Len(ts) : /\ Rows(ts)[2 * k - 1] = UserMessage(ts[k], "stored")
                                  /\ Rows(ts)[2 * k] = AssistantMessage(ts[k], "stored")
         /\ \A i \in 1..(2 * Len(ts)) : \E k \in 1..Len(ts) : i = 2 * k - 1 \/ i = 2 * k
<1> DEFINE n == Len(ts)
<1>1. n \in Nat /\ \A k \in 1..n : ts[k] \in Turns
  OBVIOUS
<1> HIDE DEF n
<1>2. ASSUME NEW i \in 1..(2 * n)
      PROVE  \E k \in 1..n : i = 2 * k - 1 \/ i = 2 * k
  <2>1. (i + 1) \div 2 \in 1..n /\ (i = 2 * ((i + 1) \div 2) - 1 \/ i = 2 * ((i + 1) \div 2))
    BY <1>1, <1>2
  <2> QED
    BY <2>1
<1>3. ASSUME NEW k \in 1..n
      PROVE  /\ 2 * k - 1 \in 1..(2 * n) /\ 2 * k \in 1..(2 * n)
             /\ ((2 * k - 1) + 1) \div 2 = k /\ (2 * k + 1) \div 2 = k
             /\ (2 * k - 1) % 2 = 1 /\ (2 * k) % 2 = 0
  BY <1>1, <1>3
<1>4. \A k \in 1..n : /\ Rows(ts)[2 * k - 1] = UserMessage(ts[k], "stored")
                      /\ Rows(ts)[2 * k] = AssistantMessage(ts[k], "stored")
  BY <1>1, <1>3 DEF Rows, n
<1>5. \A i \in 1..(2 * n) : Rows(ts)[i] \in Message
  BY <1>1, <1>2, <1>4, NewMessages
<1>6. Rows(ts) \in [1..(2 * n) -> Message] /\ 2 * n \in Nat
  <2>1. Rows(ts) = [i \in 1..(2 * n) |-> Rows(ts)[i]]
    BY DEF Rows, n
  <2> QED
    BY <1>1, <1>5, <2>1
<1>7. Rows(ts) \in Seq(Message) /\ Len(Rows(ts)) = 2 * n
  BY <1>6
<1> QED
  BY <1>2, <1>4, <1>7 DEF n

LEMMA MountTypes ==
  ASSUME TypeInv, NEW s \in Sessions \union {None}, Mount(s)
  PROVE  /\ route' \in Sessions \union {None} /\ active' \in Sessions \union {None}
         /\ FeedTypes' /\ sending' \in BOOLEAN /\ modal' \in Confirms \union {0}
         /\ loads' \in [asked: SUBSET Sessions, answers: SUBSET Seq(Turns)]
<1>1. feed' = <<>> /\ sending' = FALSE /\ modal' = 0 /\ route' = s /\ active' = s
  BY DEF Mount
<1>2. loads' \in [asked: SUBSET Sessions, answers: SUBSET Seq(Turns)]
  BY DEF Mount
<1>3. FeedTypes'
  BY <1>1 DEF FeedTypes
<1> QED
  BY <1>1, <1>2, <1>3

LEMMA PageActionTypes ==
  ASSUME TypeInv,
         \/ \E yes \in BOOLEAN : Confirm(yes)
         \/ \E i \in DOMAIN feed : ClickDelete(i)
         \/ Logout \/ Login
         \/ \E a \in loads.answers : Loaded(a)
         \/ \E d \in removing : FinishDelete(d)
  PROVE  TypeInv'
<1> USE DEF TypeInv
<1>1. ASSUME NEW yes \in BOOLEAN, Confirm(yes) PROVE TypeInv'
  <2>1. modal \in Confirms
    BY <1>1 DEF Confirm, ModalShown, PageTypes
  <2>2. posts' \subseteq [id: Confirms, yes: BOOLEAN]
    BY <1>1, <2>1 DEF Confirm, NetworkTypes
  <2>3. PageTypes' /\ FeedTypes'
    BY <1>1 DEF Confirm, PageTypes, FeedTypes
  <2>4. NetworkTypes' /\ UNCHANGED server
    BY <1>1, <2>2 DEF Confirm, NetworkTypes
  <2> QED
    BY <2>3, <2>4, ServerKept
<1>2. ASSUME NEW i \in DOMAIN feed, ClickDelete(i) PROVE TypeInv'
  BY <1>2, PageKept, NetworkKept, ServerKept DEF ClickDelete, FeedTypes
<1>3. CASE Logout \/ Login
  <2>1. loads' \in [asked: SUBSET Sessions, answers: SUBSET Seq(Turns)]
    BY <1>3 DEF Logout, Login, PageTypes
  <2>2. PageTypes' /\ FeedTypes' /\ UNCHANGED <<network, server>>
    BY <1>3, <2>1 DEF Logout, Login, PageTypes, FeedTypes
  <2> QED
    BY <2>2, NetworkKept, ServerKept
<1>4. ASSUME NEW a \in loads.answers, Loaded(a) PROVE TypeInv'
  <2>1. a \in Seq(Turns) /\ loads' \in [asked: SUBSET Sessions, answers: SUBSET Seq(Turns)]
    BY <1>4 DEF Loaded, PageTypes
  <2>2. Rows(a) \in Seq(Message)
    BY <2>1, RowsMessages
  <2>3. Without(feed, Ids(Rows(a))) \in Seq(Message)
    BY KeptPicks DEF Without, FeedTypes
  <2>4. FeedTypes'
    BY <1>4, <2>2, <2>3, ConcatProperties DEF Loaded, Merge, FeedTypes
  <2>5. PageTypes' /\ UNCHANGED <<network, server>>
    BY <1>4, <2>1 DEF Loaded, PageTypes
  <2> QED
    BY <2>4, <2>5, NetworkKept, ServerKept
<1>5. ASSUME NEW d \in removing, FinishDelete(d) PROVE TypeInv'
  <2>1. FeedTypes'
    BY <1>5, KeptPicks DEF FinishDelete, Without, FeedTypes
  <2>2. PageTypes' /\ UNCHANGED server
    BY <1>5 DEF FinishDelete, PageTypes
  <2>3. NetworkTypes'
    BY <1>5 DEF FinishDelete, NetworkTypes
  <2> QED
    BY <2>1, <2>2, <2>3, ServerKept
<1> QED
  BY <1>1, <1>2, <1>3, <1>4, <1>5

LEMMA MountingTypes ==
  ASSUME TypeInv, Reload \/ \E s \in Sessions \union {None} : Visit(s)
  PROVE  TypeInv'
<1> USE DEF TypeInv
<1>1. \A t \in Turns : /\ [asks[t] EXCEPT !.here = FALSE] \in Ask_
                       /\ [asks[t] EXCEPT !.here = FALSE,
                             !.pc = IF @ = "unused" THEN @ ELSE "over"] \in Ask_
  BY DEF PageTypes, Ask_
<1>2. ASSUME NEW s \in Sessions \union {None}, Visit(s) PROVE TypeInv'
  <2>1. asks' \in [Turns -> Ask_]
    BY <1>1, <1>2 DEF Visit
  <2>2. PageTypes' /\ FeedTypes'
    BY <1>2, <2>1, MountTypes DEF Visit, PageTypes
  <2>3. NetworkTypes' /\ UNCHANGED server
    BY <1>2 DEF Visit, NetworkTypes
  <2> QED
    BY <2>2, <2>3, ServerKept
<1>3. CASE Reload
  <2>1. asks' \in [Turns -> Ask_]
    BY <1>1, <1>3 DEF Reload
  <2>2. PageTypes' /\ FeedTypes'
    BY <1>3, <2>1, MountTypes DEF Reload, PageTypes
  <2>3. NetworkTypes' /\ UNCHANGED server
    <3>1. link' \in [Turns -> {"none", "open", "ended", "broken"}]
      BY <1>3 DEF Reload, NetworkTypes
    <3> QED
      BY <1>3, <3>1 DEF Reload, NetworkTypes
  <2> QED
    BY <2>2, <2>3, ServerKept
<1> QED
  BY <1>2, <1>3

LEMMA EmitTypes ==
  ASSUME TypeInv, NEW t \in Turns, NEW e \in Events, Emit(t, e), UNCHANGED <<link, posts>>
  PROVE  NetworkTypes'
BY DEF TypeInv, NetworkTypes, Emit

LEMMA GenTypes ==
  ASSUME TypeInv, NEW t \in Turns, NEW g \in Gen, gen' = [gen EXCEPT ![t] = g],
         UNCHANGED <<registry, responses, fired, minted, stored>>
  PROVE  ServerTypes'
BY DEF TypeInv, ServerTypes

\* The calls that a round of tools makes.
Calling(tools, n) ==
  LET Mails(k) == {i \in 1..k : tools[i] = "send_report_email"}
  IN [i \in DOMAIN tools |->
        [tool |-> tools[i], state |-> "started", on |-> 0,
         id |-> IF i \in Mails(i) THEN n + Cardinality(Mails(i)) ELSE 0]]
Mailing(tools) == Cardinality({i \in 1..Len(tools) : tools[i] = "send_report_email"})

LEMMA CallingTypes ==
  ASSUME NEW tools \in Seq(Tools), NEW n \in Nat, n + Mailing(tools) <= MaxConfirms
  PROVE  /\ Calling(tools, n) \in Seq(Call) /\ Mailing(tools) \in Nat
         /\ DOMAIN Calling(tools, n) = DOMAIN tools
<1> DEFINE Mails(k) == {i \in 1..k : tools[i] = "send_report_email"}
<1>1. Len(tools) \in Nat /\ DOMAIN tools = 1..Len(tools) /\ MaxConfirms \in Nat
  BY ConstantsAssumption
<1>2. ASSUME NEW k \in 0..Len(tools)
      PROVE  Cardinality(Mails(k)) \in Nat /\ Cardinality(Mails(k)) <= Mailing(tools)
  <2>1. 1..k \subseteq 1..Len(tools)
    BY <1>1
  <2>2. Mails(k) \subseteq Mails(Len(tools)) /\ Mails(Len(tools)) \subseteq 1..Len(tools)
    BY <2>1
  <2>3. IsFiniteSet(1..Len(tools))
    BY <1>1, FS_Interval
  <2> HIDE DEF Mails
  <2>4. IsFiniteSet(Mails(Len(tools))) /\ IsFiniteSet(Mails(k))
    BY <2>2, <2>3, FS_Subset
  <2>5. Cardinality(Mails(k)) \in Nat /\ Cardinality(Mails(k)) <= Cardinality(Mails(Len(tools)))
    BY <2>2, <2>4, FS_Subset, FS_CardinalityType
  <2>6. Mailing(tools) = Cardinality(Mails(Len(tools)))
    BY DEF Mailing, Mails
  <2> QED
    BY <2>5, <2>6
<1>3. Mailing(tools) \in Nat
  <2>1. Cardinality(Mails(Len(tools))) \in Nat /\ Len(tools) \in 0..Len(tools)
    BY <1>1, <1>2
  <2>2. Mailing(tools) = Cardinality(Mails(Len(tools)))
    BY DEF Mailing
  <2> HIDE DEF Mails
  <2> QED
    BY <2>1, <2>2
<1>4. ASSUME NEW i \in 1..Len(tools)
      PROVE  (IF i \in Mails(i) THEN n + Cardinality(Mails(i)) ELSE 0) \in Confirms \union {0}
  <2>1. Cardinality(Mails(i)) \in Nat /\ Cardinality(Mails(i)) <= Mailing(tools)
    BY <1>1, <1>2
  <2>2. CASE i \in Mails(i)
    <3>1. Mails(i) # {} /\ IsFiniteSet(Mails(i))
      <4>1. IsFiniteSet(1..i) /\ Mails(i) \subseteq 1..i
        BY <1>1, FS_Interval
      <4> HIDE DEF Mails
      <4> QED
        BY <2>2, <4>1, FS_Subset
    <3> HIDE DEF Mails
    <3>2. Cardinality(Mails(i)) # 0
      BY <3>1, FS_EmptySet
    <3> QED
      BY <1>1, <1>3, <2>1, <2>2, <3>2 DEF Confirms
  <2>3. CASE i \notin Mails(i)
    BY <2>3
  <2> QED
    BY <2>2, <2>3
<1>5. ASSUME NEW i \in 1..Len(tools)
      PROVE  [tool |-> tools[i], state |-> "started", on |-> 0,
              id |-> IF i \in Mails(i) THEN n + Cardinality(Mails(i)) ELSE 0] \in Call
  <2> DEFINE id == IF i \in Mails(i) THEN n + Cardinality(Mails(i)) ELSE 0
  <2>1. id \in Confirms \union {0} /\ tools[i] \in Tools
    BY <1>1, <1>4
  <2> HIDE DEF id
  <2>2. [tool |-> tools[i], state |-> "started", on |-> 0, id |-> id] \in Call
    BY <2>1 DEF Call
  <2> QED
    BY <2>2 DEF id
<1>6. Calling(tools, n) \in [1..Len(tools) -> Call]
  BY <1>1, <1>5 DEF Calling
<1>7. DOMAIN Calling(tools, n) = DOMAIN tools
  BY DEF Calling
<1> QED
  BY <1>1, <1>3, <1>6, <1>7

LEMMA ToolsOfCalls ==
  ASSUME NEW calls \in Seq(Call)
  PROVE  ToolsOf(calls) \subseteq Tools
<1>1. ASSUME NEW i \in DOMAIN calls PROVE calls[i] \in Call
  <2> HIDE DEF Call
  <2> QED
    OBVIOUS
<1>2. \A c \in Call : c.tool \in Tools
  BY DEF Call
<1> QED
  BY <1>1, <1>2 DEF ToolsOf

\* What a round of tools does to the server.
LEMMA CallsToolsEffect ==
  ASSUME NEW t \in Turns, NEW tools \in Seq(Tools), LlmCallsTools(t, tools)
  PROVE  LET last == minted + Mailing(tools)
         IN  /\ gen[t].phase = "llm" /\ last <= MaxConfirms /\ minted' = last
             /\ registry' = registry \union ((minted + 1)..last)
             /\ Emit(t, [type |-> "calls", tools |-> ToolsOf(Calling(tools, minted)),
                         asked |-> (minted + 1)..last])
             /\ gen' = [gen EXCEPT ![t].phase = "tools", ![t].calls = Calling(tools, minted)]
             /\ UNCHANGED <<browser, link, posts, drops, responses, fired, stored, mailed,
                            approved, events>>
BY DEF LlmCallsTools, Calling, Mailing

LEMMA CallsToolsTypes ==
  ASSUME TypeInv, NEW t \in Turns, NEW tools \in Rounds, LlmCallsTools(t, tools)
  PROVE  TypeInv'
<1> DEFINE last == minted + Mailing(tools)
           calls == Calling(tools, minted)
           e == [type |-> "calls", tools |-> ToolsOf(calls), asked |-> (minted + 1)..last]
<1>1. tools \in Seq(Tools) /\ MaxConfirms \in Nat
  BY ConstantsAssumption
<1>2. /\ last <= MaxConfirms /\ minted' = last
      /\ registry' = registry \union ((minted + 1)..last) /\ Emit(t, e)
      /\ gen' = [gen EXCEPT ![t].phase = "tools", ![t].calls = calls]
      /\ UNCHANGED <<browser, link, posts, drops, responses, fired, stored, mailed,
                     approved, events>>
  BY <1>1, CallsToolsEffect
<1>3. minted \in Nat /\ registry \subseteq Confirms
  BY DEF TypeInv, ServerTypes, Confirms
<1>4. calls \in Seq(Call) /\ Mailing(tools) \in Nat
  BY <1>1, <1>2, <1>3, CallingTypes
<1> HIDE DEF calls
<1>5. last \in Confirms \union {0} /\ (minted + 1)..last \subseteq Confirms
  BY <1>1, <1>2, <1>3, <1>4 DEF Confirms
<1> HIDE DEF last
<1>6. e \in Events
  <2>2. ToolsOf(calls) \subseteq Tools
    BY <1>4, ToolsOfCalls
  <2>3. e \in CallsEvents
    BY <1>5, <2>2 DEF CallsEvents
  <2> QED
    BY <2>3 DEF Events
<1> HIDE DEF e
<1>7. NetworkTypes'
  BY <1>2, <1>6, EmitTypes
<1>8. gen' \in [Turns -> Gen]
  <2>1. [gen[t] EXCEPT !.phase = "tools", !.calls = calls] \in Gen
    <3>1. gen[t] \in Gen
      BY DEF TypeInv, ServerTypes
    <3> HIDE DEF Call
    <3> QED
      BY <1>4, <3>1 DEF Gen, Live
  <2>2. gen' = [gen EXCEPT ![t] = [gen[t] EXCEPT !.phase = "tools", !.calls = calls]]
    BY <1>2
  <2> QED
    BY <2>1, <2>2 DEF TypeInv, ServerTypes
<1>9. ServerTypes'
  BY <1>2, <1>3, <1>5, <1>8 DEF TypeInv, ServerTypes
<1>10. PageTypes' /\ FeedTypes'
  BY <1>2, PageKept DEF browser, TypeInv, FeedTypes
<1> QED
  BY <1>7, <1>9, <1>10 DEF TypeInv

\* The fields of the server's answer to a question after a change of phase.
LEMMA GenPhase ==
  ASSUME TypeInv, NEW t \in Turns
  PROVE  /\ \A p \in Live \union {"none", "saved", "gone"} : [gen[t] EXCEPT !.phase = p] \in Gen
         /\ [gen[t] EXCEPT !.phase = "closing", !.said = "answer"] \in Gen
         /\ [gen[t] EXCEPT !.phase = "llm", !.calls = <<>>, !.round = @ + 1] \in Gen
         /\ [gen[t] EXCEPT !.phase = "gone", !.calls = <<>>] \in Gen
<1>1. gen[t] \in Gen
  BY DEF TypeInv, ServerTypes
<1>2. <<>> \in Seq(Call) /\ \A n \in Nat : n + 1 \in Nat
  OBVIOUS
<1> HIDE DEF Call
<1>3. \A p \in Live \union {"none", "saved", "gone"} : [gen[t] EXCEPT !.phase = p] \in Gen
  BY <1>1 DEF Gen
<1>4. [gen[t] EXCEPT !.phase = "closing", !.said = "answer"] \in Gen
  BY <1>1 DEF Gen, Live
<1>5. [gen[t] EXCEPT !.phase = "llm", !.calls = <<>>, !.round = @ + 1] \in Gen
  BY <1>1, <1>2 DEF Gen, Live
<1>6. [gen[t] EXCEPT !.phase = "gone", !.calls = <<>>] \in Gen
  BY <1>1, <1>2 DEF Gen, Live
<1> QED
  BY <1>3, <1>4, <1>5, <1>6

LEMMA AgentTypes ==
  ASSUME TypeInv, NEW t \in Turns,
         LlmAnswers(t) \/ LlmGivesUp(t) \/ EndRound(t) \/ Save(t)
  PROVE  TypeInv'
<1>1. UNCHANGED browser => PageTypes' /\ FeedTypes'
  BY PageKept DEF browser, TypeInv, FeedTypes
<1>2. CASE LlmAnswers(t)
  <2>1. Done("answer") \in Events
    BY DEF Done, Events, DoneEvents
  <2>2. NetworkTypes'
    BY <1>2, <2>1, EmitTypes DEF LlmAnswers
  <2>3. gen' = [gen EXCEPT ![t] = [gen[t] EXCEPT !.phase = "closing", !.said = "answer"]]
    BY <1>2 DEF LlmAnswers
  <2>4. ServerTypes'
    BY <1>2, <2>3, GenPhase, GenTypes DEF LlmAnswers
  <2> QED
    BY <1>1, <1>2, <2>2, <2>4 DEF LlmAnswers, TypeInv
<1>3. CASE LlmGivesUp(t)
  <2>1. Done("excuse") \in Events
    BY DEF Done, Events, DoneEvents
  <2>2. NetworkTypes'
    BY <1>3, <2>1, EmitTypes DEF LlmGivesUp
  <2>3. gen' = [gen EXCEPT ![t] = [gen[t] EXCEPT !.phase = "closing"]]
    BY <1>3 DEF LlmGivesUp
  <2>4. ServerTypes'
    BY <1>3, <2>3, GenPhase, GenTypes DEF LlmGivesUp, Live
  <2> QED
    BY <1>1, <1>3, <2>2, <2>4 DEF LlmGivesUp, TypeInv
<1>4. CASE EndRound(t)
  <2>1. [type |-> "ends", tools |-> ToolsOf(gen[t].calls)] \in Events
    <3>2. ToolsOf(gen[t].calls) \subseteq Tools
      BY GenFields, ToolsOfCalls
    <3>3. [type |-> "ends", tools |-> ToolsOf(gen[t].calls)] \in EndsEvents
      BY <3>2 DEF EndsEvents
    <3> QED
      BY <3>3 DEF Events
  <2>2. NetworkTypes'
    BY <1>4, <2>1, EmitTypes DEF EndRound
  <2>3. gen' = [gen EXCEPT ![t] = [gen[t] EXCEPT !.phase = "llm", !.calls = <<>>, !.round = @ + 1]]
    BY <1>4 DEF EndRound
  <2>4. ServerTypes'
    BY <1>4, <2>3, GenPhase, GenTypes DEF EndRound
  <2> QED
    BY <1>1, <1>4, <2>2, <2>4 DEF EndRound, TypeInv
<1>5. CASE Save(t)
  <2>1. gen' = [gen EXCEPT ![t] = [gen[t] EXCEPT !.phase = "saved"]]
    BY <1>5 DEF Save
  <2>2. gen' \in [Turns -> Gen]
    BY <2>1, GenPhase DEF TypeInv, ServerTypes
  <2>3. stored' \in Seq(Turns)
    BY <1>5, AppendProperties DEF Save, TypeInv, ServerTypes
  <2>4. ServerTypes'
    BY <1>5, <2>2, <2>3 DEF Save, TypeInv, ServerTypes
  <2>5. NetworkTypes'
    BY <1>5 DEF Save, TypeInv, NetworkTypes
  <2> QED
    BY <1>1, <1>5, <2>4, <2>5 DEF Save, TypeInv
<1> QED
  BY <1>2, <1>3, <1>4, <1>5

\* A call moves on.
LEMMA CallMoves ==
  ASSUME TypeInv, NEW t \in Turns, NEW i \in DOMAIN gen[t].calls
  PROVE  /\ gen[t].calls[i] \in Call
         /\ \A s \in {"started", "waiting", "over"} :
              [gen EXCEPT ![t].calls[i].state = s] \in [Turns -> Gen]
         /\ \A c \in Confirms :
              [gen EXCEPT ![t].calls[i].state = "waiting", ![t].calls[i].on = c] \in [Turns -> Gen]
<1>1. gen[t] \in Gen /\ gen[t].calls \in Seq(Call) /\ gen[t].calls[i] \in Call
  <2>1. gen[t] \in Gen /\ gen[t].calls \in Seq(Call)
    BY GenFields DEF TypeInv, ServerTypes
  <2> HIDE DEF Call
  <2>2. gen[t].calls[i] \in Call
    BY <2>1
  <2> QED
    BY <2>1, <2>2
<1>2. ASSUME NEW k \in Call
      PROVE  [gen EXCEPT ![t] = [gen[t] EXCEPT !.calls = [gen[t].calls EXCEPT ![i] = k]]]
               \in [Turns -> Gen]
  <2> HIDE DEF Call
  <2>1. [gen[t].calls EXCEPT ![i] = k] \in Seq(Call)
    BY <1>1, ExceptSeq
  <2>2. [gen[t] EXCEPT !.calls = [gen[t].calls EXCEPT ![i] = k]] \in Gen
    BY <1>1, <2>1 DEF Gen
  <2> QED
    BY <2>2 DEF TypeInv, ServerTypes
<1>3. ASSUME NEW s \in {"started", "waiting", "over"}
      PROVE  [gen EXCEPT ![t].calls[i].state = s] \in [Turns -> Gen]
  <2>1. [gen[t].calls[i] EXCEPT !.state = s] \in Call
    BY <1>1 DEF Call
  <2>2. [gen EXCEPT ![t].calls[i].state = s]
          = [gen EXCEPT ![t] = [gen[t] EXCEPT !.calls =
              [gen[t].calls EXCEPT ![i] = [gen[t].calls[i] EXCEPT !.state = s]]]]
    OBVIOUS
  <2> QED
    BY <1>2, <2>1, <2>2
<1>4. ASSUME NEW c \in Confirms
      PROVE  [gen EXCEPT ![t].calls[i].state = "waiting", ![t].calls[i].on = c] \in [Turns -> Gen]
  <2>1. [gen[t].calls[i] EXCEPT !.state = "waiting", !.on = c] \in Call
    BY <1>1 DEF Call
  <2>2. [gen EXCEPT ![t].calls[i].state = "waiting", ![t].calls[i].on = c]
          = [gen EXCEPT ![t] = [gen[t] EXCEPT !.calls =
              [gen[t].calls EXCEPT ![i] = [gen[t].calls[i] EXCEPT !.state = "waiting", !.on = c]]]]
    BY DEF TypeInv, ServerTypes
  <2> QED
    BY <1>2, <2>1, <2>2
<1> QED
  BY <1>1, <1>3, <1>4

\* The confirmation that a waiting call waits for, and the first one registered.
LEMMA FirstRegistered ==
  ASSUME TypeInv, registry # {}
  PROVE  /\ Least(registry) \in registry /\ Least(registry) \in Confirms
         /\ \A c \in registry : Least(registry) <= c
<1>1. registry \in SUBSET Nat /\ registry \subseteq Confirms
  BY DEF TypeInv, ServerTypes, Confirms
<1> QED
  BY <1>1, LeastIsMember

LEMMA NextCall ==
  ASSUME TypeInv, NEW t \in Turns, InState(t, "started") # {}
  PROVE  LET i == Least(InState(t, "started"))
         IN  i \in DOMAIN gen[t].calls /\ gen[t].calls[i].state = "started"
<1>1. gen[t].calls \in Seq(Call)
  BY GenFields
<1>2. InState(t, "started") \in SUBSET Nat
  BY <1>1 DEF InState
<1>3. Least(InState(t, "started")) \in InState(t, "started")
  BY <1>2, LeastIsMember
<1> QED
  BY <1>3 DEF InState

LEMMA ForgetTypes ==
  ASSUME TypeInv, NEW c, Forget(c)
  PROVE  registry' \subseteq Confirms /\ responses' \in [Confirms -> {"none", "yes", "no"}]
BY DEF Forget, TypeInv, ServerTypes

LEMMA RunTypes ==
  ASSUME TypeInv, NEW t \in Turns,
         StartCall(t) \/ \E i \in DOMAIN gen[t].calls : Resume(t, i) \/ TimeOut(t, i)
  PROVE  TypeInv'
<1>1. /\ UNCHANGED <<browser, network, fired, minted, stored>>
      /\ gen' \in [Turns -> Gen]
      /\ registry' \subseteq Confirms /\ responses' \in [Confirms -> {"none", "yes", "no"}]
  <2>1. CASE StartCall(t)
    <3> DEFINE i == Least(InState(t, "started"))
    <3>1. i \in DOMAIN gen[t].calls
      BY <2>1, NextCall DEF StartCall
    <3>2. CASE UNCHANGED <<registry, responses, mailed>>
               /\ gen' = [gen EXCEPT ![t].calls[i].state = "over"]
      BY <2>1, <3>1, <3>2, CallMoves DEF StartCall, TypeInv, ServerTypes
    <3>3. CASE registry # {} /\ Resolve(t, i, Least(registry))
      BY <2>1, <3>1, <3>3, CallMoves, ForgetTypes DEF StartCall, Resolve
    <3>4. CASE /\ registry # {} /\ UNCHANGED <<registry, responses, mailed>>
               /\ gen' = [gen EXCEPT ![t].calls[i].state = "waiting",
                                     ![t].calls[i].on = Least(registry)]
      BY <2>1, <3>1, <3>4, CallMoves, FirstRegistered DEF StartCall, TypeInv, ServerTypes
    <3> QED
      BY <2>1, <3>2, <3>3, <3>4 DEF StartCall
  <2>2. ASSUME NEW i \in DOMAIN gen[t].calls, Resume(t, i) \/ TimeOut(t, i)
        PROVE  /\ UNCHANGED <<browser, network, fired, minted, stored>>
               /\ gen' \in [Turns -> Gen]
               /\ registry' \subseteq Confirms
               /\ responses' \in [Confirms -> {"none", "yes", "no"}]
    <3>1. /\ gen' = [gen EXCEPT ![t].calls[i].state = "over"]
          /\ \E c : Forget(c)
          /\ UNCHANGED <<browser, network, fired, minted, stored>>
      BY <2>2 DEF Resume, TimeOut, Resolve
    <3> QED
      BY <3>1, CallMoves, ForgetTypes
  <2> QED
    BY <2>1, <2>2
<1>2. PageTypes' /\ FeedTypes'
  BY <1>1, PageKept DEF browser, TypeInv, FeedTypes
<1>3. NetworkTypes'
  BY <1>1, NetworkKept DEF TypeInv
<1>4. ServerTypes'
  BY <1>1 DEF TypeInv, ServerTypes
<1> QED
  BY <1>2, <1>3, <1>4 DEF TypeInv

LEMMA CancelTypes ==
  ASSUME TypeInv, NEW t \in Turns, Cancel(t)
  PROVE  TypeInv'
<1>1. registry' \subseteq Confirms /\ responses' \in [Confirms -> {"none", "yes", "no"}]
  BY DEF Cancel, TypeInv, ServerTypes
<1>2. gen' = [gen EXCEPT ![t] = [gen[t] EXCEPT !.phase = "gone", !.calls = <<>>]]
  BY DEF Cancel
<1>3. gen' \in [Turns -> Gen]
  BY <1>2, GenPhase DEF TypeInv, ServerTypes
<1>4. UNCHANGED <<browser, network, fired, minted, stored>>
  BY DEF Cancel
<1>5. PageTypes' /\ FeedTypes'
  BY <1>4, PageKept DEF browser, TypeInv, FeedTypes
<1>6. NetworkTypes'
  BY <1>4, NetworkKept DEF TypeInv
<1>7. ServerTypes'
  BY <1>1, <1>3, <1>4 DEF TypeInv, ServerTypes
<1> QED
  BY <1>5, <1>6, <1>7 DEF TypeInv

LEMMA AnswerTypes ==
  ASSUME TypeInv,
         \/ \E p \in posts : ConfirmArrives(p)
         \/ \E s \in loads.asked : LoadAnswered(s)
         \/ \E id \in drops : DropArrives(id)
  PROVE  TypeInv'
<1>1. ASSUME NEW p \in posts, ConfirmArrives(p) PROVE TypeInv'
  <2>1. UNCHANGED <<browser, wire, link, gen, registry, minted, stored>>
        /\ posts' \subseteq posts
    BY <1>1 DEF ConfirmArrives
  <2>2. PageTypes' /\ FeedTypes' /\ NetworkTypes'
    BY <2>1, PageKept DEF browser, TypeInv, FeedTypes, NetworkTypes
  <2>3. p.id \in Confirms
    BY DEF TypeInv, NetworkTypes
  <2>4. responses' \in [Confirms -> {"none", "yes", "no"}] /\ fired' \subseteq Confirms
    BY <1>1, <2>3 DEF ConfirmArrives, TypeInv, ServerTypes
  <2>5. ServerTypes'
    BY <2>1, <2>4 DEF TypeInv, ServerTypes
  <2> QED
    BY <2>2, <2>5 DEF TypeInv
<1>2. ASSUME NEW s \in loads.asked, LoadAnswered(s) PROVE TypeInv'
  <2>1. stored \in Seq(Turns)
    BY DEF TypeInv, ServerTypes
  <2>2. Kept(stored, {i \in DOMAIN stored : asks[stored[i]].session = s}) \in Seq(Turns)
    BY <2>1, KeptPicks
  <2>3. loads' \in [asked: SUBSET Sessions, answers: SUBSET Seq(Turns)]
    BY <1>2, <2>2 DEF LoadAnswered, TypeInv, PageTypes
  <2>4. PageTypes' /\ FeedTypes' /\ UNCHANGED <<network, server>>
    BY <1>2, <2>3 DEF LoadAnswered, TypeInv, PageTypes, FeedTypes
  <2> QED
    BY <2>4, NetworkKept, ServerKept DEF TypeInv
<1>3. ASSUME NEW id \in drops, DropArrives(id) PROVE TypeInv'
  <2>1. stored \in Seq(Turns)
    BY DEF TypeInv, ServerTypes
  <2>2. stored' \in Seq(Turns)
    BY <1>3, <2>1, KeptPicks DEF DropArrives
  <2>3. UNCHANGED <<browser, wire, link, posts, gen, registry, responses, fired, minted>>
    BY <1>3 DEF DropArrives
  <2>4. PageTypes' /\ FeedTypes' /\ NetworkTypes'
    BY <2>3, PageKept DEF browser, TypeInv, FeedTypes, NetworkTypes
  <2>5. ServerTypes'
    BY <2>2, <2>3 DEF TypeInv, ServerTypes
  <2> QED
    BY <2>4, <2>5 DEF TypeInv
<1> QED
  BY <1>1, <1>2, <1>3

LEMMA TroubleTypes ==
  ASSUME TypeInv,
         Restart \/ \E t \in Turns, seen \in {"broken", "ended"} : LinkCut(t, seen)
  PROVE  TypeInv'
<1>1. UNCHANGED <<browser, wire, posts, minted, stored>>
  BY DEF Restart, LinkCut, server
<1>2. link' \in [Turns -> {"none", "open", "ended", "broken"}]
  BY DEF Restart, LinkCut, TypeInv, NetworkTypes
<1>3. PageTypes' /\ FeedTypes' /\ NetworkTypes'
  BY <1>1, <1>2, PageKept DEF browser, TypeInv, FeedTypes, NetworkTypes
<1>4. ServerTypes'
  <2>1. CASE UNCHANGED server
    BY <2>1, ServerKept DEF TypeInv
  <2>2. CASE Restart
    <3>1. gen' \in [Turns -> Gen]
      <4>1. \A t \in Turns : gen[t] \in Gen
        BY DEF TypeInv, ServerTypes
      <4>2. \A t \in Turns : [gen[t] EXCEPT !.phase = "gone", !.calls = <<>>] \in Gen
        BY GenPhase
      <4> QED
        BY <2>2, <4>1, <4>2 DEF Restart
    <3>2. registry' = {} /\ fired' = {} /\ responses' = [c \in Confirms |-> "none"]
      BY <2>2 DEF Restart
    <3> QED
      BY <1>1, <3>1, <3>2 DEF TypeInv, ServerTypes
  <2> QED
    BY <2>1, <2>2 DEF LinkCut
<1> QED
  BY <1>3, <1>4 DEF TypeInv

\* The steps of the specification, one by one.
LEMMA StepCases ==
  ASSUME Next
  PROVE  \/ Ask \/ AskNew \/ \E t \in Turns : CreateSucceeds(t) \/ CreateFails(t)
         \/ \E t \in Turns : \/ Connect(t) \/ ConnectFails(t)
                             \/ Read(t) \/ ReadEnds(t) \/ ReadFails(t)
         \/ \E t \in Turns : LlmAnswers(t) \/ LlmGivesUp(t) \/ EndRound(t) \/ Save(t)
         \/ \E t \in Turns : \E tools \in Rounds : LlmCallsTools(t, tools)
         \/ \E t \in Turns : \/ StartCall(t)
                             \/ \E i \in DOMAIN gen[t].calls : Resume(t, i) \/ TimeOut(t, i)
         \/ \E t \in Turns : Cancel(t)
         \/ \E p \in posts : ConfirmArrives(p)
         \/ \E s \in loads.asked : LoadAnswered(s)
         \/ \E id \in drops : DropArrives(id)
         \/ \E yes \in BOOLEAN : Confirm(yes)
         \/ \E i \in DOMAIN feed : ClickDelete(i)
         \/ Logout \/ Login
         \/ \E a \in loads.answers : Loaded(a)
         \/ \E d \in removing : FinishDelete(d)
         \/ Reload \/ \E s \in Sessions \union {None} : Visit(s)
         \/ Restart \/ \E t \in Turns, seen \in {"broken", "ended"} : LinkCut(t, seen)
BY DEF Next, Handler, Agent, Answers, User, Trouble

LEMMA TypeStep == TypeInv /\ [Next]_vars => TypeInv'
<1> SUFFICES ASSUME TypeInv, [Next]_vars PROVE TypeInv'
  OBVIOUS
<1>1. CASE Next
  BY <1>1, StepCases, AskingTypes, StreamTypes, AgentTypes, CallsToolsTypes, RunTypes,
     CancelTypes, AnswerTypes, PageActionTypes, MountingTypes, TroubleTypes
<1>2. CASE UNCHANGED vars
  <2>1. UNCHANGED <<browser, network, server>>
    BY <1>2 DEF vars
  <2>2. PageTypes' /\ FeedTypes'
    BY <2>1, PageKept DEF browser, TypeInv, FeedTypes
  <2> QED
    BY <2>1, <2>2, NetworkKept, ServerKept DEF TypeInv
<1> QED
  BY <1>1, <1>2

LEMMA TypesHold == Spec => []TypeInv
BY InitTypes, TypeStep, PTL DEF Spec

(* Every variable of the chat and of its server keeps its type: the calls   *)
(* of handleSendMessage, the messages, the confirmations and the rounds of  *)
(* tools stay what the page and the agent take them for, whatever is loaded,*)
(* deleted, cut off or restarted.                                           *)
THEOREM TypeCorrect == Spec => []TypeOK
BY TypesHold, TypeInvTypeOK, PTL

----------------------------------------------------------------------------
(* Mails and approvals *)

\* Confirmations are known only after they were made, and an answer that
\* says yes only after the user said so.
Minted ==
  /\ registry \subseteq 1..minted /\ approved \subseteq 1..minted /\ modal \in 0..minted
  /\ \A t \in Turns : wire[t].type = "calls" => wire[t].asked \subseteq 1..minted
  /\ \A p \in posts : p.id \in 1..minted /\ (p.yes => p.id \in approved)

\* A recorded yes can still be used, and belongs to an approval that has not
\* been used: every mail took one approved confirmation out of the registry.
Unused ==
  \A c \in Confirms : responses[c] = "yes" => c \in approved /\ c \in registry
Spent ==
  IsFiniteSet(mailed) /\ Cardinality(mailed) <= Cardinality(approved \ registry)

MailInv == Minted /\ Unused /\ Spent

LEMMA ApprovedFinite ==
  ASSUME TypeInv, MailInv
  PROVE  /\ minted \in Nat /\ IsFiniteSet(approved)
         /\ \A T \in SUBSET approved : /\ IsFiniteSet(T) /\ Cardinality(T) \in Nat
                                       /\ \A U \in SUBSET T : Cardinality(U) <= Cardinality(T)
<1>1. minted \in Nat
  BY DEF TypeInv, ServerTypes, Confirms
<1>2. IsFiniteSet(1..minted)
  BY <1>1, FS_Interval
<1>3. approved \subseteq 1..minted
  BY DEF MailInv, Minted
<1>4. IsFiniteSet(approved)
  BY <1>2, <1>3, FS_Subset
<1> QED
  BY <1>1, <1>4, FS_Subset, FS_CardinalityType

LEMMA MailsFollow == TypeInv /\ MailInv => MailsWithinApprovals
<1> SUFFICES ASSUME TypeInv, MailInv PROVE MailsWithinApprovals
  OBVIOUS
<1>1. approved \ registry \in SUBSET approved
  OBVIOUS
<1>2. /\ Cardinality(approved \ registry) <= Cardinality(approved)
      /\ Cardinality(approved \ registry) \in Nat /\ Cardinality(approved) \in Nat
  BY <1>1, ApprovedFinite
<1>3. Cardinality(mailed) <= Cardinality(approved \ registry) /\ Cardinality(mailed) \in Nat
  BY FS_CardinalityType DEF MailInv, Spent
<1> QED
  BY <1>2, <1>3 DEF MailsWithinApprovals

LEMMA InitMail == Init => MailInv
<1> SUFFICES ASSUME Init PROVE MailInv
  OBVIOUS
<1>1. Minted
  <2>1. registry = {} /\ approved = {} /\ posts = {} /\ modal = 0 /\ minted = 0
    BY DEF Init
  <2>2. \A t \in Turns : wire[t].type = "nothing"
    BY DEF Init, Nothing
  <2> QED
    BY <2>1, <2>2 DEF Minted
<1>2. Unused
  BY DEF Init, Unused
<1>3. Spent
  <2>1. mailed = {} /\ approved = {} /\ registry = {}
    BY DEF Init
  <2>2. approved \ registry = {}
    BY <2>1
  <2>3. Cardinality({}) = 0 /\ IsFiniteSet({})
    BY FS_EmptySet
  <2> QED
    BY <2>1, <2>2, <2>3 DEF Spent
<1> QED
  BY <1>1, <1>2, <1>3 DEF MailInv

\* A step that makes, answers and uses no confirmation.
LEMMA QuietMail ==
  ASSUME TypeInv, MailInv, UNCHANGED <<registry, approved, responses, minted, mailed>>,
         modal' \in 0..minted, posts' \subseteq posts,
         \A t \in Turns : wire'[t] = wire[t] \/ wire'[t].type # "calls"
  PROVE  MailInv'
<1>1. Minted'
  BY DEF MailInv, Minted
<1>2. Unused' /\ Spent'
  BY DEF MailInv, Unused, Spent
<1> QED
  BY <1>1, <1>2 DEF MailInv

\* A confirmation leaves the registry, and no mail is sent.
LEMMA SpentLess ==
  ASSUME TypeInv, MailInv, registry' \subseteq registry, UNCHANGED <<approved, mailed>>
  PROVE  Spent'
<1>1. approved \ registry' \in SUBSET approved /\ approved \ registry \in SUBSET (approved \ registry')
  OBVIOUS
<1>2. /\ Cardinality(approved \ registry) <= Cardinality(approved \ registry')
      /\ Cardinality(approved \ registry) \in Nat /\ Cardinality(approved \ registry') \in Nat
  BY <1>1, ApprovedFinite
<1>3. Cardinality(mailed) <= Cardinality(approved \ registry) /\ Cardinality(mailed) \in Nat
  BY FS_CardinalityType DEF MailInv, Spent
<1>4. Cardinality(mailed) <= Cardinality(approved \ registry')
  BY <1>2, <1>3
<1> QED
  BY <1>4 DEF MailInv, Spent

\* A call goes on with the answer for c: a mail takes an approval that no
\* mail before it had taken.
LEMMA ResolveMail ==
  ASSUME TypeInv, MailInv, NEW t \in Turns, NEW i \in DOMAIN gen[t].calls, NEW c \in Confirms,
         Resolve(t, i, c), UNCHANGED <<approved, minted, modal, posts, wire>>
  PROVE  MailInv'
<1>1. registry' = registry \ {c} /\ responses' = [responses EXCEPT ![c] = "none"]
  BY DEF Resolve, Forget
<1>2. Minted'
  BY <1>1 DEF MailInv, Minted
<1>3. Unused'
  BY <1>1 DEF MailInv, Unused, TypeInv, ServerTypes
<1>4. CASE responses[c] # "yes"
  BY <1>1, <1>2, <1>3, <1>4, SpentLess DEF Resolve, MailInv
<1>5. CASE responses[c] = "yes"
  <2> DEFINE id == gen[t].calls[i].id
             left == approved \ registry
  <2>1. mailed' = mailed \union {id}
    BY <1>5 DEF Resolve
  <2>2. c \in approved /\ c \in registry
    BY <1>5 DEF MailInv, Unused
  <2>3. approved \ registry' = left \union {c} /\ c \notin left /\ left \in SUBSET approved
    BY <1>1, <2>2
  <2> HIDE DEF left
  <2>4. IsFiniteSet(left) /\ Cardinality(left) \in Nat
    BY <2>3, ApprovedFinite
  <2>5. Cardinality(left \union {c}) = Cardinality(left) + 1
    BY <2>3, <2>4, FS_AddElement
  <2>6. IsFiniteSet(mailed) /\ Cardinality(mailed) <= Cardinality(left) /\ Cardinality(mailed) \in Nat
    BY FS_CardinalityType DEF MailInv, Spent, left
  <2> HIDE DEF id
  <2>7. /\ IsFiniteSet(mailed')
        /\ Cardinality(mailed') = Cardinality(mailed) \/ Cardinality(mailed') = Cardinality(mailed) + 1
    BY <2>1, <2>6, FS_AddElement
  <2>8. Cardinality(mailed') <= Cardinality(approved \ registry')
    <3>1. Cardinality(approved \ registry') = Cardinality(left) + 1
      BY <2>3, <2>5
    <3>2. \A m, n, k \in Nat : m <= n /\ (k = m \/ k = m + 1) => k <= n + 1
      OBVIOUS
    <3>3. Cardinality(mailed') \in Nat
      BY <2>6, <2>7
    <3> QED
      BY <2>4, <2>6, <2>7, <3>1, <3>2, <3>3
  <2>9. Spent'
    BY <2>7, <2>8 DEF Spent
  <2> QED
    BY <1>2, <1>3, <2>9 DEF MailInv
<1> QED
  BY <1>4, <1>5

LEMMA RunMail ==
  ASSUME TypeInv, MailInv, NEW t \in Turns,
         StartCall(t) \/ \E i \in DOMAIN gen[t].calls : Resume(t, i) \/ TimeOut(t, i)
  PROVE  MailInv'
<1>1. UNCHANGED <<approved, minted, modal, posts, wire>>
  BY DEF StartCall, Resume, TimeOut, browser, network
<1>2. CASE StartCall(t)
  <2> DEFINE i == Least(InState(t, "started"))
  <2>1. i \in DOMAIN gen[t].calls
    BY <1>2, NextCall DEF StartCall
  <2>2. CASE UNCHANGED <<registry, responses, mailed>>
    <3>1. modal \in 0..minted
      BY DEF MailInv, Minted
    <3> QED
      BY <1>1, <2>2, <3>1, QuietMail
  <2>3. CASE registry # {} /\ Resolve(t, i, Least(registry))
    BY <1>1, <2>1, <2>3, ResolveMail, FirstRegistered
  <2> QED
    BY <1>2, <2>2, <2>3 DEF StartCall
<1>3. ASSUME NEW i \in DOMAIN gen[t].calls, Resume(t, i)
      PROVE  MailInv'
  <2>1. gen[t].calls[i].on \in fired /\ fired \subseteq Confirms
    BY <1>3 DEF Resume, TypeInv, ServerTypes
  <2>2. Resolve(t, i, gen[t].calls[i].on)
    BY <1>3 DEF Resume
  <2> QED
    BY <1>1, <2>1, <2>2, ResolveMail
<1>4. ASSUME NEW i \in DOMAIN gen[t].calls, TimeOut(t, i)
      PROVE  MailInv'
  <2> DEFINE c == gen[t].calls[i].on
  <2>1. registry' = registry \ {c} /\ responses' = [responses EXCEPT ![c] = "none"]
        /\ UNCHANGED mailed
    BY <1>4 DEF TimeOut, Forget
  <2>2. Minted'
    BY <1>1, <2>1 DEF MailInv, Minted
  <2>3. Unused'
    BY <1>1, <2>1 DEF MailInv, Unused, TypeInv, ServerTypes
  <2>4. Spent'
    BY <1>1, <2>1, SpentLess
  <2> QED
    BY <2>2, <2>3, <2>4 DEF MailInv
<1> QED
  BY <1>2, <1>3, <1>4

\* A round of tools makes new confirmations, which nobody approved before.
LEMMA CallsToolsMail ==
  ASSUME TypeInv, MailInv, NEW t \in Turns, NEW tools \in Rounds, LlmCallsTools(t, tools)
  PROVE  MailInv'
<1> DEFINE last == minted + Mailing(tools)
           new == (minted + 1)..last
           e == [type |-> "calls", tools |-> ToolsOf(Calling(tools, minted)), asked |-> new]
<1>1. /\ last <= MaxConfirms /\ minted' = last /\ registry' = registry \union new /\ Emit(t, e)
      /\ UNCHANGED <<browser, posts, responses, mailed, approved>>
  BY CallsToolsEffect, ConstantsAssumption
<1>2. minted \in Nat /\ tools \in Seq(Tools)
  BY ConstantsAssumption DEF TypeInv, ServerTypes, Confirms
<1>3. Mailing(tools) \in Nat
  BY <1>1, <1>2, CallingTypes
<1>4. last \in Nat /\ minted <= last
  BY <1>2, <1>3
<1>5. new \subseteq 1..minted' /\ 1..minted \subseteq 1..minted' /\ new \cap (1..minted) = {}
      /\ 0..minted \subseteq 0..minted'
  BY <1>1, <1>2, <1>4
<1>6. e.type = "calls" /\ e.asked = new
  OBVIOUS
<1>7. UNCHANGED modal
  BY <1>1 DEF browser
<1> HIDE DEF last, new, e
<1>8. \A u \in Turns : wire'[u] = wire[u] \/ wire'[u] = e
  BY <1>1 DEF Emit, TypeInv, NetworkTypes
<1>9. Minted'
  <2>1. registry' \subseteq 1..minted' /\ approved' \subseteq 1..minted' /\ modal' \in 0..minted'
    BY <1>1, <1>5, <1>7 DEF MailInv, Minted
  <2>2. \A u \in Turns : wire'[u].type = "calls" => wire'[u].asked \subseteq 1..minted'
    BY <1>5, <1>6, <1>8 DEF MailInv, Minted
  <2>3. \A p \in posts' : p.id \in 1..minted' /\ (p.yes => p.id \in approved')
    BY <1>1, <1>5 DEF MailInv, Minted
  <2> QED
    BY <2>1, <2>2, <2>3 DEF Minted
<1>10. Unused'
  BY <1>1 DEF MailInv, Unused
<1>11. Spent'
  <2>1. approved \ registry' = approved \ registry
    BY <1>1, <1>5 DEF MailInv, Minted
  <2> QED
    BY <1>1, <2>1 DEF MailInv, Spent
<1> QED
  BY <1>9, <1>10, <1>11 DEF MailInv

\* The user answers the confirmation that is shown.
LEMMA ConfirmMail ==
  ASSUME TypeInv, MailInv, NEW yes \in BOOLEAN, Confirm(yes)
  PROVE  MailInv'
<1>1. /\ approved' = (IF yes THEN approved \union {modal} ELSE approved)
      /\ modal' = 0 /\ posts' \subseteq posts \union {[id |-> modal, yes |-> yes]}
      /\ UNCHANGED <<registry, responses, mailed, minted, wire>>
  BY DEF Confirm, server
<1>2. modal \in 1..minted /\ minted \in Nat
  BY DEF Confirm, ModalShown, MailInv, Minted, TypeInv, ServerTypes, Confirms
<1>3. Minted'
  <2>1. registry' \subseteq 1..minted' /\ approved' \subseteq 1..minted' /\ modal' \in 0..minted'
    BY <1>1, <1>2 DEF MailInv, Minted
  <2>2. \A u \in Turns : wire'[u].type = "calls" => wire'[u].asked \subseteq 1..minted'
    BY <1>1 DEF MailInv, Minted
  <2>3. ASSUME NEW p \in posts' PROVE p.id \in 1..minted' /\ (p.yes => p.id \in approved')
    BY <1>1, <1>2, <2>3 DEF MailInv, Minted
  <2> QED
    BY <2>1, <2>2, <2>3 DEF Minted
<1>4. Unused'
  BY <1>1 DEF MailInv, Unused
<1>5. Spent'
  <2>1. approved' \subseteq 1..minted /\ IsFiniteSet(1..minted)
    BY <1>1, <1>2, <1>3, FS_Interval DEF Minted
  <2>2. approved \ registry \subseteq approved' \ registry' /\ approved' \ registry' \subseteq 1..minted
    BY <1>1, <2>1
  <2>3. IsFiniteSet(approved' \ registry')
    BY <2>1, <2>2, FS_Subset
  <2>4. /\ Cardinality(approved \ registry) <= Cardinality(approved' \ registry')
        /\ Cardinality(approved' \ registry') \in Nat /\ Cardinality(approved \ registry) \in Nat
    BY <2>2, <2>3, FS_Subset, FS_CardinalityType
  <2>5. Cardinality(mailed) <= Cardinality(approved \ registry) /\ Cardinality(mailed) \in Nat
    BY FS_CardinalityType DEF MailInv, Spent
  <2>6. Cardinality(mailed) <= Cardinality(approved' \ registry')
    BY <2>4, <2>5
  <2> QED
    BY <1>1, <2>6 DEF MailInv, Spent
<1> QED
  BY <1>3, <1>4, <1>5 DEF MailInv

\* What clears the registry: an answer of the user, a client that is gone, a restart.
LEMMA ClearingMail ==
  ASSUME TypeInv, MailInv,
         \/ \E p \in posts : ConfirmArrives(p)
         \/ \E t \in Turns : Cancel(t)
         \/ Restart
  PROVE  MailInv'
<1>1. /\ registry' \subseteq registry /\ posts' \subseteq posts
      /\ UNCHANGED <<approved, mailed, minted, modal, wire>>
  BY DEF ConfirmArrives, Cancel, Restart, browser, network
<1>2. Minted' /\ Spent'
  BY <1>1, SpentLess DEF MailInv, Minted
<1>3. Unused'
  <2>1. ASSUME NEW p \in posts, ConfirmArrives(p) PROVE Unused'
    <3>1. p.yes => p.id \in approved
      BY DEF MailInv, Minted
    <3>2. UNCHANGED registry
      BY <2>1 DEF ConfirmArrives
    <3>3. CASE UNCHANGED responses
      BY <1>1, <3>2, <3>3 DEF MailInv, Unused
    <3>4. CASE p.id \in registry /\ responses' = [responses EXCEPT ![p.id] = IF p.yes THEN "yes" ELSE "no"]
      BY <1>1, <3>1, <3>2, <3>4 DEF MailInv, Unused, TypeInv, ServerTypes
    <3> QED
      BY <2>1, <3>3, <3>4 DEF ConfirmArrives
  <2>2. ASSUME NEW t \in Turns, Cancel(t) PROVE Unused'
    BY <1>1, <2>2 DEF Cancel, MailInv, Unused
  <2>3. CASE Restart
    BY <2>3 DEF Restart, Unused
  <2> QED
    BY <2>1, <2>2, <2>3
<1> QED
  BY <1>2, <1>3 DEF MailInv

\* The page reads what the server wrote: the newest confirmation is shown.
LEMMA StreamMail ==
  ASSUME TypeInv, MailInv, NEW t \in Turns,
         Connect(t) \/ ConnectFails(t) \/ Read(t) \/ ReadEnds(t) \/ ReadFails(t)
  PROVE  MailInv'
<1>1. /\ UNCHANGED <<registry, approved, responses, minted, mailed, posts>>
      /\ \A u \in Turns : wire'[u] = wire[u] \/ wire'[u] = Nothing
  BY DEF Connect, ConnectFails, Read, ReadEnds, ReadFails, server, network, TypeInv, NetworkTypes
<1>2. \A u \in Turns : wire'[u] = wire[u] \/ wire'[u].type # "calls"
  BY <1>1 DEF Nothing
<1>3. modal \in 0..minted
  BY DEF MailInv, Minted
<1>4. modal' \in 0..minted
  <2>1. CASE UNCHANGED modal
    BY <1>3, <2>1
  <2>2. CASE Read(t)
    <3>1. CASE wire[t].type = "calls" /\ wire[t].asked # {} /\ asks[t].here
      <4>1. wire[t].asked \subseteq 1..minted
        BY <3>1 DEF MailInv, Minted
      <4>2. wire[t] \in CallsEvents
        BY <3>1 DEF TypeInv, NetworkTypes, Events, EndsEvents, DoneEvents, Nothing
      <4>3. Greatest(wire[t].asked) \in wire[t].asked
        BY <3>1, <4>2, GreatestIsMember DEF CallsEvents
      <4>4. modal' = Greatest(wire[t].asked)
        BY <2>2, <3>1 DEF Read, Handle
      <4> QED
        BY <4>1, <4>3, <4>4
    <3> QED
      BY <1>3, <2>2, <3>1 DEF Read, Handle
  <2> QED
    BY <2>1, <2>2 DEF Connect, ConnectFails, ReadEnds, ReadFails
<1> QED
  BY <1>1, <1>2, <1>4, QuietMail

LEMMA MailStep == TypeInv /\ MailInv /\ [Next]_vars => MailInv'
<1> SUFFICES ASSUME TypeInv, MailInv, [Next]_vars PROVE MailInv'
  OBVIOUS
<1>1. modal \in 0..minted /\ 0 \in 0..minted
  BY DEF MailInv, Minted, TypeInv, ServerTypes, Confirms
<1>2. ASSUME UNCHANGED <<server, approved, posts, modal, wire>>
      PROVE  MailInv'
  BY <1>1, <1>2, QuietMail DEF server
<1>3. CASE UNCHANGED vars
  BY <1>2, <1>3 DEF vars, network, browser
<1>4. ASSUME \/ Ask \/ AskNew \/ \E t \in Turns : CreateSucceeds(t) \/ CreateFails(t)
             \/ \E s \in loads.asked : LoadAnswered(s)
             \/ \E i \in DOMAIN feed : ClickDelete(i)
             \/ Logout \/ Login
             \/ \E a \in loads.answers : Loaded(a)
             \/ \E d \in removing : FinishDelete(d)
             \/ \E t \in Turns, seen \in {"broken", "ended"} : LinkCut(t, seen)
      PROVE  MailInv'
  <2>1. UNCHANGED <<server, approved, posts, modal, wire>>
    BY <1>4 DEF Ask, AskNew, CreateSucceeds, CreateFails, LoadAnswered, ClickDelete, Logout, Login,
       Loaded, FinishDelete, LinkCut, network, browser
  <2> QED
    BY <1>2, <2>1
<1>5. ASSUME Reload \/ \E s \in Sessions \union {None} : Visit(s)
      PROVE  MailInv'
  <2>1. /\ UNCHANGED <<server, approved, posts>> /\ modal' = 0
        /\ \A t \in Turns : wire'[t] = wire[t] \/ wire'[t] = Nothing
    BY <1>5 DEF Reload, Visit, Mount
  <2>2. Nothing.type # "calls"
    BY DEF Nothing
  <2> QED
    BY <1>1, <2>1, <2>2, QuietMail DEF server
<1>6. ASSUME NEW t \in Turns, LlmAnswers(t) \/ LlmGivesUp(t) \/ EndRound(t) \/ Save(t)
      PROVE  MailInv'
  <2>1. /\ UNCHANGED <<registry, approved, responses, minted, mailed, posts, modal>>
        /\ \A u \in Turns : wire'[u] = wire[u] \/ wire'[u].type # "calls"
    BY <1>6 DEF LlmAnswers, LlmGivesUp, EndRound, Save, Emit, Done, browser, TypeInv, NetworkTypes
  <2> QED
    BY <1>1, <2>1, QuietMail
<1>7. ASSUME NEW id \in drops, DropArrives(id)
      PROVE  MailInv'
  <2>1. UNCHANGED <<registry, approved, responses, minted, mailed, posts, modal, wire>>
    BY <1>7 DEF DropArrives, browser
  <2> QED
    BY <1>1, <2>1, QuietMail
<1>8. CASE Next
  BY <1>8, <1>4, <1>5, <1>6, <1>7, StepCases, CallsToolsMail, ConfirmMail, ClearingMail, StreamMail,
     RunMail
<1> QED
  BY <1>3, <1>8

(* The mail tool takes whatever confirmation was registered first, so a mail *)
(* need not be the one the user said yes to; but a recorded yes is taken out *)
(* of active_responses together with its confirmation, and no mail goes out  *)
(* without taking one: the agent never mails more often than the user agreed.*)
THEOREM MailsNeedApprovals == Spec => []MailsWithinApprovals
<1>1. Init => TypeInv /\ MailInv
  BY InitTypes, InitMail
<1>2. TypeInv /\ MailInv /\ [Next]_vars => (TypeInv /\ MailInv)'
  BY TypeStep, MailStep
<1> QED
  BY <1>1, <1>2, MailsFollow, PTL DEF Spec

----------------------------------------------------------------------------
(* The feed *)

InTurns(s) ==
  \A i \in DOMAIN s :
       IF s[i].role = "user"
       THEN i < Len(s) /\ Id(s[i + 1]) = <<s[i].turn, "assistant", s[i].copy>>
       ELSE i > 1 /\ Id(s[i - 1]) = <<s[i].turn, "user", s[i].copy>>
Apart(s) == \A i, j \in DOMAIN s : Id(s[i]) = Id(s[j]) => i = j

\* A set of messages that has a question exactly when it has its answer
Paired(ids) ==
  \A t \in Turns, c \in {"local", "stored"} :
    <<t, "user", c>> \in ids <=> <<t, "assistant", c>> \in ids

Pair(t, c) == {<<t, "user", c>>, <<t, "assistant", c>>}

LEMMA MessageFields ==
  ASSUME NEW m \in Message
  PROVE  /\ m.turn \in Turns /\ m.role \in {"user", "assistant"} /\ m.copy \in {"local", "stored"}
         /\ Id(m) = <<m.turn, m.role, m.copy>>
BY DEF Message, Id

LEMMA SameId ==
  ASSUME NEW m \in Message, NEW t, NEW r, NEW c, Id(m) = <<t, r, c>>
  PROVE  m.turn = t /\ m.role = r /\ m.copy = c
BY DEF Id

\* The messages of turns form a paired set.
LEMMA TurnsPaired ==
  ASSUME NEW s \in Seq(Message), InTurns(s)
  PROVE  Paired(Ids(s))
<1> SUFFICES ASSUME NEW t \in Turns, NEW c \in {"local", "stored"}
             PROVE  <<t, "user", c>> \in Ids(s) <=> <<t, "assistant", c>> \in Ids(s)
  BY DEF Paired
<1>0. Len(s) \in Nat /\ DOMAIN s = 1..Len(s) /\ \A i \in 1..Len(s) : s[i] \in Message
  OBVIOUS
<1>1. ASSUME <<t, "user", c>> \in Ids(s) PROVE <<t, "assistant", c>> \in Ids(s)
  <2>1. PICK i \in 1..Len(s) : <<t, "user", c>> = Id(s[i])
    BY <1>1 DEF Ids
  <2>2. s[i].turn = t /\ s[i].role = "user" /\ s[i].copy = c
    BY <1>0, <2>1, SameId
  <2>3. i < Len(s) /\ Id(s[i + 1]) = <<t, "assistant", c>>
    BY <1>0, <2>2 DEF InTurns
  <2>4. i + 1 \in 1..Len(s)
    BY <1>0, <2>3
  <2> QED
    BY <2>3, <2>4 DEF Ids
<1>2. ASSUME <<t, "assistant", c>> \in Ids(s) PROVE <<t, "user", c>> \in Ids(s)
  <2>1. PICK i \in 1..Len(s) : <<t, "assistant", c>> = Id(s[i])
    BY <1>2 DEF Ids
  <2>2. s[i].turn = t /\ s[i].role = "assistant" /\ s[i].copy = c
    BY <1>0, <2>1, SameId
  <2>3. i > 1 /\ Id(s[i - 1]) = <<t, "user", c>>
    BY <1>0, <2>2 DEF InTurns
  <2>4. i - 1 \in 1..Len(s)
    BY <1>0, <2>3
  <2> QED
    BY <2>3, <2>4 DEF Ids
<1> QED
  BY <1>1, <1>2

LEMMA PairPaired ==
  ASSUME NEW t \in Turns, NEW c \in {"local", "stored"}
  PROVE  Paired(Pair(t, c))
BY DEF Paired, Pair

\* What is left when whole turns are removed is whole turns.
LEMMA WithoutTurns ==
  ASSUME NEW s \in Seq(Message), InTurns(s), Apart(s), NEW ids, Paired(ids)
  PROVE  LET t == Without(s, ids)
         IN  /\ t \in Seq(Message) /\ InTurns(t) /\ Apart(t)
             /\ \A i \in DOMAIN t : \E k \in DOMAIN s : t[i] = s[k] /\ Id(s[k]) \notin ids
             /\ \A k \in DOMAIN s : Id(s[k]) \notin ids => \E i \in DOMAIN t : t[i] = s[k]
<1> DEFINE K == {i \in DOMAIN s : Id(s[i]) \notin ids}
           t == Kept(s, K)
<1>1. Without(s, ids) = t
  BY DEF Without
<1>2. PICK h : Picks(s, K, Len(s), t, h)
  BY KeptPicks
<1>3. /\ t \in Seq(Message) /\ Len(t) \in Nat /\ DOMAIN t = 1..Len(t)
      /\ Len(s) \in Nat /\ DOMAIN s = 1..Len(s) /\ \A i \in 1..Len(s) : s[i] \in Message
  BY KeptPicks
<1>4. \A i \in 1..Len(s) : i \in K <=> Id(s[i]) \notin ids
  BY <1>3
<1> HIDE DEF t, K
<1>5. /\ \A i \in 1..Len(t) : h[i] \in 1..Len(s) /\ h[i] \in K /\ t[i] = s[h[i]]
      /\ \A i, j \in 1..Len(t) : i < j => h[i] < h[j]
      /\ \A k \in 1..Len(s) : k \in K => \E i \in 1..Len(t) : h[i] = k
  BY <1>2 DEF Picks
<1>6. ASSUME NEW i \in 1..Len(t), NEW j \in 1..Len(t)
      PROVE  /\ h[i] = h[j] => i = j
             /\ h[j] = h[i] + 1 => j = i + 1
  <2>1. i < j => h[i] < h[j]
    BY <1>5
  <2>2. j < i => h[j] < h[i]
    BY <1>5
  <2>3. i + 1 < j => h[i] < h[i + 1] /\ h[i + 1] < h[j] /\ h[i + 1] \in Nat
    BY <1>3, <1>5
  <2>4. h[i] \in Nat /\ h[j] \in Nat /\ i \in Nat /\ j \in Nat
    BY <1>5
  <2> QED
    BY <2>1, <2>2, <2>3, <2>4
<1>7. Apart(t)
  <2>1. ASSUME NEW i \in 1..Len(t), NEW j \in 1..Len(t), Id(t[i]) = Id(t[j]) PROVE i = j
    <3>1. Id(s[h[i]]) = Id(s[h[j]]) /\ h[i] \in DOMAIN s /\ h[j] \in DOMAIN s
      BY <1>3, <1>5, <2>1
    <3>2. h[i] = h[j]
      BY <3>1 DEF Apart
    <3> QED
      BY <1>6, <3>2
  <2> QED
    BY <1>3, <2>1 DEF Apart
<1>8. InTurns(t)
  <2>1. ASSUME NEW i \in 1..Len(t), t[i].role = "user"
        PROVE  i < Len(t) /\ Id(t[i + 1]) = <<t[i].turn, "assistant", t[i].copy>>
    <3> DEFINE m == s[h[i]]
    <3>1. h[i] \in 1..Len(s) /\ h[i] \in K /\ t[i] = m /\ m \in Message
      BY <1>3, <1>5
    <3>2. h[i] < Len(s) /\ Id(s[h[i] + 1]) = <<m.turn, "assistant", m.copy>>
      BY <1>3, <2>1, <3>1 DEF InTurns
    <3>3. Id(m) = <<m.turn, "user", m.copy>> /\ m.turn \in Turns /\ m.copy \in {"local", "stored"}
      BY <2>1, <3>1, MessageFields
    <3>4. h[i] + 1 \in 1..Len(s) /\ h[i] + 1 \in K
      <4>1. h[i] + 1 \in 1..Len(s)
        BY <1>3, <3>1, <3>2
      <4>2. Id(m) \notin ids
        BY <1>4, <3>1
      <4> QED
        BY <1>4, <3>2, <3>3, <4>1, <4>2 DEF Paired
    <3>5. PICK j \in 1..Len(t) : h[j] = h[i] + 1
      BY <1>5, <3>4
    <3>6. j = i + 1
      BY <1>6, <3>5
    <3>7. t[i + 1] = s[h[i] + 1] /\ i < Len(t)
      BY <1>3, <1>5, <3>5, <3>6
    <3> QED
      BY <3>1, <3>2, <3>7
  <2>2. ASSUME NEW i \in 1..Len(t), t[i].role # "user"
        PROVE  i > 1 /\ Id(t[i - 1]) = <<t[i].turn, "user", t[i].copy>>
    <3> DEFINE m == s[h[i]]
    <3>1. h[i] \in 1..Len(s) /\ h[i] \in K /\ t[i] = m /\ m \in Message
      BY <1>3, <1>5
    <3>2. h[i] > 1 /\ Id(s[h[i] - 1]) = <<m.turn, "user", m.copy>>
      BY <1>3, <2>2, <3>1 DEF InTurns
    <3>3. Id(m) = <<m.turn, "assistant", m.copy>> /\ m.turn \in Turns /\ m.copy \in {"local", "stored"}
      BY <2>2, <3>1, MessageFields
    <3>4. h[i] - 1 \in 1..Len(s) /\ h[i] - 1 \in K
      <4>1. h[i] - 1 \in 1..Len(s)
        BY <1>3, <3>1, <3>2
      <4>2. Id(m) \notin ids
        BY <1>4, <3>1
      <4> QED
        BY <1>4, <3>2, <3>3, <4>1, <4>2 DEF Paired
    <3>5. PICK j \in 1..Len(t) : h[j] = h[i] - 1
      BY <1>5, <3>4
    <3>6. h[i] = h[j] + 1
      BY <3>1, <3>5
    <3>7. i = j + 1
      BY <1>6, <3>6
    <3>8. t[i - 1] = s[h[i] - 1] /\ i > 1
      BY <1>3, <1>5, <3>5, <3>7
    <3> QED
      BY <3>1, <3>2, <3>8
  <2> QED
    BY <1>3, <2>1, <2>2 DEF InTurns
<1>9. \A i \in DOMAIN t : \E k \in DOMAIN s : t[i] = s[k] /\ Id(s[k]) \notin ids
  BY <1>3, <1>4, <1>5
<1>10. \A k \in DOMAIN s : Id(s[k]) \notin ids => \E i \in DOMAIN t : t[i] = s[k]
  <2>1. ASSUME NEW k \in DOMAIN s, Id(s[k]) \notin ids PROVE \E i \in DOMAIN t : t[i] = s[k]
    <3>1. k \in 1..Len(s) /\ k \in K
      BY <1>3, <1>4, <2>1
    <3>2. PICK i \in 1..Len(t) : h[i] = k
      BY <1>5, <3>1
    <3>3. i \in DOMAIN t /\ t[i] = s[h[i]]
      BY <1>3, <1>5
    <3> QED
      BY <3>2, <3>3
  <2> QED
    BY <2>1
<1> QED
  BY <1>1, <1>3, <1>7, <1>8, <1>9, <1>10

\* Turns behind turns
LEMMA ConcatTurns ==
  ASSUME NEW a \in Seq(Message), NEW b \in Seq(Message), InTurns(a), InTurns(b),
         Apart(a), Apart(b), \A i \in DOMAIN a, j \in DOMAIN b : Id(a[i]) # Id(b[j])
  PROVE  InTurns(a \o b) /\ Apart(a \o b)
<1> DEFINE s == a \o b
           m == Len(a)
           n == Len(b)
<1>1. /\ s \in Seq(Message) /\ m \in Nat /\ n \in Nat /\ Len(s) = m + n /\ DOMAIN s = 1..(m + n)
      /\ DOMAIN a = 1..m /\ DOMAIN b = 1..n
      /\ \A i \in 1..m : s[i] = a[i]
      /\ \A i \in (m + 1)..(m + n) : s[i] = b[i - m]
  BY ConcatProperties
<1> HIDE DEF s, m, n
<1>2. \A i \in 1..(m + n) : i \in 1..m \/ (i \in (m + 1)..(m + n) /\ i - m \in 1..n)
  BY <1>1
<1>3. Apart(s)
  <2>1. ASSUME NEW i \in 1..(m + n), NEW j \in 1..(m + n), Id(s[i]) = Id(s[j]) PROVE i = j
    <3>1. CASE i \in 1..m /\ j \in 1..m
      BY <1>1, <2>1, <3>1 DEF Apart
    <3>2. CASE i \in (m + 1)..(m + n) /\ i - m \in 1..n /\ j \in (m + 1)..(m + n) /\ j - m \in 1..n
      <4>1. Id(b[i - m]) = Id(b[j - m]) /\ i - m \in DOMAIN b /\ j - m \in DOMAIN b
        BY <1>1, <2>1, <3>2
      <4>2. i - m = j - m
        BY <4>1 DEF Apart
      <4> QED
        BY <1>1, <4>2
    <3>3. CASE i \in 1..m /\ j \in (m + 1)..(m + n) /\ j - m \in 1..n
      BY <1>1, <2>1, <3>3
    <3>4. CASE j \in 1..m /\ i \in (m + 1)..(m + n) /\ i - m \in 1..n
      BY <1>1, <2>1, <3>4
    <3> QED
      BY <1>2, <3>1, <3>2, <3>3, <3>4
  <2> QED
    BY <1>1, <2>1 DEF Apart
<1>4. InTurns(s)
  <2> SUFFICES ASSUME NEW i \in 1..(m + n)
               PROVE  IF s[i].role = "user"
                      THEN i < m + n /\ Id(s[i + 1]) = <<s[i].turn, "assistant", s[i].copy>>
                      ELSE i > 1 /\ Id(s[i - 1]) = <<s[i].turn, "user", s[i].copy>>
    BY <1>1 DEF InTurns
  <2>1. CASE i \in 1..m
    <3>1. IF a[i].role = "user"
          THEN i < m /\ Id(a[i + 1]) = <<a[i].turn, "assistant", a[i].copy>>
          ELSE i > 1 /\ Id(a[i - 1]) = <<a[i].turn, "user", a[i].copy>>
      BY <1>1, <2>1 DEF InTurns, m
    <3>2. s[i] = a[i] /\ (i < m => s[i + 1] = a[i + 1] /\ i < m + n) /\ (i > 1 => s[i - 1] = a[i - 1])
      BY <1>1, <2>1
    <3> QED
      BY <3>1, <3>2
  <2>2. CASE i \in (m + 1)..(m + n) /\ i - m \in 1..n
    <3> DEFINE k == i - m
    <3>1. IF b[k].role = "user"
          THEN k < n /\ Id(b[k + 1]) = <<b[k].turn, "assistant", b[k].copy>>
          ELSE k > 1 /\ Id(b[k - 1]) = <<b[k].turn, "user", b[k].copy>>
      BY <1>1, <2>2 DEF InTurns, n
    <3>2. s[i] = b[k]
      BY <1>1, <2>2
    <3>3. k < n => s[i + 1] = b[k + 1] /\ i < m + n
      <4>1. k < n => i + 1 \in (m + 1)..(m + n) /\ (i + 1) - m = k + 1
        BY <1>1, <2>2
      <4> QED
        BY <1>1, <4>1
    <3>4. k > 1 => s[i - 1] = b[k - 1] /\ i > 1
      <4>1. k > 1 => i - 1 \in (m + 1)..(m + n) /\ (i - 1) - m = k - 1 /\ i > 1
        BY <1>1, <2>2
      <4> QED
        BY <1>1, <4>1
    <3> HIDE DEF k
    <3> QED
      BY <3>1, <3>2, <3>3, <3>4
  <2> QED
    BY <1>2, <2>1, <2>2
<1> QED
  BY <1>3, <1>4 DEF s

\* A question and its answer, and what a load brings, are turns.
LEMMA NewTurn ==
  ASSUME TypeInv, NEW t \in Turns
  PROVE  LET new == <<UserMessage(t, "local"), AssistantMessage(t, "local")>>
         IN  /\ new \in Seq(Message) /\ InTurns(new) /\ Apart(new) /\ DOMAIN new = 1..2
             /\ \A i \in DOMAIN new : new[i].turn = t /\ new[i].copy = "local"
<1> DEFINE u == UserMessage(t, "local")
           a == AssistantMessage(t, "local")
           new == <<u, a>>
<1>1. /\ u \in Message /\ a \in Message
      /\ Id(u) = <<t, "user", "local">> /\ Id(a) = <<t, "assistant", "local">>
  BY NewMessages
<1>2. /\ u.turn = t /\ u.role = "user" /\ u.copy = "local"
      /\ a.turn = t /\ a.role = "assistant" /\ a.copy = "local"
  BY DEF UserMessage, AssistantMessage
<1> HIDE DEF u, a
<1>3. /\ new \in Seq(Message) /\ Len(new) = 2 /\ DOMAIN new = 1..2 /\ new[1] = u /\ new[2] = a
      /\ \A i \in 1..2 : i = 1 \/ i = 2
  BY <1>1
<1> HIDE DEF new
<1>4. InTurns(new)
  <2>1. /\ new[1].role = "user" /\ 1 < Len(new) /\ 1 + 1 = 2
        /\ Id(new[2]) = <<new[1].turn, "assistant", new[1].copy>>
    BY <1>1, <1>2, <1>3
  <2>2. /\ new[2].role # "user" /\ 2 > 1 /\ 2 - 1 = 1
        /\ Id(new[1]) = <<new[2].turn, "user", new[2].copy>>
    BY <1>1, <1>2, <1>3
  <2> QED
    BY <1>3, <2>1, <2>2 DEF InTurns
<1>5. Apart(new)
  <2>1. Id(new[1]) # Id(new[2])
    BY <1>1, <1>3
  <2> QED
    BY <1>3, <2>1 DEF Apart
<1>6. \A i \in DOMAIN new : new[i].turn = t /\ new[i].copy = "local"
  BY <1>2, <1>3
<1> QED
  BY <1>3, <1>4, <1>5, <1>6 DEF new, u, a

Distinct(s) == \A i, j \in DOMAIN s : s[i] = s[j] => i = j

LEMMA RowsTurns ==
  ASSUME TypeInv, NEW ts \in Seq(Turns), Distinct(ts)
  PROVE  /\ Rows(ts) \in Seq(Message) /\ InTurns(Rows(ts)) /\ Apart(Rows(ts))
         /\ \A i \in DOMAIN Rows(ts) : Rows(ts)[i].copy = "stored"
<1> DEFINE s == Rows(ts)
           n == Len(ts)
<1>1. /\ s \in Seq(Message) /\ Len(s) = 2 * n /\ DOMAIN s = 1..(2 * n) /\ n \in Nat
      /\ DOMAIN ts = 1..n /\ \A k \in 1..n : ts[k] \in Turns
      /\ \A k \in 1..n : /\ s[2 * k - 1] = UserMessage(ts[k], "stored")
                         /\ s[2 * k] = AssistantMessage(ts[k], "stored")
      /\ \A i \in 1..(2 * n) : \E k \in 1..n : i = 2 * k - 1 \/ i = 2 * k
  <2>1. s \in Seq(Message) /\ Len(s) = 2 * n /\ n \in Nat
    BY RowsMessages
  <2>2. DOMAIN s = 1..(2 * n)
    BY DEF Rows
  <2>3. DOMAIN ts = 1..n /\ \A k \in 1..n : ts[k] \in Turns
    OBVIOUS
  <2>4. /\ \A k \in 1..n : /\ s[2 * k - 1] = UserMessage(ts[k], "stored")
                            /\ s[2 * k] = AssistantMessage(ts[k], "stored")
        /\ \A i \in 1..(2 * n) : \E k \in 1..n : i = 2 * k - 1 \/ i = 2 * k
    BY RowsMessages
  <2> QED
    BY <2>1, <2>2, <2>3, <2>4
<1> HIDE DEF s, n
<1>2. ASSUME NEW k \in 1..n
      PROVE  /\ Id(s[2 * k - 1]) = <<ts[k], "user", "stored">>
             /\ Id(s[2 * k]) = <<ts[k], "assistant", "stored">>
             /\ s[2 * k - 1].turn = ts[k] /\ s[2 * k - 1].role = "user" /\ s[2 * k - 1].copy = "stored"
             /\ s[2 * k].turn = ts[k] /\ s[2 * k].role = "assistant" /\ s[2 * k].copy = "stored"
  <2>1. /\ ts[k] \in Turns
        /\ s[2 * k - 1] = UserMessage(ts[k], "stored") /\ s[2 * k] = AssistantMessage(ts[k], "stored")
    BY <1>1
  <2>2. /\ Id(UserMessage(ts[k], "stored")) = <<ts[k], "user", "stored">>
        /\ Id(AssistantMessage(ts[k], "stored")) = <<ts[k], "assistant", "stored">>
    BY <2>1, NewMessages
  <2>3. /\ s[2 * k - 1].turn = ts[k] /\ s[2 * k - 1].role = "user" /\ s[2 * k - 1].copy = "stored"
        /\ s[2 * k].turn = ts[k] /\ s[2 * k].role = "assistant" /\ s[2 * k].copy = "stored"
    BY <2>1 DEF UserMessage, AssistantMessage
  <2> QED
    BY <2>1, <2>2, <2>3
<1>3. InTurns(s)
  <2> SUFFICES ASSUME NEW i \in 1..(2 * n)
               PROVE  IF s[i].role = "user"
                      THEN i < 2 * n /\ Id(s[i + 1]) = <<s[i].turn, "assistant", s[i].copy>>
                      ELSE i > 1 /\ Id(s[i - 1]) = <<s[i].turn, "user", s[i].copy>>
    BY <1>1 DEF InTurns
  <2>1. PICK k \in 1..n : i = 2 * k - 1 \/ i = 2 * k
    BY <1>1
  <2>2. CASE i = 2 * k - 1
    <3>1. i + 1 = 2 * k /\ i < 2 * n
      BY <1>1, <2>2
    <3> QED
      BY <1>2, <2>2, <3>1
  <2>3. CASE i = 2 * k
    <3>1. i - 1 = 2 * k - 1 /\ i > 1
      BY <1>1, <2>3
    <3> QED
      BY <1>2, <2>3, <3>1
  <2> QED
    BY <2>1, <2>2, <2>3
<1>4. Apart(s)
  <2>1. ASSUME NEW i \in 1..(2 * n), NEW j \in 1..(2 * n), Id(s[i]) = Id(s[j]) PROVE i = j
    <3>1. PICK k \in 1..n : i = 2 * k - 1 \/ i = 2 * k
      BY <1>1
    <3>2. PICK l \in 1..n : j = 2 * l - 1 \/ j = 2 * l
      BY <1>1
    <3>3. ts[k] = ts[l] /\ (i = 2 * k <=> j = 2 * l)
      <4>1. /\ Id(s[2 * k - 1]) = <<ts[k], "user", "stored">>
            /\ Id(s[2 * k]) = <<ts[k], "assistant", "stored">>
            /\ Id(s[2 * l - 1]) = <<ts[l], "user", "stored">>
            /\ Id(s[2 * l]) = <<ts[l], "assistant", "stored">>
        BY <1>2
      <4>2. 2 * k # 2 * k - 1 /\ 2 * l # 2 * l - 1
        BY <1>1
      <4>3. CASE i = 2 * k - 1 /\ j = 2 * l - 1
        BY <2>1, <4>1, <4>2, <4>3
      <4>4. CASE i = 2 * k /\ j = 2 * l
        BY <2>1, <4>1, <4>2, <4>4
      <4>5. CASE i = 2 * k - 1 /\ j = 2 * l
        BY <2>1, <4>1, <4>2, <4>5
      <4>6. CASE i = 2 * k /\ j = 2 * l - 1
        BY <2>1, <4>1, <4>2, <4>6
      <4> QED
        BY <3>1, <3>2, <4>3, <4>4, <4>5, <4>6
    <3>4. k = l
      BY <1>1, <3>3 DEF Distinct
    <3> QED
      BY <3>1, <3>2, <3>3, <3>4
  <2> QED
    BY <1>1, <2>1 DEF Apart
<1>5. ASSUME NEW i \in DOMAIN s PROVE s[i].copy = "stored"
  <2>1. PICK k \in 1..n : i = 2 * k - 1 \/ i = 2 * k
    BY <1>1
  <2> QED
    BY <1>2, <2>1
<1> QED
  BY <1>1, <1>3, <1>4, <1>5 DEF s

\* The local messages of the feed are of questions that this page sent.
Ours ==
  \A i \in DOMAIN feed : feed[i].copy = "local" =>
    asks[feed[i].turn].here /\ asks[feed[i].turn].pc \notin {"unused", "creating"}

\* What is being deleted is whole turns.
RemovingTurns ==
  \A d \in removing : \E t \in Turns, c \in {"local", "stored"} : d.ids = Pair(t, c)

\* The server knows nothing of a question that was not sent.
Early ==
  \A t \in Turns : asks[t].pc \in {"unused", "creating", "connecting"} =>
    gen[t].phase = "none" /\ link[t] = "none" /\ wire[t] = Nothing

\* A turn is saved once, and only when its answer is complete.
SavedOnce ==
  /\ Distinct(stored) /\ \A i \in DOMAIN stored : gen[stored[i]].phase = "saved"
  /\ \A a \in loads.answers : Distinct(a)

FeedInv == InTurns(feed) /\ Apart(feed) /\ Ours /\ RemovingTurns /\ Early /\ SavedOnce

LEMMA FeedFollows == TypeInv /\ FeedInv => FeedInTurns
<1> SUFFICES ASSUME TypeInv, FeedInv PROVE FeedInTurns
  OBVIOUS
<1> DEFINE n == Len(feed)
           f == [i \in 1..n |-> Id(feed[i])]
<1>1. n \in Nat /\ DOMAIN feed = 1..n
  BY DEF TypeInv, FeedTypes
<1>2. f \in Bijection(1..n, Ids(feed))
  <2>1. f \in [1..n -> Ids(feed)] /\ \A x \in Ids(feed) : \E i \in 1..n : f[i] = x
    BY DEF Ids
  <2>2. \A i, j \in 1..n : f[i] = f[j] => i = j
    BY <1>1 DEF FeedInv, Apart
  <2> HIDE DEF f, n
  <2>3. f \in Surjection(1..n, Ids(feed))
    BY <2>1 DEF Surjection
  <2>4. f \in Injection(1..n, Ids(feed))
    BY <2>1, <2>2 DEF Injection, IsInjective
  <2> QED
    BY <2>3, <2>4 DEF Bijection
<1> HIDE DEF f
<1>3. ExistsBijection(1..n, Ids(feed))
  BY <1>2 DEF ExistsBijection
<1>4. Cardinality(Ids(feed)) = n
  BY <1>1, <1>3, FS_CountingElements
<1> QED
  BY <1>4 DEF FeedInTurns, FeedInv, InTurns

LEMMA InitFeed == Init => FeedInv
<1> SUFFICES ASSUME Init PROVE FeedInv
  OBVIOUS
<1>1. feed = <<>> /\ removing = {} /\ loads.answers = {}
  BY DEF Init
<1>2. InTurns(feed) /\ Apart(feed) /\ Ours /\ RemovingTurns
  BY <1>1 DEF InTurns, Apart, Ours, RemovingTurns
<1>3. Early
  <2>1. ASSUME NEW t \in Turns, asks[t].pc \in {"unused", "creating", "connecting"}
        PROVE  gen[t].phase = "none" /\ link[t] = "none" /\ wire[t] = Nothing
    <3>1. ~(t <= Old)
      BY <2>1 DEF Init
    <3> QED
      BY <2>1, <3>1 DEF Init
  <2> QED
    BY <2>1 DEF Early
<1>4. SavedOnce
  <2>1. stored = [t \in 1..Old |-> t] /\ Old \in 0..MaxTurns /\ MaxTurns \in Nat
    BY ConstantsAssumption DEF Init
  <2>2. DOMAIN stored = 1..Old /\ \A i \in 1..Old : stored[i] = i /\ i \in Turns /\ i <= Old
    BY <2>1 DEF Turns
  <2>3. \A i \in 1..Old : gen[i].phase = "saved"
    BY <2>2 DEF Init
  <2> QED
    BY <1>1, <2>2, <2>3 DEF SavedOnce, Distinct
<1> QED
  BY <1>2, <1>3, <1>4 DEF FeedInv

\* Each part of the invariant, when a step leaves what it is about in peace.
LEMMA OursKept ==
  ASSUME TypeInv, Ours,
         \A i \in DOMAIN feed' : feed'[i].copy = "local" =>
           \E k \in DOMAIN feed : feed[k].copy = "local" /\ feed[k].turn = feed'[i].turn,
         \A t \in Turns : asks[t].here /\ asks[t].pc \notin {"unused", "creating"} =>
           asks'[t].here /\ asks'[t].pc \notin {"unused", "creating"}
  PROVE  Ours'
<1> SUFFICES ASSUME NEW i \in DOMAIN feed', feed'[i].copy = "local"
             PROVE  asks'[feed'[i].turn].here
                    /\ asks'[feed'[i].turn].pc \notin {"unused", "creating"}
  BY DEF Ours
<1>1. PICK k \in DOMAIN feed : feed[k].copy = "local" /\ feed[k].turn = feed'[i].turn
  OBVIOUS
<1>2. feed[k].turn \in Turns
  <2>1. feed[k] \in Message
    BY DEF TypeInv, FeedTypes
  <2> QED
    BY <2>1, MessageFields
<1>3. asks[feed[k].turn].here /\ asks[feed[k].turn].pc \notin {"unused", "creating"}
  BY <1>1 DEF Ours
<1> QED
  BY <1>1, <1>2, <1>3

LEMMA EarlyKept ==
  ASSUME Early, UNCHANGED <<gen, link>>,
         \A t \in Turns : wire'[t] = wire[t] \/ wire'[t] = Nothing,
         \A t \in Turns : asks'[t].pc \in {"unused", "creating", "connecting"} =>
           asks[t].pc \in {"unused", "creating", "connecting"}
  PROVE  Early'
BY DEF Early

LEMMA SavedKept ==
  ASSUME TypeInv, SavedOnce, UNCHANGED stored, loads'.answers \subseteq loads.answers,
         \A t \in Turns : gen[t].phase = "saved" => gen'[t].phase = "saved"
  PROVE  SavedOnce'
<1>1. \A i \in DOMAIN stored : stored[i] \in Turns
  BY DEF TypeInv, ServerTypes
<1> QED
  BY <1>1 DEF SavedOnce

\* The shape of the feed, without a step of it
LEMMA SameFeed ==
  ASSUME FeedInv, UNCHANGED feed
  PROVE  /\ InTurns(feed)' /\ Apart(feed)'
         /\ \A i \in DOMAIN feed' : feed'[i].copy = "local" =>
              \E k \in DOMAIN feed : feed[k].copy = "local" /\ feed[k].turn = feed'[i].turn
BY DEF FeedInv, InTurns, Apart, Id

\* A question is put behind the feed.
LEMMA BeginFeed ==
  ASSUME TypeInv, FeedInv, NEW t \in Turns, NEW s, NEW here \in BOOLEAN,
         asks[t].pc \in {"unused", "creating"}, BeginStream(t, s, here)
  PROVE  /\ InTurns(feed)' /\ Apart(feed)' /\ Ours'
         /\ \A u \in Turns : asks'[u].pc \in {"unused", "creating", "connecting"} =>
              asks[u].pc \in {"unused", "creating", "connecting"}
<1>0. asks' = [asks EXCEPT ![t] = [pc |-> "connecting", session |-> s, here |-> here]]
  BY DEF BeginStream
<1>1. \A u \in Turns \ {t} : asks'[u] = asks[u]
  BY <1>0 DEF TypeInv, PageTypes
<1>2. asks'[t].pc = "connecting" /\ asks'[t].here = here
  BY <1>0 DEF TypeInv, PageTypes
<1>3. \A i \in DOMAIN feed : feed[i].copy = "local" => feed[i].turn # t
  BY DEF FeedInv, Ours
<1>4. CASE ~here
  <2>1. UNCHANGED feed
    BY <1>4 DEF BeginStream
  <2>2. \A u \in Turns : asks[u].here /\ asks[u].pc \notin {"unused", "creating"} =>
          asks'[u].here /\ asks'[u].pc \notin {"unused", "creating"}
    BY <1>1
  <2>3. Ours'
    BY <2>1, <2>2, SameFeed, OursKept DEF FeedInv
  <2> QED
    BY <1>1, <2>1, <2>3, SameFeed
<1>5. CASE here
  <2> DEFINE new == <<UserMessage(t, "local"), AssistantMessage(t, "local")>>
  <2>1. /\ new \in Seq(Message) /\ InTurns(new) /\ Apart(new)
        /\ \A i \in DOMAIN new : new[i].turn = t /\ new[i].copy = "local"
    BY NewTurn
  <2>2. feed' = feed \o new
    BY <1>5 DEF BeginStream
  <2> HIDE DEF new
  <2>3. feed \in Seq(Message) /\ InTurns(feed) /\ Apart(feed)
    BY DEF TypeInv, FeedTypes, FeedInv
  <2>4. ASSUME NEW i \in DOMAIN feed, NEW j \in DOMAIN new PROVE Id(feed[i]) # Id(new[j])
    BY <1>3, <2>1 DEF Id
  <2>5. InTurns(feed \o new) /\ Apart(feed \o new)
    BY <2>1, <2>3, <2>4, ConcatTurns
  <2>6. Ours'
    <3>1. /\ Len(feed') = Len(feed) + Len(new) /\ DOMAIN feed' = 1..(Len(feed) + Len(new))
          /\ Len(feed) \in Nat /\ Len(new) \in Nat /\ DOMAIN feed = 1..Len(feed)
          /\ DOMAIN new = 1..Len(new)
          /\ \A i \in DOMAIN feed' : feed'[i] = IF i <= Len(feed) THEN feed[i] ELSE new[i - Len(feed)]
      BY <2>1, <2>2, <2>3, ConcatProperties
    <3>2. ASSUME NEW i \in DOMAIN feed', feed'[i].copy = "local"
          PROVE  asks'[feed'[i].turn].here /\ asks'[feed'[i].turn].pc \notin {"unused", "creating"}
      <4>1. CASE i \in DOMAIN feed /\ feed'[i] = feed[i]
        <5>1. feed[i] \in Message
          BY <2>3, <4>1
        <5>2. feed[i].turn \in Turns \ {t}
          BY <1>3, <3>2, <4>1, <5>1, MessageFields
        <5>3. asks[feed[i].turn].here /\ asks[feed[i].turn].pc \notin {"unused", "creating"}
          BY <3>2, <4>1 DEF FeedInv, Ours
        <5> QED
          BY <1>1, <4>1, <5>2, <5>3
      <4>2. CASE i - Len(feed) \in DOMAIN new /\ feed'[i] = new[i - Len(feed)]
        BY <1>2, <1>5, <2>1, <4>2
      <4>3. i \in DOMAIN feed \/ (i - Len(feed) \in DOMAIN new /\ ~(i <= Len(feed)))
        BY <3>1
      <4> QED
        BY <3>1, <4>1, <4>2, <4>3
    <3> QED
      BY <3>2 DEF Ours
  <2>7. InTurns(feed)' /\ Apart(feed)'
    BY <2>2, <2>5 DEF InTurns, Apart, Id
  <2> QED
    BY <1>1, <2>6, <2>7
<1> QED
  BY <1>4, <1>5

\* A write changes no message's place.
LEMMA WrittenFeed ==
  ASSUME TypeInv, FeedInv, NEW t \in Turns, NEW e \in Written, Write(t, e)
  PROVE  /\ InTurns(feed)' /\ Apart(feed)'
         /\ \A i \in DOMAIN feed' : feed'[i].copy = "local" =>
              \E k \in DOMAIN feed : feed[k].copy = "local" /\ feed[k].turn = feed'[i].turn
<1>1. /\ Len(feed') = Len(feed) /\ DOMAIN feed' = DOMAIN feed
      /\ \A i \in DOMAIN feed :
           /\ feed'[i].turn = feed[i].turn /\ feed'[i].role = feed[i].role
           /\ feed'[i].copy = feed[i].copy /\ Id(feed'[i]) = Id(feed[i])
  BY WriteFeed DEF TypeInv
<1>2. DOMAIN feed = 1..Len(feed) /\ Len(feed) \in Nat
  BY DEF TypeInv, FeedTypes
<1>3. InTurns(feed')
  <2> SUFFICES ASSUME NEW i \in DOMAIN feed
               PROVE  IF feed'[i].role = "user"
                      THEN i < Len(feed') /\ Id(feed'[i + 1]) = <<feed'[i].turn, "assistant", feed'[i].copy>>
                      ELSE i > 1 /\ Id(feed'[i - 1]) = <<feed'[i].turn, "user", feed'[i].copy>>
    BY <1>1 DEF InTurns
  <2>1. IF feed[i].role = "user"
        THEN i < Len(feed) /\ Id(feed[i + 1]) = <<feed[i].turn, "assistant", feed[i].copy>>
        ELSE i > 1 /\ Id(feed[i - 1]) = <<feed[i].turn, "user", feed[i].copy>>
    BY DEF FeedInv, InTurns
  <2>2. (i < Len(feed) => i + 1 \in DOMAIN feed) /\ (i > 1 => i - 1 \in DOMAIN feed)
    BY <1>2
  <2> QED
    BY <1>1, <2>1, <2>2
<1>4. Apart(feed')
  BY <1>1 DEF FeedInv, Apart
<1> QED
  BY <1>1, <1>3, <1>4 DEF InTurns, Apart, Id

LEMMA AskingFeed ==
  ASSUME TypeInv, FeedInv, Ask \/ AskNew \/ \E t \in Turns : CreateSucceeds(t) \/ CreateFails(t)
  PROVE  FeedInv'
<1> USE DEF FeedInv
<1>1. /\ UNCHANGED <<removing, gen, link, wire, stored>>
      /\ loads'.answers = loads.answers
  BY DEF Ask, AskNew, CreateSucceeds, CreateFails, Load, network, server, TypeInv, PageTypes
<1>2. RemovingTurns' /\ SavedOnce'
  BY <1>1, SavedKept DEF RemovingTurns, Pair
<1>3. ASSUME NEW t \in Turns, NEW s, NEW here \in BOOLEAN,
             asks[t].pc \in {"unused", "creating"}, BeginStream(t, s, here)
      PROVE  FeedInv'
  BY <1>1, <1>2, <1>3, BeginFeed, EarlyKept
<1>4. CASE Ask
  <2>1. NextTurn \in Turns /\ asks[NextTurn].pc = "unused"
    BY <1>4, NextTurnUnasked DEF Ask
  <2> QED
    BY <1>3, <1>4, <2>1 DEF Ask
<1>5. ASSUME NEW t \in Turns, CreateSucceeds(t) PROVE FeedInv'
  <2>1. asks[t].here \in BOOLEAN
    BY AskFields
  <2> QED
    BY <1>3, <1>5, <2>1 DEF CreateSucceeds
<1>6. ASSUME UNCHANGED feed,
             \A t \in Turns : asks[t].here /\ asks[t].pc \notin {"unused", "creating"} =>
               asks'[t].here /\ asks'[t].pc \notin {"unused", "creating"},
             \A t \in Turns : asks'[t].pc \in {"unused", "creating", "connecting"} =>
               asks[t].pc \in {"unused", "creating", "connecting"}
      PROVE  FeedInv'
  BY <1>1, <1>2, <1>6, SameFeed, OursKept, EarlyKept
<1>7. CASE AskNew
  <2>1. NextTurn \in Turns /\ asks[NextTurn].pc = "unused"
    BY <1>7, NextTurnUnasked DEF AskNew
  <2>2. asks' = [asks EXCEPT ![NextTurn] =
                   [pc |-> "creating", session |-> NextTurn, here |-> TRUE]] /\ UNCHANGED feed
    BY <1>7 DEF AskNew
  <2>3. \A t \in Turns : t = NextTurn \/ asks'[t] = asks[t]
    BY <2>2 DEF TypeInv, PageTypes
  <2>4. asks'[NextTurn].pc = "creating"
    BY <2>1, <2>2 DEF TypeInv, PageTypes
  <2> HIDE DEF NextTurn
  <2> QED
    BY <1>6, <2>1, <2>2, <2>3, <2>4
<1>8. ASSUME NEW t \in Turns, CreateFails(t) PROVE FeedInv'
  <2>1. asks' = [asks EXCEPT ![t].pc = "over"] /\ asks[t].pc = "creating" /\ UNCHANGED feed
    BY <1>8 DEF CreateFails
  <2>2. /\ asks'[t].pc = "over"
        /\ \A u \in Turns : u = t \/ asks'[u] = asks[u]
    BY <2>1, AskFields
  <2> QED
    BY <1>6, <2>1, <2>2
<1> QED
  BY <1>4, <1>5, <1>7, <1>8

\* The ends of a stream
LEMMA FinallyAsks ==
  ASSUME TypeInv, NEW t \in Turns, NEW p \in {"reading", "over"}, asks' = [asks EXCEPT ![t].pc = p],
         asks[t].pc \in {"connecting", "reading"}
  PROVE  /\ \A u \in Turns : asks[u].here /\ asks[u].pc \notin {"unused", "creating"} =>
              asks'[u].here /\ asks'[u].pc \notin {"unused", "creating"}
         /\ \A u \in Turns : asks'[u].pc \in {"unused", "creating", "connecting"} =>
              asks[u].pc \in {"unused", "creating", "connecting"}
         /\ asks'[t].pc = p /\ \A u \in Turns \ {t} : asks'[u] = asks[u]
<1> DEFINE a == [asks EXCEPT ![t].pc = p]
<1>0. p \in {"unused", "creating", "connecting", "reading", "over"}
  OBVIOUS
<1>1. a[t].pc = p /\ a[t].here = asks[t].here /\ \A u \in Turns \ {t} : a[u] = asks[u]
  BY <1>0 DEF TypeInv, PageTypes, Ask_
<1>2. asks' = a
  OBVIOUS
<1> HIDE DEF a
<1> QED
  BY <1>1, <1>2

LEMMA StreamFeed ==
  ASSUME TypeInv, FeedInv, NEW t \in Turns,
         Connect(t) \/ ConnectFails(t) \/ Read(t) \/ ReadEnds(t) \/ ReadFails(t)
  PROVE  FeedInv'
<1> USE DEF FeedInv
<1>1. UNCHANGED <<removing, stored, loads>>
  BY DEF Connect, ConnectFails, Read, ReadEnds, ReadFails, server
<1>2. RemovingTurns'
  BY <1>1 DEF RemovingTurns, Pair
<1>3. CASE Connect(t)
  <2>1. /\ asks' = [asks EXCEPT ![t].pc = "reading"] /\ asks[t].pc = "connecting"
        /\ gen' = [gen EXCEPT ![t].phase = "llm"] /\ link' = [link EXCEPT ![t] = "open"]
        /\ UNCHANGED <<feed, wire>>
    BY <1>3 DEF Connect
  <2>2. /\ \A u \in Turns : asks[u].here /\ asks[u].pc \notin {"unused", "creating"} =>
             asks'[u].here /\ asks'[u].pc \notin {"unused", "creating"}
        /\ asks'[t].pc = "reading" /\ \A u \in Turns \ {t} : asks'[u] = asks[u]
    BY <2>1, FinallyAsks
  <2>3. gen[t].phase = "none" /\ \A u \in Turns \ {t} : gen'[u] = gen[u] /\ link'[u] = link[u]
    BY <2>1 DEF Early, TypeInv, ServerTypes, NetworkTypes
  <2>4. Early'
    BY <2>1, <2>2, <2>3 DEF Early
  <2>5. SavedOnce'
    BY <1>1, <2>3, SavedKept
  <2> QED
    BY <1>2, <2>1, <2>2, <2>4, <2>5, SameFeed, OursKept
<1>4. CASE ~Connect(t)
  <2>1. UNCHANGED <<gen, link>> /\ \A u \in Turns : wire'[u] = wire[u] \/ wire'[u] = Nothing
    BY <1>4 DEF ConnectFails, Read, ReadEnds, ReadFails, server, network, TypeInv, NetworkTypes
  <2>2. SavedOnce'
    BY <1>1, <2>1, SavedKept
  <2>3. /\ InTurns(feed)' /\ Apart(feed)'
        /\ \A i \in DOMAIN feed' : feed'[i].copy = "local" =>
             \E k \in DOMAIN feed : feed[k].copy = "local" /\ feed[k].turn = feed'[i].turn
    <3>1. CASE UNCHANGED feed
      BY <3>1, SameFeed
    <3>2. ASSUME NEW e \in Written, Write(t, e) 
          PROVE  /\ InTurns(feed)' /\ Apart(feed)'
                 /\ \A i \in DOMAIN feed' : feed'[i].copy = "local" =>
                      \E k \in DOMAIN feed : feed[k].copy = "local" /\ feed[k].turn = feed'[i].turn
      BY <3>2, WrittenFeed
    <3>3. CASE Read(t)
      <4>1. wire[t] \in Written
        BY <3>3 DEF Read, Written, TypeInv, NetworkTypes
      <4> QED
        BY <3>2, <3>3, <4>1 DEF Read, Handle
    <3>4. CASE Catch(t)
      <4>1. [type |-> "error"] \in Written
        BY DEF Written
      <4> QED
        BY <3>2, <3>4, <4>1 DEF Catch
    <3> QED
      BY <1>4, <3>1, <3>3, <3>4 DEF ConnectFails, ReadEnds, ReadFails
  <2>4. \/ UNCHANGED asks
        \/ asks' = [asks EXCEPT ![t].pc = "over"] /\ asks[t].pc \in {"connecting", "reading"}
    BY <1>4 DEF ConnectFails, Read, ReadEnds, ReadFails, Catch, Finally
  <2>5. /\ \A u \in Turns : asks[u].here /\ asks[u].pc \notin {"unused", "creating"} =>
             asks'[u].here /\ asks'[u].pc \notin {"unused", "creating"}
        /\ \A u \in Turns : asks'[u].pc \in {"unused", "creating", "connecting"} =>
             asks[u].pc \in {"unused", "creating", "connecting"}
    BY <2>4, FinallyAsks
  <2> QED
    BY <1>2, <2>1, <2>2, <2>3, <2>5, OursKept, EarlyKept
<1> QED
  BY <1>3, <1>4

\* The message that is deleted takes its whole turn along.
LEMMA CascadeTurn ==
  ASSUME TypeInv, FeedInv, NEW i \in DOMAIN feed, feed[i].role = "user"
  PROVE  /\ feed[i].turn \in Turns /\ feed[i].copy \in {"local", "stored"}
         /\ Cascade(i) = Pair(feed[i].turn, feed[i].copy)
<1> DEFINE m == feed[i]
<1>1. /\ DOMAIN feed = 1..Len(feed) /\ Len(feed) \in Nat
      /\ \A j \in 1..Len(feed) : feed[j] \in Message
  BY DEF TypeInv, FeedTypes
<1>2. m \in Message
  BY <1>1
<1>3. /\ m.turn \in Turns /\ m.copy \in {"local", "stored"} /\ Id(m) = <<m.turn, "user", m.copy>>
  BY <1>2, MessageFields
<1>4. i < Len(feed) /\ Id(feed[i + 1]) = <<m.turn, "assistant", m.copy>>
  BY DEF FeedInv, InTurns
<1>5. i + 1 \in DOMAIN feed /\ feed[i + 1].role = "assistant"
  <2>1. i + 1 \in 1..Len(feed)
    BY <1>1, <1>4
  <2> QED
    BY <1>1, <1>4, <2>1, SameId
<1>6. CASE m.copy = "stored"
  <2>1. Id(m) \in {Id(x) : x \in {feed[j] : j \in DOMAIN feed}}
    OBVIOUS
  <2>2. Id(feed[i + 1]) \in {Id(x) : x \in {feed[j] : j \in DOMAIN feed}}
    BY <1>5
  <2> HIDE DEF m
  <2>3. Cascade(i) = {Id(x) : x \in {feed[j] : j \in DOMAIN feed}} \intersect
                       {<<m.turn, r, "stored">> : r \in {"user", "assistant"}}
    BY <1>6 DEF Cascade, m
  <2>4. {<<m.turn, r, "stored">> : r \in {"user", "assistant"}} = Pair(m.turn, "stored")
    BY DEF Pair
  <2> QED
    BY <1>3, <1>4, <1>6, <2>1, <2>2, <2>3, <2>4 DEF Pair, m
<1>7. CASE m.copy # "stored"
  <2>1. {k \in DOMAIN feed : k = i + 1 /\ feed[k].role = "assistant"} = {i + 1}
    BY <1>5
  <2>2. Cascade(i) = {Id(m)} \union {Id(feed[j]) : j \in {i + 1}}
    BY <1>7, <2>1 DEF Cascade
  <2>3. {Id(feed[j]) : j \in {i + 1}} = {Id(feed[i + 1])}
    OBVIOUS
  <2> HIDE DEF m
  <2> QED
    BY <1>3, <1>4, <2>2, <2>3 DEF Pair, m
<1> QED
  BY <1>3, <1>6, <1>7

\* What a load brings is put before the feed, and takes the place of the rows
\* that were loaded before.
LEMMA MergeFeed ==
  ASSUME TypeInv, FeedInv, NEW a \in loads.answers
  PROVE  /\ InTurns(Merge(a)) /\ Apart(Merge(a))
         /\ \A i \in DOMAIN Merge(a) : Merge(a)[i].copy = "local" =>
              \E k \in DOMAIN feed : feed[k].copy = "local" /\ feed[k].turn = Merge(a)[i].turn
         /\ Ids(feed) \subseteq Ids(Merge(a))
<1> DEFINE rows == Rows(a)
           rest == Without(feed, Ids(rows))
<1>1. a \in Seq(Turns) /\ Distinct(a)
  BY DEF TypeInv, PageTypes, FeedInv, SavedOnce
<1>2. /\ rows \in Seq(Message) /\ InTurns(rows) /\ Apart(rows)
      /\ \A i \in DOMAIN rows : rows[i].copy = "stored"
  BY <1>1, RowsTurns
<1> HIDE DEF rows
<1>3. Paired(Ids(rows))
  BY <1>2, TurnsPaired
<1>4. feed \in Seq(Message) /\ InTurns(feed) /\ Apart(feed)
  BY DEF TypeInv, FeedTypes, FeedInv
<1>5. /\ rest \in Seq(Message) /\ InTurns(rest) /\ Apart(rest)
      /\ \A i \in DOMAIN rest : \E k \in DOMAIN feed : rest[i] = feed[k] /\ Id(feed[k]) \notin Ids(rows)
      /\ \A k \in DOMAIN feed : Id(feed[k]) \notin Ids(rows) => \E i \in DOMAIN rest : rest[i] = feed[k]
  BY <1>3, <1>4, WithoutTurns
<1>6. Merge(a) = rows \o rest
  BY DEF Merge, rows
<1> HIDE DEF rest
<1>7. \A i \in DOMAIN rows, j \in DOMAIN rest : Id(rows[i]) # Id(rest[j])
  <2>1. \A i \in DOMAIN rows : Id(rows[i]) \in Ids(rows)
    BY <1>2 DEF Ids
  <2> QED
    BY <1>5, <2>1
<1>8. InTurns(rows \o rest) /\ Apart(rows \o rest)
  BY <1>2, <1>5, <1>7, ConcatTurns
<1> DEFINE m == rows \o rest
<1>9. /\ Len(rows) \in Nat /\ Len(rest) \in Nat /\ DOMAIN rows = 1..Len(rows)
      /\ DOMAIN rest = 1..Len(rest) /\ DOMAIN m = 1..(Len(rows) + Len(rest))
      /\ Len(m) = Len(rows) + Len(rest)
      /\ \A i \in 1..(Len(rows) + Len(rest)) :
           m[i] = IF i <= Len(rows) THEN rows[i] ELSE rest[i - Len(rows)]
  BY <1>2, <1>5, ConcatProperties
<1> HIDE DEF m
<1>10. ASSUME NEW i \in DOMAIN m, m[i].copy = "local"
       PROVE  \E k \in DOMAIN feed : feed[k].copy = "local" /\ feed[k].turn = m[i].turn
  <2>1. ~(i <= Len(rows))
    BY <1>2, <1>9, <1>10
  <2>2. i - Len(rows) \in DOMAIN rest /\ m[i] = rest[i - Len(rows)]
    BY <1>9, <2>1
  <2> QED
    BY <1>5, <1>10, <2>2
<1>11. ASSUME NEW x \in Ids(feed) PROVE x \in Ids(m)
  <2>1. PICK k \in DOMAIN feed : x = Id(feed[k])
    BY <1>4 DEF Ids
  <2>2. CASE x \in Ids(rows)
    <3>1. PICK i \in 1..Len(rows) : x = Id(rows[i])
      BY <2>2 DEF Ids
    <3>2. i \in 1..Len(m) /\ m[i] = rows[i]
      BY <1>9, <3>1
    <3> QED
      BY <3>1, <3>2 DEF Ids
  <2>3. CASE x \notin Ids(rows)
    <3>1. PICK j \in DOMAIN rest : rest[j] = feed[k]
      BY <1>5, <2>1, <2>3
    <3>2. Len(rows) + j \in 1..Len(m) /\ ~(Len(rows) + j <= Len(rows)) /\ (Len(rows) + j) - Len(rows) = j
      BY <1>9, <3>1
    <3>3. m[Len(rows) + j] = rest[j]
      BY <1>9, <3>2
    <3> QED
      BY <2>1, <3>1, <3>2, <3>3 DEF Ids
  <2> QED
    BY <2>2, <2>3
<1> QED
  BY <1>6, <1>8, <1>10, <1>11 DEF m

\* The messages that are deleted leave the feed, and no others.
LEMMA FinishedFeed ==
  ASSUME TypeInv, FeedInv, NEW d \in removing, feed' = Without(feed, d.ids)
  PROVE  /\ InTurns(feed)' /\ Apart(feed)'
         /\ \A i \in DOMAIN feed' : feed'[i].copy = "local" =>
              \E k \in DOMAIN feed : feed[k].copy = "local" /\ feed[k].turn = feed'[i].turn
         /\ \A x \in Ids(feed) : x \in d.ids \/ x \in Ids(feed')
<1>1. Paired(d.ids)
  BY PairPaired DEF FeedInv, RemovingTurns
<1>2. feed \in Seq(Message) /\ InTurns(feed) /\ Apart(feed)
  BY DEF TypeInv, FeedTypes, FeedInv
<1> DEFINE rest == Without(feed, d.ids)
<1>3. /\ InTurns(rest) /\ Apart(rest) /\ rest \in Seq(Message)
      /\ \A i \in DOMAIN rest : \E k \in DOMAIN feed : rest[i] = feed[k]
      /\ \A k \in DOMAIN feed : Id(feed[k]) \notin d.ids => \E i \in DOMAIN rest : rest[i] = feed[k]
  BY <1>1, <1>2, WithoutTurns
<1> HIDE DEF rest
<1>4. feed' = rest
  BY DEF rest
<1>5. ASSUME NEW x \in Ids(feed), x \notin d.ids PROVE x \in Ids(rest)
  <2>1. PICK k \in DOMAIN feed : x = Id(feed[k])
    BY <1>2 DEF Ids
  <2>2. PICK i \in DOMAIN rest : rest[i] = feed[k]
    BY <1>3, <1>5, <2>1
  <2>3. DOMAIN rest = 1..Len(rest)
    BY <1>3
  <2> QED
    BY <2>1, <2>2, <2>3 DEF Ids
<1> QED
  BY <1>3, <1>4, <1>5 DEF InTurns, Apart, Id

LEMMA PageFeed ==
  ASSUME TypeInv, FeedInv,
         \/ \E yes \in BOOLEAN : Confirm(yes)
         \/ \E i \in DOMAIN feed : ClickDelete(i)
         \/ Logout \/ Login
         \/ \E a \in loads.answers : Loaded(a)
         \/ \E d \in removing : FinishDelete(d)
  PROVE  FeedInv'
<1> USE DEF FeedInv
<1>1. UNCHANGED <<asks, wire, link, gen, stored>>
  BY DEF Confirm, ClickDelete, Logout, Login, Loaded, FinishDelete, network, server
<1>2. loads'.answers \subseteq loads.answers
  BY DEF Confirm, ClickDelete, Logout, Login, Loaded, FinishDelete, TypeInv, PageTypes
<1>3. Early' /\ SavedOnce'
  BY <1>1, <1>2, EarlyKept, SavedKept
<1>4. RemovingTurns'
  <2>1. CASE removing' \subseteq removing
    BY <2>1 DEF RemovingTurns, Pair
  <2>2. ASSUME NEW i \in DOMAIN feed, ClickDelete(i) PROVE RemovingTurns'
    <3>1. feed[i].turn \in Turns /\ feed[i].copy \in {"local", "stored"}
          /\ Cascade(i) = Pair(feed[i].turn, feed[i].copy)
      BY <2>2, CascadeTurn DEF ClickDelete
    <3>2. \A d \in removing' : d \in removing \/ d.ids = Cascade(i)
      BY <2>2 DEF ClickDelete
    <3> QED
      BY <3>1, <3>2 DEF RemovingTurns, Pair
  <2> QED
    BY <2>1, <2>2 DEF Confirm, Logout, Login, Loaded, FinishDelete
<1>5. InTurns(feed)' /\ Apart(feed)' /\ Ours'
  <2>1. CASE UNCHANGED feed
    BY <1>1, <2>1, SameFeed, OursKept
  <2>2. ASSUME NEW a \in loads.answers, Loaded(a) PROVE InTurns(feed)' /\ Apart(feed)' /\ Ours'
    <3> DEFINE m == Merge(a)
    <3>1. /\ InTurns(m) /\ Apart(m)
          /\ \A i \in DOMAIN m : m[i].copy = "local" =>
               \E k \in DOMAIN feed : feed[k].copy = "local" /\ feed[k].turn = m[i].turn
      BY MergeFeed
    <3>2. feed' = m
      BY <2>2 DEF Loaded
    <3> HIDE DEF m
    <3>3. Ours'
      BY <1>1, <3>1, <3>2, OursKept
    <3> QED
      BY <3>1, <3>2, <3>3 DEF InTurns, Apart, Id
  <2>3. ASSUME NEW d \in removing, FinishDelete(d) PROVE InTurns(feed)' /\ Apart(feed)' /\ Ours'
    BY <1>1, <2>3, FinishedFeed, OursKept DEF FinishDelete
  <2> QED
    BY <2>1, <2>2, <2>3 DEF Confirm, ClickDelete, Logout, Login
<1> QED
  BY <1>3, <1>4, <1>5

LEMMA MountingFeed ==
  ASSUME TypeInv, FeedInv, Reload \/ \E s \in Sessions \union {None} : Visit(s)
  PROVE  FeedInv'
<1> USE DEF FeedInv
<1>1. feed' = <<>> /\ removing' = {} /\ loads'.answers = {} /\ UNCHANGED <<gen, stored>>
  <2>1. UNCHANGED <<gen, stored>> /\ \E s : Mount(s)
    BY DEF Reload, Visit, server
  <2> QED
    BY <2>1 DEF Mount
<1>2. InTurns(feed)' /\ Apart(feed)' /\ Ours' /\ RemovingTurns'
  BY <1>1 DEF InTurns, Apart, Ours, RemovingTurns
<1>3. SavedOnce'
  BY <1>1, SavedKept
<1>4. ASSUME NEW t \in Turns, asks'[t].pc \in {"unused", "creating", "connecting"}
      PROVE  /\ asks[t].pc \in {"unused", "creating", "connecting"}
             /\ link'[t] = link[t] \/ link[t] = "open"
             /\ wire'[t] = wire[t] \/ wire'[t] = Nothing
  <2>1. asks[t] \in Ask_
    BY DEF TypeInv, PageTypes
  <2>2. CASE Reload
    <3>1. asks'[t] = [asks[t] EXCEPT !.here = FALSE, !.pc = IF @ = "unused" THEN @ ELSE "over"]
          /\ wire'[t] = Nothing /\ (link'[t] = link[t] \/ link[t] = "open")
      BY <2>2 DEF Reload
    <3>2. asks'[t].pc = IF asks[t].pc = "unused" THEN asks[t].pc ELSE "over"
      BY <2>1, <3>1 DEF Ask_
    <3> QED
      BY <1>4, <3>1, <3>2
  <2>3. ASSUME NEW s \in Sessions \union {None}, Visit(s)
        PROVE  asks[t].pc = asks'[t].pc /\ UNCHANGED <<link, wire>>
    <3>1. asks'[t] = [asks[t] EXCEPT !.here = FALSE] /\ UNCHANGED <<link, wire>>
      BY <2>3 DEF Visit
    <3> QED
      BY <2>1, <3>1 DEF Ask_
  <2> QED
    BY <1>4, <2>2, <2>3
<1>5. Early'
  <2>1. ASSUME NEW t \in Turns, asks'[t].pc \in {"unused", "creating", "connecting"}
        PROVE  gen'[t].phase = "none" /\ link'[t] = "none" /\ wire'[t] = Nothing
    BY <1>1, <1>4, <2>1 DEF Early
  <2> QED
    BY <2>1 DEF Early
<1> QED
  BY <1>2, <1>3, <1>5

\* A step that has no effect on questions the server knows nothing of
LEMMA WorkingFeed ==
  ASSUME TypeInv, FeedInv, UNCHANGED <<browser, stored>>,
         \A u \in Turns : /\ gen[u].phase = "none" /\ link[u] = "none" =>
                               gen'[u].phase = "none" /\ link'[u] = link[u] /\ wire'[u] = wire[u]
                          /\ gen[u].phase = "saved" => gen'[u].phase = "saved"
  PROVE  FeedInv'
<1> USE DEF FeedInv
<1>1. UNCHANGED <<asks, feed, loads, removing>>
  BY DEF browser
<1>2. InTurns(feed)' /\ Apart(feed)' /\ Ours' /\ RemovingTurns'
  BY <1>1, SameFeed, OursKept DEF RemovingTurns, Pair
<1>3. SavedOnce'
  BY <1>1, SavedKept
<1>4. Early'
  BY <1>1 DEF Early
<1> QED
  BY <1>2, <1>3, <1>4

LEMMA EmitOthers ==
  ASSUME TypeInv, NEW t \in Turns, NEW e, Emit(t, e)
  PROVE  \A u \in Turns \ {t} : wire'[u] = wire[u]
BY DEF Emit, TypeInv, NetworkTypes

LEMMA AgentFeed ==
  ASSUME TypeInv, FeedInv, NEW t \in Turns,
         \/ LlmAnswers(t) \/ LlmGivesUp(t) \/ EndRound(t)
         \/ \E tools \in Rounds : LlmCallsTools(t, tools)
         \/ Cancel(t)
  PROVE  FeedInv'
<1>1. UNCHANGED <<browser, stored, link>>
  BY DEF LlmAnswers, LlmGivesUp, EndRound, LlmCallsTools, Cancel, network
<1>2. \A u \in Turns \ {t} : wire'[u] = wire[u]
  BY EmitOthers DEF LlmAnswers, LlmGivesUp, EndRound, LlmCallsTools, Cancel, network
<1>3. (\A u \in Turns \ {t} : gen'[u] = gen[u]) /\ gen[t].phase \notin {"none", "saved"}
  BY DEF LlmAnswers, LlmGivesUp, EndRound, LlmCallsTools, Cancel, TypeInv, ServerTypes, Live
<1> QED
  BY <1>1, <1>2, <1>3, WorkingFeed

\* Calls run on without a change of phase.
LEMMA RunPhases ==
  ASSUME TypeInv, NEW t \in Turns,
         StartCall(t) \/ \E i \in DOMAIN gen[t].calls : Resume(t, i) \/ TimeOut(t, i)
  PROVE  /\ UNCHANGED <<browser, network, minted, stored>>
         /\ \A u \in Turns \ {t} : gen'[u] = gen[u]
         /\ gen'[t].phase = gen[t].phase /\ ToolsOf(gen'[t].calls) = ToolsOf(gen[t].calls)
<1>1. PICK i \in DOMAIN gen[t].calls, s \in {"waiting", "over"}, c \in Confirms \union {0} :
        \/ gen' = [gen EXCEPT ![t].calls[i].state = s]
        \/ gen' = [gen EXCEPT ![t].calls[i].state = s, ![t].calls[i].on = c]
  <2>1. CASE StartCall(t)
    <3> DEFINE i == Least(InState(t, "started"))
    <3>1. i \in DOMAIN gen[t].calls
      BY <2>1, NextCall DEF StartCall
    <3>2. \/ gen' = [gen EXCEPT ![t].calls[i].state = "over"]
          \/ /\ registry # {}
             /\ gen' = [gen EXCEPT ![t].calls[i].state = "waiting",
                                   ![t].calls[i].on = Least(registry)]
      BY <2>1 DEF StartCall, Resolve
    <3> HIDE DEF i
    <3> QED
      BY <3>1, <3>2, FirstRegistered
  <2>2. ASSUME NEW i \in DOMAIN gen[t].calls, Resume(t, i) \/ TimeOut(t, i)
        PROVE  gen' = [gen EXCEPT ![t].calls[i].state = "over"]
    BY <2>2 DEF Resume, TimeOut, Resolve
  <2> QED
    BY <2>1, <2>2
<1>2. UNCHANGED <<browser, network, minted, stored>>
  BY DEF StartCall, Resume, TimeOut
<1>3. \A u \in Turns \ {t} : gen'[u] = gen[u]
  BY <1>1 DEF TypeInv, ServerTypes
<1>4. gen[t] \in Gen /\ gen[t].calls \in Seq(Call)
  BY GenFields DEF TypeInv, ServerTypes
<1>5. PICK k : /\ gen'[t] = [gen[t] EXCEPT !.calls = [gen[t].calls EXCEPT ![i] = k]]
               /\ k.tool = gen[t].calls[i].tool
  <2>1. gen[t].calls[i] \in Call
    <3> HIDE DEF Call
    <3> QED
      BY <1>4
  <2>2. CASE gen' = [gen EXCEPT ![t].calls[i].state = s]
    <3> DEFINE k == [gen[t].calls[i] EXCEPT !.state = s]
    <3>1. gen'[t] = [gen[t] EXCEPT !.calls = [gen[t].calls EXCEPT ![i] = k]]
      BY <2>2 DEF TypeInv, ServerTypes
    <3>2. k.tool = gen[t].calls[i].tool
      BY <2>1 DEF Call
    <3> QED
      BY <3>1, <3>2
  <2>3. CASE gen' = [gen EXCEPT ![t].calls[i].state = s, ![t].calls[i].on = c]
    <3> DEFINE k == [gen[t].calls[i] EXCEPT !.state = s, !.on = c]
    <3>1. gen'[t] = [gen[t] EXCEPT !.calls = [gen[t].calls EXCEPT ![i] = k]]
      BY <2>3 DEF TypeInv, ServerTypes
    <3>2. k.tool = gen[t].calls[i].tool
      BY <2>1 DEF Call
    <3> QED
      BY <3>1, <3>2
  <2> QED
    BY <1>1, <2>2, <2>3
<1>6. gen'[t].phase = gen[t].phase /\ gen'[t].calls = [gen[t].calls EXCEPT ![i] = k]
  <2> HIDE DEF Call
  <2> QED
    BY <1>4, <1>5 DEF Gen
<1>7. ToolsOf(gen'[t].calls) = ToolsOf(gen[t].calls)
  <2>1. DOMAIN gen'[t].calls = DOMAIN gen[t].calls
    BY <1>6
  <2>2. \A j \in DOMAIN gen[t].calls : gen'[t].calls[j].tool = gen[t].calls[j].tool
    BY <1>5, <1>6
  <2> QED
    BY <2>1, <2>2 DEF ToolsOf
<1> QED
  BY <1>2, <1>3, <1>6, <1>7

LEMMA RunFeed ==
  ASSUME TypeInv, FeedInv, NEW t \in Turns,
         StartCall(t) \/ \E i \in DOMAIN gen[t].calls : Resume(t, i) \/ TimeOut(t, i)
  PROVE  FeedInv'
<1>1. UNCHANGED <<browser, link, wire, stored>>
  BY RunPhases DEF network
<1>2. \A u \in Turns : gen'[u].phase = gen[u].phase
  BY RunPhases
<1> QED
  BY <1>1, <1>2, WorkingFeed

LEMMA TroubleFeed ==
  ASSUME TypeInv, FeedInv,
         \/ Restart \/ \E t \in Turns, seen \in {"broken", "ended"} : LinkCut(t, seen)
         \/ \E p \in posts : ConfirmArrives(p)
  PROVE  FeedInv'
<1>1. UNCHANGED <<browser, stored, wire>>
  BY DEF Restart, LinkCut, ConfirmArrives, server
<1>2. \A u \in Turns : link[u] = "none" => link'[u] = "none"
  BY DEF Restart, LinkCut, ConfirmArrives, TypeInv, NetworkTypes
<1>3. \A u \in Turns : gen[u].phase \in {"none", "saved"} => gen'[u].phase = gen[u].phase
  BY DEF Restart, LinkCut, ConfirmArrives, server, Live
<1> QED
  BY <1>1, <1>2, <1>3, WorkingFeed

\* A row is added for a turn that has none.
LEMMA SaveFeed ==
  ASSUME TypeInv, FeedInv, NEW t \in Turns, Save(t)
  PROVE  FeedInv'
<1> USE DEF FeedInv
<1>1. /\ UNCHANGED <<browser, wire>> /\ stored' = Append(stored, t) /\ gen[t].phase = "closing"
      /\ gen' = [gen EXCEPT ![t].phase = "saved"]
      /\ link' = [link EXCEPT ![t] = IF @ = "open" THEN "ended" ELSE @]
  BY DEF Save
<1>2. UNCHANGED <<asks, feed, loads, removing>>
  BY <1>1 DEF browser
<1>3. InTurns(feed)' /\ Apart(feed)' /\ Ours' /\ RemovingTurns'
  BY <1>2, SameFeed, OursKept DEF RemovingTurns, Pair
<1>4. gen'[t].phase = "saved" /\ \A u \in Turns \ {t} : gen'[u] = gen[u] /\ link'[u] = link[u]
  BY <1>1 DEF TypeInv, ServerTypes, NetworkTypes, Gen
<1>5. Early'
  BY <1>1, <1>2, <1>4 DEF Early
<1>6. SavedOnce'
  <2> DEFINE n == Len(stored)
  <2>1. stored \in Seq(Turns) /\ n \in Nat /\ DOMAIN stored = 1..n
    BY DEF TypeInv, ServerTypes
  <2>2. /\ DOMAIN stored' = 1..(n + 1) /\ stored'[n + 1] = t
        /\ \A i \in 1..n : stored'[i] = stored[i] /\ stored[i] \in Turns
    BY <1>1, <2>1, AppendProperties
  <2> HIDE DEF n
  <2>3. \A i \in 1..n : stored[i] # t /\ gen[stored[i]].phase = "saved"
    BY <1>1, <2>1 DEF SavedOnce
  <2>4. \A i \in 1..(n + 1) : i = n + 1 \/ i \in 1..n
    BY <2>1
  <2>5. \A i \in 1..(n + 1) : gen'[stored'[i]].phase = "saved"
    BY <1>4, <2>2, <2>3, <2>4
  <2>6. \A i, j \in 1..(n + 1) : stored'[i] = stored'[j] => i = j
    <3>1. \A i, j \in 1..n : stored[i] = stored[j] => i = j
      BY <2>1 DEF SavedOnce, Distinct
    <3> QED
      BY <2>2, <2>3, <2>4, <3>1
  <2> QED
    BY <1>2, <2>2, <2>5, <2>6 DEF SavedOnce, Distinct
<1> QED
  BY <1>3, <1>5, <1>6

LEMMA RowsFeed ==
  ASSUME TypeInv, FeedInv,
         \/ \E s \in loads.asked : LoadAnswered(s)
         \/ \E id \in drops : DropArrives(id)
  PROVE  FeedInv'
<1> USE DEF FeedInv
<1>1. UNCHANGED <<asks, feed, removing, wire, link, gen>>
  BY DEF LoadAnswered, DropArrives, browser, network, server
<1>2. InTurns(feed)' /\ Apart(feed)' /\ Ours' /\ RemovingTurns'
  BY <1>1, SameFeed, OursKept DEF RemovingTurns, Pair
<1>3. Early'
  BY <1>1, EarlyKept
<1>4. stored \in Seq(Turns) /\ \A i, j \in DOMAIN stored : stored[i] = stored[j] => i = j
  BY DEF TypeInv, ServerTypes, SavedOnce, Distinct
<1>5. ASSUME NEW K
      PROVE  LET s == Kept(stored, K)
             IN  Distinct(s) /\ \A i \in DOMAIN s : gen[s[i]].phase = "saved"
  <2> DEFINE s == Kept(stored, K)
  <2>1. /\ \A i, j \in DOMAIN s : s[i] = s[j] => i = j
        /\ \A i \in DOMAIN s : \E k \in DOMAIN stored : s[i] = stored[k]
    BY <1>4, KeptDistinct
  <2> HIDE DEF s
  <2>2. \A i \in DOMAIN s : gen[s[i]].phase = "saved"
    BY <2>1 DEF SavedOnce
  <2>3. Distinct(s)
    BY <2>1 DEF Distinct
  <2> QED
    BY <2>2, <2>3 DEF s
<1>6. ASSUME NEW s \in loads.asked, LoadAnswered(s) PROVE SavedOnce'
  <2> DEFINE K == {i \in DOMAIN stored : asks[stored[i]].session = s}
             rows == Kept(stored, K)
  <2>1. loads'.answers = loads.answers \union {rows} /\ UNCHANGED stored
    BY <1>6 DEF LoadAnswered, server
  <2>2. Distinct(rows)
    BY <1>5
  <2> HIDE DEF rows
  <2> QED
    BY <1>1, <2>1, <2>2 DEF SavedOnce, Distinct
<1>7. ASSUME NEW id \in drops, DropArrives(id) PROVE SavedOnce'
  <2>1. UNCHANGED loads
    BY <1>7 DEF DropArrives, browser
  <2>2. CASE UNCHANGED stored
    BY <1>1, <2>1, <2>2 DEF SavedOnce, Distinct
  <2>3. CASE stored' = Kept(stored, {i \in DOMAIN stored : stored[i] # id[1]})
    <3> DEFINE rows == Kept(stored, {i \in DOMAIN stored : stored[i] # id[1]})
    <3>1. Distinct(rows) /\ \A i \in DOMAIN rows : gen[rows[i]].phase = "saved"
      BY <1>5
    <3>2. stored' = rows
      BY <2>3
    <3> HIDE DEF rows
    <3> QED
      BY <1>1, <2>1, <3>1, <3>2 DEF SavedOnce, Distinct
  <2> QED
    BY <1>7, <2>2, <2>3 DEF DropArrives
<1> QED
  BY <1>2, <1>3, <1>6, <1>7

LEMMA FeedStep == TypeInv /\ FeedInv /\ [Next]_vars => FeedInv'
<1> SUFFICES ASSUME TypeInv, FeedInv, [Next]_vars PROVE FeedInv'
  OBVIOUS
<1>1. CASE Next
  BY <1>1, StepCases, AskingFeed, StreamFeed, AgentFeed, SaveFeed, RunFeed, TroubleFeed, RowsFeed,
     PageFeed, MountingFeed
<1>2. CASE UNCHANGED vars
  BY <1>2, WorkingFeed DEF vars, network, server
<1> QED
  BY <1>1, <1>2

LEMMA FeedHolds == Spec => [](TypeInv /\ FeedInv)
<1>1. Init => TypeInv /\ FeedInv
  BY InitTypes, InitFeed
<1>2. TypeInv /\ FeedInv /\ [Next]_vars => (TypeInv /\ FeedInv)'
  BY TypeStep, FeedStep
<1> QED
  BY <1>1, <1>2, PTL DEF Spec

(* No message is shown twice, and every question is directly followed by its *)
(* answer, whatever loads, streams, deletions and new pages did to the feed  *)
(* in between: the answer to a load puts the stored turns first and keeps    *)
(* the rest as whole turns (useChat.loadMessages), a deletion removes a      *)
(* whole turn although it was computed when the button was clicked, and a    *)
(* turn is saved once, so that no load brings it twice.                      *)
THEOREM FeedStaysInTurns == Spec => []FeedInTurns
BY FeedHolds, FeedFollows, PTL

LEMMA StayStep ==
  ASSUME TypeInv, FeedInv, [Next]_vars
  PROVE  \A x \in Ids(feed) : \/ x \in Ids(feed')
                              \/ \E d \in removing : x \in d.ids
                              \/ Mount(route')
<1> SUFFICES ASSUME NEW x \in Ids(feed),
                    \A d \in removing : x \notin d.ids, ~Mount(route')
             PROVE  x \in Ids(feed')
  OBVIOUS
<1>0. /\ feed \in Seq(Message) /\ DOMAIN feed = 1..Len(feed) /\ Len(feed) \in Nat
      /\ InTurns(feed) /\ Apart(feed)
  BY DEF TypeInv, FeedTypes, FeedInv
<1>1. CASE UNCHANGED feed
  BY <1>1
<1>2. ASSUME NEW t \in Turns, NEW s, NEW here, BeginStream(t, s, here) PROVE x \in Ids(feed')
  <2> DEFINE new == <<UserMessage(t, "local"), AssistantMessage(t, "local")>>
  <2>1. CASE feed' = feed \o new
    <3>1. new \in Seq(Message)
      BY NewTurn
    <3> HIDE DEF new
    <3>2. /\ Len(feed') = Len(feed) + Len(new) /\ Len(new) \in Nat
          /\ \A i \in 1..(Len(feed) + Len(new)) :
               feed'[i] = IF i <= Len(feed) THEN feed[i] ELSE new[i - Len(feed)]
      BY <1>0, <2>1, <3>1, ConcatProperties
    <3>3. \A i \in 1..Len(feed) : i \in 1..Len(feed') /\ feed'[i] = feed[i]
      BY <1>0, <3>2
    <3> QED
      BY <3>3 DEF Ids
  <2> QED
    BY <1>1, <1>2, <2>1 DEF BeginStream
<1>3. ASSUME NEW t \in Turns, NEW e \in Written, Write(t, e) PROVE x \in Ids(feed')
  <2>1. Len(feed') = Len(feed) /\ \A i \in DOMAIN feed : Id(feed'[i]) = Id(feed[i])
    BY <1>3, WriteFeed DEF TypeInv
  <2> QED
    BY <1>0, <2>1 DEF Ids
<1>4. ASSUME NEW a \in loads.answers, Loaded(a) PROVE x \in Ids(feed')
  BY <1>4, MergeFeed DEF Loaded
<1>5. ASSUME NEW d \in removing, FinishDelete(d) PROVE x \in Ids(feed')
  <2>1. feed' = Without(feed, d.ids) /\ x \notin d.ids
    BY <1>5 DEF FinishDelete
  <2> QED
    BY <2>1, FinishedFeed
<1>6. Reload \/ (\E s \in Sessions \union {None} : Visit(s)) => FALSE
  <2>1. \A s : Mount(s) => Mount(route')
    BY DEF Mount
  <2> QED
    BY <2>1 DEF Reload, Visit
<1>7. ASSUME Next PROVE x \in Ids(feed')
  <2>1. CASE Ask
    BY <1>2, <2>1, NextTurnUnasked DEF Ask
  <2>2. ASSUME NEW t \in Turns, CreateSucceeds(t) PROVE x \in Ids(feed')
    BY <1>2, <2>2 DEF CreateSucceeds
  <2>3. ASSUME NEW t \in Turns,
               Connect(t) \/ ConnectFails(t) \/ Read(t) \/ ReadEnds(t) \/ ReadFails(t)
        PROVE  x \in Ids(feed')
    <3>1. CASE Connect(t) \/ ReadEnds(t)
      BY <1>1, <3>1 DEF Connect, ReadEnds
    <3>2. CASE Read(t)
      <4>1. wire[t] \in Written
        BY <3>2 DEF Read, Written, TypeInv, NetworkTypes
      <4> QED
        BY <1>3, <3>2, <4>1 DEF Read, Handle
    <3>3. CASE Catch(t)
      <4>1. [type |-> "error"] \in Written
        BY DEF Written
      <4> QED
        BY <1>3, <3>3, <4>1 DEF Catch
    <3> QED
      BY <2>3, <3>1, <3>2, <3>3 DEF ConnectFails, ReadFails
  <2>4. UNCHANGED browser => UNCHANGED feed
    BY DEF browser
  <2>5. ASSUME \/ AskNew \/ \E t \in Turns : CreateFails(t)
               \/ \E t \in Turns : LlmAnswers(t) \/ LlmGivesUp(t) \/ EndRound(t) \/ Save(t)
               \/ \E t \in Turns : \E tools \in Rounds : LlmCallsTools(t, tools)
               \/ \E t \in Turns : \/ StartCall(t)
                                   \/ \E i \in DOMAIN gen[t].calls : Resume(t, i) \/ TimeOut(t, i)
               \/ \E t \in Turns : Cancel(t)
               \/ \E p \in posts : ConfirmArrives(p)
               \/ \E s \in loads.asked : LoadAnswered(s)
               \/ \E id \in drops : DropArrives(id)
               \/ \E yes \in BOOLEAN : Confirm(yes)
               \/ \E i \in DOMAIN feed : ClickDelete(i)
               \/ Logout \/ Login
               \/ Restart \/ \E t \in Turns, seen \in {"broken", "ended"} : LinkCut(t, seen)
        PROVE  UNCHANGED feed
    BY <2>4, <2>5 DEF AskNew, CreateFails, LlmAnswers, LlmGivesUp, EndRound, Save, LlmCallsTools,
       StartCall, Resume, TimeOut, Cancel, ConfirmArrives, LoadAnswered, DropArrives, Confirm,
       ClickDelete, Logout, Login, Restart, LinkCut
  <2> QED
    BY <1>1, <1>4, <1>5, <1>6, <1>7, <2>1, <2>2, <2>3, <2>5, StepCases
<1> QED
  BY <1>1, <1>7 DEF vars, browser

(* A message leaves the page that shows it only if it was marked for         *)
(* deletion: no answer to a load, however late, takes a question away that   *)
(* was sent in between (the merge in useChat.loadMessages), and a deletion   *)
(* removes nothing but what it was computed to remove.                       *)
THEOREM MessagesNeverLost == Spec => MessagesStay
<1> DEFINE Stay == \A x \in Ids(feed) : \/ x \in Ids(feed')
                                        \/ \E d \in removing : x \in d.ids
                                        \/ Mount(route')
<1>1. (TypeInv /\ FeedInv) /\ [Next]_vars => [Stay]_vars
  BY StayStep
<1> QED
  BY <1>1, FeedHolds, PTL DEF Spec, MessagesStay

----------------------------------------------------------------------------
(* Tools shown as running *)

Settled(m) == m.text \in {"answer", "excuse"}
Answer(m) == m.role = "assistant" /\ m.copy = "local"

\* An answer m keeps up with its stream: with the event e under way on a
\* connection in state l, from a server in phase p of a round of the tools T.
\* On an open connection every tool shown as running is one of the round, and
\* its end is under way once the round is over.
Goes(m, e, l, p, T) ==
  /\ Settled(m) => m.running = {} /\ e.type # "calls"
  /\ e.type = "done" => m.running = {}
  /\ p = "none" => m.running = {} /\ ~Settled(m) /\ e = Nothing
  /\ l = "none" => m.running = {} /\ e = Nothing
  /\ l = "open" =>
       \/ /\ p = "llm" /\ ~Settled(m) /\ e.type \in {"nothing", "ends"}
          /\ m.running \subseteq IF e.type = "ends" THEN e.tools ELSE {}
       \/ /\ p = "tools" /\ ~Settled(m) /\ e.type \in {"nothing", "calls"}
          /\ m.running \subseteq T /\ (e.type = "calls" => e.tools \subseteq T)
       \/ p = "closing" /\ m.running = {} /\ e.type \in {"nothing", "done"}

SettledInv ==
  \A i \in DOMAIN feed :
    IF Answer(feed[i])
    THEN LET t == feed[i].turn
         IN  Goes(feed[i], wire[t], link[t], gen[t].phase, ToolsOf(gen[t].calls))
    ELSE feed[i].running = {}

LEMMA SettledFollows == TypeInv /\ SettledInv => ShownToolsRun
<1> SUFFICES ASSUME TypeInv, SettledInv, NEW i \in DOMAIN feed, feed[i].running # {}
             PROVE  LET m == feed[i]
                        t == m.turn
                    IN /\ m.text \notin {"answer", "excuse"}
                       /\ \/ gen[t].phase = "tools" /\ m.running \subseteq ToolsOf(gen[t].calls)
                          \/ wire[t].type = "ends" /\ m.running \subseteq wire[t].tools
                          \/ link[t] \in {"ended", "broken"}
  BY DEF ShownToolsRun
<1> DEFINE t == feed[i].turn
<1>0. feed[i] \in Message
  BY DEF TypeInv, FeedTypes
<1>1. link[t] \in {"none", "open", "ended", "broken"}
  BY <1>0 DEF TypeInv, NetworkTypes, Message
<1>2. Goes(feed[i], wire[t], link[t], gen[t].phase, ToolsOf(gen[t].calls))
  BY DEF SettledInv
<1> QED
  BY <1>1, <1>2 DEF Goes, Settled

LEMMA InitSettled == Init => SettledInv
<1>1. Init => feed = <<>>
  BY DEF Init
<1>2. feed = <<>> => SettledInv
  BY DEF SettledInv
<1> QED
  BY <1>1, <1>2

\* A step that leaves the feed alone, or only takes messages away
LEMMA QuietSettled ==
  ASSUME TypeInv, SettledInv,
         \A i \in DOMAIN feed' : \/ feed'[i].running = {} /\ ~Answer(feed'[i])
                                 \/ \E k \in DOMAIN feed : feed'[i] = feed[k],
         \A m \in Message, t \in Turns :
           Goes(m, wire[t], link[t], gen[t].phase, ToolsOf(gen[t].calls)) =>
             Goes(m, wire'[t], link'[t], gen'[t].phase, ToolsOf(gen'[t].calls))
  PROVE  SettledInv'
<1> SUFFICES ASSUME NEW i \in DOMAIN feed'
             PROVE  IF Answer(feed'[i])
                    THEN LET t == feed'[i].turn
                         IN  Goes(feed'[i], wire'[t], link'[t], gen'[t].phase, ToolsOf(gen'[t].calls))
                    ELSE feed'[i].running = {}
  BY DEF SettledInv, Answer, Goes, Settled, ToolsOf
<1>1. CASE \E k \in DOMAIN feed : feed'[i] = feed[k]
  <2>1. PICK k \in DOMAIN feed : feed'[i] = feed[k]
    BY <1>1
  <2>2. feed[k] \in Message /\ feed[k].turn \in Turns
    <3>1. feed[k] \in Message
      BY DEF TypeInv, FeedTypes
    <3> QED
      BY <3>1, MessageFields
  <2> QED
    BY <2>1, <2>2 DEF SettledInv
<1> QED
  BY <1>1

\* The ways in which the stream goes on
LEMMA GoesLost ==
  ASSUME NEW m \in Message, NEW e, NEW l, NEW p, NEW T, Goes(m, e, l, p, T),
         NEW e1 \in {e, Nothing}, NEW l1, NEW p1, NEW T1,
         l1 # "open", p1 = "none" => p = "none", l1 = "none" => l = "none"
  PROVE  Goes(m, e1, l1, p1, T1)
BY DEF Goes, Nothing

LEMMA GoesDone ==
  ASSUME NEW m \in Message, NEW T, NEW a, NEW T1, Goes(m, Nothing, "open", "llm", T)
  PROVE  Goes(m, Done(a), "open", "closing", T1)
BY DEF Goes, Nothing, Done, Message

LEMMA GoesCalls ==
  ASSUME NEW m \in Message, NEW T, NEW T1, NEW a, Goes(m, Nothing, "open", "llm", T)
  PROVE  Goes(m, [type |-> "calls", tools |-> T1, asked |-> a], "open", "tools", T1)
BY DEF Goes, Nothing, Message

LEMMA GoesEnds ==
  ASSUME NEW m \in Message, NEW T, NEW T1, Goes(m, Nothing, "open", "tools", T)
  PROVE  Goes(m, [type |-> "ends", tools |-> T], "open", "llm", T1)
BY DEF Goes, Nothing, Message

LEMMA GoesConnected ==
  ASSUME NEW m \in Message, NEW l, NEW T, NEW T1, Goes(m, Nothing, l, "none", T)
  PROVE  Goes(m, Nothing, "open", "llm", T1)
BY DEF Goes, Nothing, Message

\* What the page makes of an event
LEMMA GoesRead ==
  ASSUME NEW m \in Message, NEW e \in Events, NEW l, NEW p, NEW T, Goes(m, e, l, p, T)
  PROVE  Goes(Changed(m, e), Nothing, l, p, T)
<1>1. CASE e \in CallsEvents
  <2>1. e.type = "calls" /\ Changed(m, e) = [m EXCEPT !.running = @ \union (e.tools \ m.ended)]
    BY <1>1 DEF CallsEvents, Changed
  <2>2. Changed(m, e).running = m.running \union (e.tools \ m.ended) /\ Changed(m, e).text = m.text
    BY <2>1 DEF Message
  <2> QED
    BY <2>1, <2>2 DEF Goes, Settled, Nothing
<1>2. CASE e \in EndsEvents
  <2>1. e.type = "ends" /\ Changed(m, e) = [m EXCEPT !.running = @ \ e.tools, !.ended = @ \union e.tools]
    BY <1>2 DEF EndsEvents, Changed
  <2>2. Changed(m, e).running = m.running \ e.tools /\ Changed(m, e).text = m.text
    BY <2>1 DEF Message
  <2> QED
    BY <2>1, <2>2 DEF Goes, Settled, Nothing
<1>3. CASE e \in DoneEvents
  <2>1. e.type = "done" /\ Changed(m, e) = [m EXCEPT !.text = e.answer, !.streaming = FALSE]
    BY <1>3 DEF DoneEvents, Changed
  <2>2. Changed(m, e).running = m.running
    BY <2>1 DEF Message
  <2> QED
    BY <2>1, <2>2 DEF Goes, Settled, Nothing
<1> QED
  BY <1>1, <1>2, <1>3 DEF Events

LEMMA GoesError ==
  ASSUME NEW m \in Message, NEW e, NEW l, NEW p, NEW T, Goes(m, e, l, p, T),
         NEW e1 \in {e, Nothing}, l # "open"
  PROVE  Goes(Changed(m, [type |-> "error"]), e1, l, p, T)
<1> DEFINE c == Changed(m, [type |-> "error"])
<1>1. c = [m EXCEPT !.text = "error", !.streaming = FALSE]
  BY DEF Changed
<1>2. c.running = m.running /\ c.text = "error"
  BY <1>1 DEF Message
<1> HIDE DEF c
<1>3. Goes(c, e1, l, p, T)
  BY <1>2 DEF Goes, Settled, Nothing
<1> QED
  BY <1>3 DEF c

\* A write of the handler of turn t changes the answer of t.
LEMMA WriteSettled ==
  ASSUME TypeInv, FeedInv, SettledInv, NEW t \in Turns, NEW e \in Written, Write(t, e),
         UNCHANGED gen,
         \A u \in Turns \ {t} : wire'[u] = wire[u] /\ link'[u] = link[u],
         \A m \in Message :
           Goes(m, wire[t], link[t], gen[t].phase, ToolsOf(gen[t].calls)) =>
             Goes(Changed(m, e), wire'[t], link'[t], gen[t].phase, ToolsOf(gen[t].calls))
  PROVE  SettledInv'
<1> SUFFICES ASSUME NEW i \in DOMAIN feed'
             PROVE  IF Answer(feed'[i])
                    THEN LET u == feed'[i].turn
                         IN  Goes(feed'[i], wire'[u], link'[u], gen'[u].phase, ToolsOf(gen'[u].calls))
                    ELSE feed'[i].running = {}
  BY DEF SettledInv, Answer, Goes, Settled, ToolsOf
<1>1. /\ i \in DOMAIN feed
      /\ feed'[i] = IF asks[t].here /\ Id(feed[i]) = <<t, "assistant", "local">>
                    THEN Changed(feed[i], e) ELSE feed[i]
      /\ feed'[i].turn = feed[i].turn /\ feed'[i].role = feed[i].role
      /\ feed'[i].copy = feed[i].copy
  BY WriteFeed DEF TypeInv
<1>2. feed[i] \in Message
  BY <1>1 DEF TypeInv, FeedTypes
<1>3. feed[i].turn \in Turns /\ Id(feed[i]) = <<feed[i].turn, feed[i].role, feed[i].copy>>
  BY <1>2, MessageFields
<1>4. CASE Answer(feed[i]) /\ feed[i].turn = t
  <2>1. asks[t].here
    BY <1>1, <1>4 DEF FeedInv, Ours, Answer
  <2>2. feed'[i] = Changed(feed[i], e)
    BY <1>1, <1>3, <1>4, <2>1 DEF Answer
  <2>3. Goes(feed[i], wire[t], link[t], gen[t].phase, ToolsOf(gen[t].calls))
    BY <1>1, <1>4 DEF SettledInv
  <2>4. Goes(feed'[i], wire'[t], link'[t], gen[t].phase, ToolsOf(gen[t].calls))
    BY <1>2, <2>2, <2>3
  <2>5. Answer(feed'[i]) /\ feed'[i].turn = t
    BY <1>1, <1>4 DEF Answer
  <2> QED
    BY <2>4, <2>5
<1>5. CASE ~(Answer(feed[i]) /\ feed[i].turn = t)
  <2>1. feed'[i] = feed[i]
    BY <1>1, <1>3, <1>5 DEF Answer
  <2>2. CASE Answer(feed[i])
    <3>1. feed[i].turn \in Turns \ {t}
      BY <1>3, <1>5, <2>2
    <3>2. Goes(feed[i], wire[feed[i].turn], link[feed[i].turn], gen[feed[i].turn].phase,
               ToolsOf(gen[feed[i].turn].calls))
      BY <1>1, <2>2 DEF SettledInv
    <3> QED
      BY <2>1, <2>2, <3>1, <3>2
  <2>3. CASE ~Answer(feed[i])
    BY <1>1, <2>1, <2>3 DEF SettledInv
  <2> QED
    BY <2>2, <2>3
<1> QED
  BY <1>4, <1>5

\* Questions and rows are shown without tools.
LEMMA RowsIdle ==
  ASSUME TypeInv, NEW ts \in Seq(Turns)
  PROVE  \A i \in DOMAIN Rows(ts) : Rows(ts)[i].running = {} /\ ~Answer(Rows(ts)[i])
<1> SUFFICES ASSUME NEW i \in DOMAIN Rows(ts)
             PROVE  Rows(ts)[i].running = {} /\ ~Answer(Rows(ts)[i])
  OBVIOUS
<1>1. i \in 1..(2 * Len(ts))
  BY DEF Rows
<1>2. PICK k \in 1..Len(ts) : i = 2 * k - 1 \/ i = 2 * k
  BY <1>1, RowsMessages
<1>3. \/ Rows(ts)[i] = UserMessage(ts[k], "stored")
      \/ Rows(ts)[i] = AssistantMessage(ts[k], "stored")
  BY <1>2, RowsMessages
<1> QED
  BY <1>3 DEF UserMessage, AssistantMessage, Answer

LEMMA BeginSettled ==
  ASSUME TypeInv, FeedInv, SettledInv, NEW t \in Turns, NEW s, NEW here \in BOOLEAN,
         asks[t].pc \in {"unused", "creating"}, BeginStream(t, s, here),
         UNCHANGED <<wire, link, gen>>
  PROVE  SettledInv'
<1> DEFINE u == UserMessage(t, "local")
           a == AssistantMessage(t, "local")
           new == <<u, a>>
<1>0. ASSUME UNCHANGED feed PROVE SettledInv'
  BY <1>0, QuietSettled
<1>1. CASE feed' = feed \o new
  <2>1. new \in Seq(Message) /\ feed \in Seq(Message) /\ Len(new) = 2 /\ new[1] = u /\ new[2] = a
    BY NewTurn DEF TypeInv, FeedTypes
  <2>2. gen[t].phase = "none" /\ link[t] = "none" /\ wire[t] = Nothing
    BY DEF FeedInv, Early
  <2>3. u.running = {} /\ ~Answer(u)
    BY DEF UserMessage, Answer
  <2>4. /\ a.turn = t /\ Answer(a)
        /\ \A T : Goes(a, wire[t], link[t], gen[t].phase, T)
    BY <2>2 DEF AssistantMessage, Answer, Goes, Settled, Nothing
  <2> HIDE DEF new, u, a
  <2>5. /\ Len(feed) \in Nat /\ DOMAIN feed' = 1..(Len(feed) + 2) /\ DOMAIN feed = 1..Len(feed)
        /\ \A i \in 1..(Len(feed) + 2) :
             feed'[i] = IF i <= Len(feed) THEN feed[i] ELSE new[i - Len(feed)]
    <3>1. feed' \in Seq(Message) /\ Len(feed') = Len(feed) + Len(new)
      BY <1>1, <2>1, ConcatProperties
    <3>2. \A i \in 1..(Len(feed) + Len(new)) :
            feed'[i] = IF i <= Len(feed) THEN feed[i] ELSE new[i - Len(feed)]
      BY <1>1, <2>1, ConcatProperties
    <3>3. Len(feed) \in Nat /\ DOMAIN feed = 1..Len(feed) /\ DOMAIN feed' = 1..Len(feed')
      BY <2>1, <3>1
    <3> QED
      BY <2>1, <3>1, <3>2, <3>3
  <2>6. ASSUME NEW i \in DOMAIN feed'
        PROVE  IF Answer(feed'[i])
               THEN LET v == feed'[i].turn
                    IN  Goes(feed'[i], wire[v], link[v], gen[v].phase, ToolsOf(gen[v].calls))
               ELSE feed'[i].running = {}
    <3>1. CASE i \in DOMAIN feed /\ feed'[i] = feed[i]
      BY <3>1 DEF SettledInv
    <3>2. CASE feed'[i] = u
      BY <2>3, <3>2
    <3>3. CASE feed'[i] = a
      BY <2>4, <3>3
    <3>4. i \in 1..Len(feed) \/ i = Len(feed) + 1 \/ i = Len(feed) + 2
      BY <2>5
    <3>5. i \in 1..Len(feed) => feed'[i] = feed[i]
      BY <2>5
    <3>6. i = Len(feed) + 1 => feed'[i] = u
      BY <2>1, <2>5
    <3>7. i = Len(feed) + 2 => feed'[i] = a
      BY <2>1, <2>5
    <3> QED
      BY <2>5, <3>1, <3>2, <3>3, <3>4, <3>5, <3>6, <3>7
  <2> QED
    BY <2>6 DEF SettledInv, Answer, Goes, Settled, ToolsOf
<1> QED
  BY <1>0, <1>1 DEF BeginStream

LEMMA AskingSettled ==
  ASSUME TypeInv, FeedInv, SettledInv,
         Ask \/ AskNew \/ \E t \in Turns : CreateSucceeds(t) \/ CreateFails(t)
  PROVE  SettledInv'
<1>1. UNCHANGED <<wire, link, gen>>
  BY DEF Ask, AskNew, CreateSucceeds, CreateFails, network, server
<1>2. CASE Ask
  BY <1>1, <1>2, NextTurnUnasked, BeginSettled DEF Ask
<1>3. ASSUME NEW t \in Turns, CreateSucceeds(t) PROVE SettledInv'
  <2>1. asks[t].here \in BOOLEAN
    BY AskFields
  <2> QED
    BY <1>1, <1>3, <2>1, BeginSettled DEF CreateSucceeds
<1>4. ASSUME UNCHANGED feed PROVE SettledInv'
  BY <1>1, <1>4, QuietSettled
<1> QED
  BY <1>2, <1>3, <1>4 DEF AskNew, CreateFails

LEMMA StreamSettled ==
  ASSUME TypeInv, FeedInv, SettledInv, NEW t \in Turns,
         Connect(t) \/ ConnectFails(t) \/ Read(t) \/ ReadEnds(t) \/ ReadFails(t)
  PROVE  SettledInv'
<1>1. CASE Connect(t)
  <2>1. /\ gen' = [gen EXCEPT ![t].phase = "llm"] /\ link' = [link EXCEPT ![t] = "open"]
        /\ UNCHANGED <<feed, wire>> /\ asks[t].pc = "connecting"
    BY <1>1 DEF Connect
  <2>2. gen[t].phase = "none" /\ wire[t] = Nothing
    BY <2>1 DEF FeedInv, Early
  <2>3. /\ gen'[t].phase = "llm" /\ link'[t] = "open"
        /\ \A u \in Turns \ {t} : gen'[u] = gen[u] /\ link'[u] = link[u]
    BY <2>1 DEF TypeInv, ServerTypes, NetworkTypes, Gen
  <2>4. ASSUME NEW m \in Message, NEW u \in Turns,
               Goes(m, wire[u], link[u], gen[u].phase, ToolsOf(gen[u].calls))
        PROVE  Goes(m, wire'[u], link'[u], gen'[u].phase, ToolsOf(gen'[u].calls))
    <3>1. CASE u = t
      BY <2>1, <2>2, <2>3, <2>4, <3>1, GoesConnected
    <3>2. CASE u # t
      BY <2>1, <2>3, <2>4, <3>2
    <3> QED
      BY <3>1, <3>2
  <2> QED
    BY <2>1, <2>4, QuietSettled
<1>2. CASE ReadEnds(t)
  <2>1. UNCHANGED <<feed, wire, link, gen>>
    BY <1>2 DEF ReadEnds, network, server
  <2> QED
    BY <2>1, QuietSettled
<1>3. CASE Read(t)
  <2>1. wire[t] \in Events /\ wire[t] \in Written
    BY <1>3 DEF Read, Written, TypeInv, NetworkTypes
  <2>2. Write(t, wire[t]) /\ UNCHANGED <<gen, link>> /\ wire' = [wire EXCEPT ![t] = Nothing]
    BY <1>3 DEF Read, Handle, server
  <2>3. wire'[t] = Nothing /\ \A u \in Turns \ {t} : wire'[u] = wire[u]
    BY <2>2 DEF TypeInv, NetworkTypes
  <2>4. \A m \in Message :
           Goes(m, wire[t], link[t], gen[t].phase, ToolsOf(gen[t].calls)) =>
             Goes(Changed(m, wire[t]), wire'[t], link'[t], gen[t].phase, ToolsOf(gen[t].calls))
    BY <2>1, <2>2, <2>3, GoesRead
  <2> QED
    BY <2>1, <2>2, <2>3, <2>4, WriteSettled
<1>4. CASE ConnectFails(t) \/ ReadFails(t)
  <2> DEFINE e == [type |-> "error"]
  <2>1. e \in Written
    BY DEF Written
  <2>2. Write(t, e) /\ UNCHANGED <<gen, link>>
    BY <1>4 DEF ConnectFails, ReadFails, Catch, network, server
  <2>3. wire'[t] \in {wire[t], Nothing} /\ \A u \in Turns \ {t} : wire'[u] = wire[u]
    BY <1>4 DEF ConnectFails, ReadFails, network, TypeInv, NetworkTypes
  <2>4. link[t] # "open"
    <3>1. asks[t].pc = "connecting" => link[t] = "none"
      BY DEF FeedInv, Early
    <3> QED
      BY <1>4, <3>1 DEF ConnectFails, ReadFails
  <2>5. \A m \in Message :
           Goes(m, wire[t], link[t], gen[t].phase, ToolsOf(gen[t].calls)) =>
             Goes(Changed(m, e), wire'[t], link'[t], gen[t].phase, ToolsOf(gen[t].calls))
    BY <2>2, <2>3, <2>4, GoesError
  <2> HIDE DEF e
  <2> QED
    BY <2>1, <2>2, <2>3, <2>5, WriteSettled
<1> QED
  BY <1>1, <1>2, <1>3, <1>4

LEMMA PageSettled ==
  ASSUME TypeInv, FeedInv, SettledInv,
         \/ \E yes \in BOOLEAN : Confirm(yes)
         \/ \E i \in DOMAIN feed : ClickDelete(i)
         \/ Logout \/ Login
         \/ \E a \in loads.answers : Loaded(a)
         \/ \E d \in removing : FinishDelete(d)
  PROVE  SettledInv'
<1>1. UNCHANGED <<wire, link, gen>>
  BY DEF Confirm, ClickDelete, Logout, Login, Loaded, FinishDelete, network, server
<1>2. ASSUME UNCHANGED feed PROVE SettledInv'
  BY <1>1, <1>2, QuietSettled
<1>3. ASSUME NEW a \in loads.answers, Loaded(a) PROVE SettledInv'
  <2> DEFINE rows == Rows(a)
             rest == Without(feed, Ids(rows))
  <2>1. a \in Seq(Turns) /\ Distinct(a)
    BY DEF TypeInv, PageTypes, FeedInv, SavedOnce
  <2>2. /\ rows \in Seq(Message) /\ InTurns(rows)
        /\ \A i \in DOMAIN rows : rows[i].running = {} /\ ~Answer(rows[i])
    BY <2>1, RowsTurns, RowsIdle
  <2>3. feed' = rows \o rest
    BY <1>3 DEF Loaded, Merge
  <2> HIDE DEF rows
  <2>4. /\ rest \in Seq(Message) /\ \A i \in DOMAIN rest : \E k \in DOMAIN feed : rest[i] = feed[k]
    <3>1. Paired(Ids(rows)) /\ feed \in Seq(Message) /\ InTurns(feed) /\ Apart(feed)
      BY <2>2, TurnsPaired DEF TypeInv, FeedTypes, FeedInv
    <3> QED
      BY <3>1, WithoutTurns
  <2> HIDE DEF rest
  <2>5. ASSUME NEW i \in DOMAIN feed'
        PROVE  \/ feed'[i].running = {} /\ ~Answer(feed'[i])
               \/ \E k \in DOMAIN feed : feed'[i] = feed[k]
    <3>1. /\ feed' \in Seq(Message) /\ Len(feed') = Len(rows) + Len(rest)
          /\ \A j \in 1..(Len(rows) + Len(rest)) :
               feed'[j] = IF j <= Len(rows) THEN rows[j] ELSE rest[j - Len(rows)]
      BY <2>2, <2>3, <2>4, ConcatProperties
    <3>2. /\ i \in 1..(Len(rows) + Len(rest)) /\ Len(rows) \in Nat /\ Len(rest) \in Nat
          /\ DOMAIN rows = 1..Len(rows) /\ DOMAIN rest = 1..Len(rest)
      BY <2>2, <2>4, <3>1
    <3>3. \/ i \in DOMAIN rows /\ feed'[i] = rows[i]
          \/ i - Len(rows) \in DOMAIN rest /\ feed'[i] = rest[i - Len(rows)]
      BY <3>1, <3>2
    <3> QED
      BY <2>2, <2>4, <3>3
  <2> QED
    BY <1>1, <2>5, QuietSettled
<1>4. ASSUME NEW d \in removing, FinishDelete(d) PROVE SettledInv'
  <2> DEFINE rest == Without(feed, d.ids)
  <2>1. Paired(d.ids) /\ feed \in Seq(Message) /\ InTurns(feed) /\ Apart(feed)
    BY PairPaired DEF FeedInv, RemovingTurns, TypeInv, FeedTypes
  <2>2. \A i \in DOMAIN rest : \E k \in DOMAIN feed : rest[i] = feed[k]
    BY <2>1, WithoutTurns
  <2>3. feed' = rest
    BY <1>4 DEF FinishDelete
  <2> HIDE DEF rest
  <2> QED
    BY <1>1, <2>2, <2>3, QuietSettled
<1> QED
  BY <1>2, <1>3, <1>4 DEF Confirm, ClickDelete, Logout, Login

LEMMA MountingSettled ==
  ASSUME Reload \/ \E s \in Sessions \union {None} : Visit(s)
  PROVE  SettledInv'
<1>1. \E s : Mount(s)
  BY DEF Reload, Visit
<1>2. feed' = <<>>
  BY <1>1 DEF Mount
<1> QED
  BY <1>2 DEF SettledInv

\* The server writes: the event is under way, or lost with its connection.
LEMMA EmitSettled ==
  ASSUME TypeInv, SettledInv, NEW t \in Turns, NEW e, Emit(t, e), UNCHANGED <<browser, link>>,
         \A u \in Turns \ {t} : gen'[u] = gen[u],
         gen'[t].phase # "none",
         \A m \in Message :
           Goes(m, Nothing, "open", gen[t].phase, ToolsOf(gen[t].calls)) =>
             Goes(m, e, "open", gen'[t].phase, ToolsOf(gen'[t].calls))
  PROVE  SettledInv'
<1>1. UNCHANGED feed
  BY DEF browser
<1>2. ASSUME NEW m \in Message, NEW u \in Turns,
             Goes(m, wire[u], link[u], gen[u].phase, ToolsOf(gen[u].calls))
      PROVE  Goes(m, wire'[u], link'[u], gen'[u].phase, ToolsOf(gen'[u].calls))
  <2>1. CASE u # t
    BY <1>2, <2>1, EmitOthers
  <2>2. CASE u = t /\ link[t] = "open"
    <3>1. wire[t] = Nothing /\ wire'[t] = e
      BY <2>2 DEF Emit, TypeInv, NetworkTypes
    <3> QED
      BY <1>2, <2>2, <3>1
  <2>3. CASE u = t /\ link[t] # "open"
    <3>1. wire' = wire
      BY <2>3 DEF Emit
    <3> QED
      BY <1>2, <2>3, <3>1, GoesLost
  <2> QED
    BY <2>1, <2>2, <2>3
<1> QED
  BY <1>1, <1>2, QuietSettled

LEMMA AgentSettled ==
  ASSUME TypeInv, SettledInv, NEW t \in Turns,
         \/ LlmAnswers(t) \/ LlmGivesUp(t) \/ EndRound(t)
         \/ \E tools \in Rounds : LlmCallsTools(t, tools)
  PROVE  SettledInv'
<1>1. gen[t] \in Gen
  BY DEF TypeInv, ServerTypes
<1>2. CASE LlmAnswers(t) \/ LlmGivesUp(t)
  <2>1. PICK a : Emit(t, Done(a))
    BY <1>2 DEF LlmAnswers, LlmGivesUp
  <2>2. /\ gen[t].phase = "llm" /\ gen'[t].phase = "closing"
        /\ \A u \in Turns \ {t} : gen'[u] = gen[u]
        /\ UNCHANGED <<browser, link>>
    <3>1. gen[t].phase = "llm" /\ UNCHANGED <<browser, link>>
      BY <1>2 DEF LlmAnswers, LlmGivesUp
    <3>2. \/ gen' = [gen EXCEPT ![t] = [gen[t] EXCEPT !.phase = "closing", !.said = "answer"]]
          \/ gen' = [gen EXCEPT ![t] = [gen[t] EXCEPT !.phase = "closing"]]
      BY <1>2 DEF LlmAnswers, LlmGivesUp
    <3>3. /\ [gen[t] EXCEPT !.phase = "closing", !.said = "answer"].phase = "closing"
          /\ [gen[t] EXCEPT !.phase = "closing"].phase = "closing"
      BY <1>1 DEF Gen
    <3> QED
      BY <3>1, <3>2, <3>3 DEF TypeInv, ServerTypes
  <2> QED
    BY <2>1, <2>2, GoesDone, EmitSettled
<1>3. CASE EndRound(t)
  <2> DEFINE e == [type |-> "ends", tools |-> ToolsOf(gen[t].calls)]
  <2>1. Emit(t, e)
    BY <1>3 DEF EndRound
  <2>2. /\ gen[t].phase = "tools" /\ gen'[t].phase = "llm"
        /\ \A u \in Turns \ {t} : gen'[u] = gen[u]
        /\ UNCHANGED <<browser, link>>
    BY <1>1, <1>3 DEF EndRound, TypeInv, ServerTypes, Gen
  <2>3. \A m \in Message : Goes(m, Nothing, "open", gen[t].phase, ToolsOf(gen[t].calls)) =>
                             Goes(m, e, "open", gen'[t].phase, ToolsOf(gen'[t].calls))
    BY <2>2, GoesEnds
  <2> HIDE DEF e
  <2> QED
    BY <2>1, <2>2, <2>3, EmitSettled
<1>4. ASSUME NEW tools \in Rounds, LlmCallsTools(t, tools) PROVE SettledInv'
  <2> DEFINE calls == Calling(tools, minted)
             e == [type |-> "calls", tools |-> ToolsOf(calls),
                   asked |-> (minted + 1)..(minted + Mailing(tools))]
  <2>1. /\ Emit(t, e) /\ gen[t].phase = "llm"
        /\ gen' = [gen EXCEPT ![t].phase = "tools", ![t].calls = calls]
        /\ UNCHANGED <<browser, link>>
    BY <1>4, CallsToolsEffect, ConstantsAssumption
  <2> HIDE DEF calls
  <2>2. /\ gen'[t].phase = "tools" /\ gen'[t].calls = calls
        /\ \A u \in Turns \ {t} : gen'[u] = gen[u]
    BY <1>1, <2>1 DEF TypeInv, ServerTypes, Gen
  <2>3. \A m \in Message : Goes(m, Nothing, "open", gen[t].phase, ToolsOf(gen[t].calls)) =>
                             Goes(m, e, "open", gen'[t].phase, ToolsOf(gen'[t].calls))
    BY <2>1, <2>2, GoesCalls
  <2> HIDE DEF e
  <2> QED
    BY <2>1, <2>2, <2>3, EmitSettled
<1> QED
  BY <1>2, <1>3, <1>4

\* Steps of the server and of the network that write nothing
LEMMA SilentSettled ==
  ASSUME TypeInv, SettledInv,
         \/ \E t \in Turns : \/ StartCall(t)
                             \/ \E i \in DOMAIN gen[t].calls : Resume(t, i) \/ TimeOut(t, i)
         \/ \E t \in Turns : Save(t) \/ Cancel(t)
         \/ Restart \/ \E t \in Turns, seen \in {"broken", "ended"} : LinkCut(t, seen)
         \/ \E p \in posts : ConfirmArrives(p)
         \/ \E s \in loads.asked : LoadAnswered(s)
         \/ \E id \in drops : DropArrives(id)
  PROVE  SettledInv'
<1> DEFINE FromNone(u) ==
      /\ gen'[u].phase = "none" => gen[u].phase = "none"
      /\ link'[u] = "none" => link[u] = "none"
<1>1. UNCHANGED <<feed, wire>>
  BY DEF StartCall, Resume, TimeOut, Save, Cancel, Restart, LinkCut, ConfirmArrives, LoadAnswered,
     DropArrives, browser, network
<1>2. SUFFICES ASSUME NEW u \in Turns
               PROVE  \/ /\ UNCHANGED link
                         /\ gen'[u].phase = gen[u].phase
                         /\ ToolsOf(gen'[u].calls) = ToolsOf(gen[u].calls)
                      \/ link'[u] # "open" /\ FromNone(u)
                      \/ UNCHANGED <<link[u], gen[u]>>
  <2>1. ASSUME NEW u \in Turns, NEW m \in Message,
               Goes(m, wire[u], link[u], gen[u].phase, ToolsOf(gen[u].calls)),
               \/ /\ UNCHANGED link
                  /\ gen'[u].phase = gen[u].phase
                  /\ ToolsOf(gen'[u].calls) = ToolsOf(gen[u].calls)
               \/ link'[u] # "open" /\ FromNone(u)
               \/ UNCHANGED <<link[u], gen[u]>>
        PROVE  Goes(m, wire'[u], link'[u], gen'[u].phase, ToolsOf(gen'[u].calls))
    BY <1>1, <2>1, GoesLost
  <2> QED
    BY <1>1, <2>1, QuietSettled
<1>3. gen[u] \in Gen
  BY DEF TypeInv, ServerTypes
<1>4. ASSUME NEW t \in Turns,
             StartCall(t) \/ \E i \in DOMAIN gen[t].calls : Resume(t, i) \/ TimeOut(t, i)
      PROVE  /\ UNCHANGED link
             /\ gen'[u].phase = gen[u].phase
             /\ ToolsOf(gen'[u].calls) = ToolsOf(gen[u].calls)
  BY <1>4, RunPhases DEF network
<1>5. ASSUME NEW t \in Turns, Save(t) \/ Cancel(t)
      PROVE  \/ link'[u] # "open" /\ FromNone(u)
             \/ UNCHANGED <<link[u], gen[u]>>
  <2>1. CASE u # t
    BY <1>5, <2>1 DEF Save, Cancel, network, TypeInv, ServerTypes, NetworkTypes
  <2>2. CASE u = t
    <3>1. link'[u] # "open" /\ (link'[u] = "none" => link[u] = "none")
      BY <1>5, <2>2 DEF Save, Cancel, network, TypeInv, NetworkTypes
    <3>2. \/ gen' = [gen EXCEPT ![u] = [gen[u] EXCEPT !.phase = "saved"]]
          \/ gen' = [gen EXCEPT ![u] = [gen[u] EXCEPT !.phase = "gone", !.calls = <<>>]]
      BY <1>5, <2>2 DEF Save, Cancel
    <3>3. /\ [gen[u] EXCEPT !.phase = "saved"].phase = "saved"
          /\ [gen[u] EXCEPT !.phase = "gone", !.calls = <<>>].phase = "gone"
      BY <1>3 DEF Gen
    <3>4. gen'[u].phase \in {"saved", "gone"}
      BY <3>2, <3>3 DEF TypeInv, ServerTypes
    <3> QED
      BY <3>1, <3>4
  <2> QED
    BY <2>1, <2>2
<1>6. CASE Restart
  <2>1. /\ link'[u] # "open" /\ (link'[u] = "none" => link[u] = "none")
        /\ (gen'[u] = gen[u] \/ gen'[u] = [gen[u] EXCEPT !.phase = "gone", !.calls = <<>>])
    BY <1>6 DEF Restart
  <2> QED
    BY <1>3, <2>1 DEF Gen
<1>7. ASSUME NEW t \in Turns, NEW seen \in {"broken", "ended"}, LinkCut(t, seen)
      PROVE  \/ link'[u] # "open" /\ FromNone(u)
             \/ UNCHANGED <<link[u], gen[u]>>
  BY <1>7 DEF LinkCut, server, TypeInv, NetworkTypes
<1>8. ASSUME \/ \E p \in posts : ConfirmArrives(p)
             \/ \E s \in loads.asked : LoadAnswered(s)
             \/ \E id \in drops : DropArrives(id)
      PROVE  UNCHANGED <<link[u], gen[u]>>
  BY <1>8 DEF ConfirmArrives, LoadAnswered, DropArrives, network, server
<1> QED
  BY <1>4, <1>5, <1>6, <1>7, <1>8

LEMMA SettledStep == TypeInv /\ FeedInv /\ SettledInv /\ [Next]_vars => SettledInv'
<1> SUFFICES ASSUME TypeInv, FeedInv, SettledInv, [Next]_vars PROVE SettledInv'
  OBVIOUS
<1>1. CASE Next
  BY <1>1, StepCases, AskingSettled, StreamSettled, AgentSettled, SilentSettled, PageSettled,
     MountingSettled
<1>2. CASE UNCHANGED vars
  BY <1>2, QuietSettled DEF vars, browser, network, server
<1> QED
  BY <1>1, <1>2

(* A tool is shown as running only while the agent is at it or its end is on *)
(* its way, and never next to a complete answer, unless the connection was   *)
(* cut; the page may be left or loaded again, and the server restart, at any *)
(* point of a round.                                                         *)
THEOREM ShownToolsAreLive == Spec => []ShownToolsRun
<1>1. Init => TypeInv /\ FeedInv /\ SettledInv
  BY InitTypes, InitFeed, InitSettled
<1>2. TypeInv /\ FeedInv /\ SettledInv /\ [Next]_vars => (TypeInv /\ FeedInv /\ SettledInv)'
  BY TypeStep, FeedStep, SettledStep
<1> QED
  BY <1>1, <1>2, SettledFollows, PTL DEF Spec
=============================================================================
