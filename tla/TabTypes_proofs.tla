--------------------------- MODULE TabTypes_proofs ---------------------------
(***************************************************************************)
(* Proofs that the pages of Tab stay well formed, and of what may replace  *)
(* the remembered model.  Most of TabTypeOK is inductive once a page's own *)
(* facts are added: which requests have an answer, that a dialog needs a   *)
(* table, and how often a tool was called.                                 *)
(***************************************************************************)
EXTENDS Tab_proofs

(* The telemetry page.                                                     *)

StatsTypeInv ==
  /\ StatsTypeOK
  /\ \A t \in StatTools : uses[t] <= useCount

LEMMA StatsTypeInit == StatsInit => StatsTypeInv
<1> SUFFICES ASSUME StatsInit PROVE StatsTypeInv
  OBVIOUS
<1>1. MaxUses \in Nat /\ MaxGathers \in Nat
  BY StatsAssumption
<1>2. NoUsage \in Usage /\ \A t \in StatTools : NoUsage[t] = 0
  BY <1>1 DEF NoUsage, Usage
<1>3. registered \in [n : 0..MaxGathers, tools : SUBSET StatTools]
  BY <1>1 DEF StatsInit
<1>4. stats \in [n : 0..MaxGathers, uses : Usage]
  BY <1>1, <1>2 DEF StatsInit
<1>5. \A t \in StatTools : uses[t] <= useCount
  BY <1>2 DEF StatsInit
<1>6. {gathering, regathering, searchQuery, statsOpen} \subseteq BOOLEAN
  BY DEF StatsInit
<1> QED
  BY <1>1, <1>2, <1>3, <1>4, <1>5, <1>6 DEF StatsInit, StatsTypeInv, StatsTypeOK

LEMMA StatsTypeStep == StatsTypeInv /\ [StatsNext]_statsVars => StatsTypeInv'
<1> SUFFICES ASSUME StatsTypeInv, [StatsNext]_statsVars PROVE StatsTypeInv'
  OBVIOUS
<1>1. MaxUses \in Nat /\ MaxGathers \in Nat
  BY StatsAssumption
<1>2. NoUsage \in Usage
  BY <1>1 DEF NoUsage, Usage
<1>3. /\ registered \in [n : 0..MaxGathers, tools : SUBSET StatTools]
      /\ stats \in [n : 0..MaxGathers, uses : Usage]
      /\ gathering \in BOOLEAN /\ regathering \in BOOLEAN
      /\ searchQuery \in BOOLEAN /\ statsOpen \in BOOLEAN
      /\ filter \in {"all", "used", "unused"} /\ uses \in Usage
      /\ gathers \subseteq Load
      /\ gatherCount \in 0..MaxGathers /\ useCount \in 0..MaxUses
      /\ \A t \in StatTools : uses[t] <= useCount
  BY DEF StatsTypeInv, StatsTypeOK
<1>4. CASE LoadData /\ UNCHANGED <<registered, stats, filter, searchQuery, uses, useCount>>
           /\ gathering' \in BOOLEAN /\ regathering' \in BOOLEAN /\ statsOpen' \in BOOLEAN
  <2>1. Gather \in Load /\ gatherCount' \in 0..MaxGathers
    BY <1>1, <1>2, <1>3, <1>4 DEF LoadData, Gather, Load
  <2>2. gathers' \subseteq Load
    BY <1>3, <1>4, <2>1 DEF LoadData
  <2> QED
    BY <1>3, <1>4, <2>1, <2>2 DEF StatsTypeInv, StatsTypeOK
<1>5. ASSUME NEW t \in StatTools, ToolCalled(t) PROVE StatsTypeInv'
  <2>1. /\ useCount' = useCount + 1 /\ useCount < MaxUses
        /\ uses' = [uses EXCEPT ![t] = uses[t] + 1]
        /\ UNCHANGED <<registered, stats, gathering, regathering, filter, searchQuery,
                       gathers, statsOpen, gatherCount>>
    BY <1>5 DEF ToolCalled
  <2>2. useCount' \in 0..MaxUses /\ useCount \in Nat
    BY <1>1, <1>3, <2>1
  <2>3. \A u \in StatTools : uses[u] \in 0..MaxUses
    BY <1>3 DEF Usage
  <2>4. uses[t] + 1 \in 0..MaxUses
    BY <1>1, <1>3, <2>1, <2>2, <2>3
  <2>5. uses' \in Usage
    BY <1>3, <2>1, <2>4 DEF Usage
  <2>6. \A u \in StatTools : uses'[u] <= useCount'
    BY <1>3, <2>1, <2>2, <2>3 DEF Usage
  <2> QED
    BY <1>3, <2>1, <2>2, <2>5, <2>6 DEF StatsTypeInv, StatsTypeOK
<1>6. ASSUME NEW g \in gathers, NEW h \in Load, gathers' = (gathers \ {g}) \cup {h},
             UNCHANGED <<registered, stats, gathering, regathering, filter, searchQuery,
                         uses, statsOpen, gatherCount, useCount>>
      PROVE  StatsTypeInv'
  BY <1>3, <1>6 DEF StatsTypeInv, StatsTypeOK
<1>7. ASSUME NEW g \in gathers, ToolsAnswered(g) PROVE StatsTypeInv'
  <2>1. PICK ts \in {StatTools, {}} :
          gathers' = (gathers \ {g}) \cup {[g EXCEPT !.listed = TRUE, !.tools = ts]}
    BY <1>7 DEF ToolsAnswered
  <2>2. [g EXCEPT !.listed = TRUE, !.tools = ts] \in Load
    BY <1>3 DEF Load
  <2> QED
    BY <1>6, <1>7, <2>1, <2>2 DEF ToolsAnswered
<1>8. ASSUME NEW g \in gathers, StatsAnswered(g) PROVE StatsTypeInv'
  <2>1. PICK us \in {uses, NoUsage} :
          gathers' = (gathers \ {g}) \cup {[g EXCEPT !.counted = TRUE, !.uses = us]}
    BY <1>8 DEF StatsAnswered
  <2>2. us \in Usage
    BY <1>2, <1>3
  <2>3. [g EXCEPT !.counted = TRUE, !.uses = us] \in Load
    BY <1>3, <2>2 DEF Load
  <2> QED
    BY <1>6, <1>8, <2>1, <2>3 DEF StatsAnswered
<1>9. ASSUME NEW g \in gathers, Gathered(g) PROVE StatsTypeInv'
  <2>1. g.n \in 0..MaxGathers /\ g.tools \in SUBSET StatTools /\ g.uses \in Usage
    BY <1>1, <1>3 DEF Load
  <2>2. /\ registered' \in [n : 0..MaxGathers, tools : SUBSET StatTools]
        /\ stats' \in [n : 0..MaxGathers, uses : Usage]
    BY <1>9, <2>1 DEF Gathered
  <2> QED
    BY <1>3, <1>9, <2>2 DEF Gathered, StatsTypeInv, StatsTypeOK
<1>10. ASSUME NEW t \in StatTools, TestInPlayground(t) PROVE StatsTypeInv'
  <2>1. /\ registered' \in [n : 0..MaxGathers, tools : SUBSET StatTools]
        /\ stats' \in [n : 0..MaxGathers, uses : Usage]
    BY <1>1, <1>2, <1>10 DEF TestInPlayground
  <2> QED
    BY <1>3, <1>10, <2>1 DEF TestInPlayground, StatsTypeInv, StatsTypeOK
<1>11. CASE TypeSearch \/ \E f \in {"all", "used", "unused"} : SetFilter(f)
  BY <1>3, <1>11 DEF TypeSearch, SetFilter, StatsTypeInv, StatsTypeOK
<1>12. CASE UNCHANGED statsVars
  BY <1>3, <1>12 DEF statsVars, StatsTypeInv, StatsTypeOK
<1>13. CASE OpenStats \/ TokenChanges \/ RefreshStats
  BY <1>3, <1>4, <1>13 DEF OpenStats, TokenChanges, RefreshStats
<1> QED
  BY <1>5, <1>7, <1>8, <1>9, <1>10, <1>11, <1>12, <1>13 DEF StatsNext, StatsProgress

----------------------------------------------------------------------------
(* The search playground.                                                  *)

\* The models are listed once, before one of them can be selected.
SearchTypeInv == SearchTypeOK /\ (rerankRequest => rerankModels = {})

LEMMA SearchTypeInit == SearchInit => SearchTypeInv
<1> SUFFICES ASSUME SearchInit PROVE SearchTypeInv
  OBVIOUS
<1>1. MaxSearches \in Nat /\ MaxLogins \in Nat
  BY SearchAssumption
<1>2. searchResults \in [n : 0..MaxSearches, any : BOOLEAN]
  BY <1>1 DEF SearchInit
<1>3. {query, enableRerank, loadingModels, rerankRequest, isSearching, showLoginModal,
       authLoading, hasAuth} \subseteq BOOLEAN
  BY DEF SearchInit
<1>4. /\ searchMode = "hybrid" /\ rerankModels = {} /\ selectedRerank = NoReranker
      /\ searchError = 0 /\ searching = {} /\ searches = 0 /\ loginsTried = 0
  BY DEF SearchInit
<1>5. SearchTypeOK
  BY <1>1, <1>2, <1>3, <1>4 DEF SearchTypeOK, Modes
<1> QED
  BY <1>4, <1>5 DEF SearchTypeInv

LEMMA SearchTypeStep == SearchTypeInv /\ [SearchNext]_searchVars => SearchTypeInv'
<1> SUFFICES ASSUME SearchTypeInv, [SearchNext]_searchVars PROVE SearchTypeInv'
  OBVIOUS
<1> DEFINE Settings == /\ query \in BOOLEAN /\ enableRerank \in BOOLEAN /\ searchMode \in Modes
           Shown    == /\ isSearching \in BOOLEAN /\ searchError \in 0..MaxSearches
                       /\ searchResults \in [n : 0..MaxSearches, any : BOOLEAN]
                       /\ searching \subseteq Search /\ searches \in 0..MaxSearches
           Models_  == /\ loadingModels \in BOOLEAN /\ rerankRequest \in BOOLEAN
                       /\ rerankModels \subseteq Rerankers
                       /\ selectedRerank \in rerankModels \cup {NoReranker}
                       /\ rerankRequest => rerankModels = {}
           Form     == /\ showLoginModal \in BOOLEAN /\ authLoading \in BOOLEAN
                       /\ hasAuth \in BOOLEAN /\ loginsTried \in 0..MaxLogins
<1>1. MaxSearches \in Nat /\ MaxLogins \in Nat
  BY SearchAssumption
<1>2. SearchTypeInv <=> Settings /\ Shown /\ Models_ /\ Form
  BY DEF SearchTypeInv, SearchTypeOK
<1>3. (SearchTypeInv <=> Settings /\ Shown /\ Models_ /\ Form)'
  BY DEF SearchTypeInv, SearchTypeOK
<1>4. UNCHANGED <<query, searchMode, enableRerank>> => Settings'
  BY <1>2
<1>5. UNCHANGED panel => Shown'
  BY <1>2 DEF panel
<1>6. UNCHANGED <<selectedRerank, reranking>> => Models_'
  BY <1>2 DEF reranking
<1>7. UNCHANGED loginForm => Form'
  BY <1>2 DEF loginForm
<1>8. CASE UNCHANGED searchVars
  BY <1>3, <1>4, <1>5, <1>6, <1>7, <1>8 DEF searchVars, panel, reranking, loginForm
<1>9. CASE TypeQuery \/ ToggleRerank \/ \E m \in Modes : SetSearchMode(m)
  <2>1. Settings'
    BY <1>2, <1>9 DEF TypeQuery, ToggleRerank, SetSearchMode
  <2> QED
    BY <1>3, <1>5, <1>6, <1>7, <1>9, <2>1 DEF TypeQuery, ToggleRerank, SetSearchMode
<1>10. CASE \E m \in Rerankers : SelectReranker(m)
  <2>1. Models_'
    BY <1>2, <1>10 DEF SelectReranker, reranking
  <2> QED
    BY <1>3, <1>4, <1>5, <1>7, <1>10, <2>1 DEF SelectReranker
<1>11. CASE RerankersListed
  <2>1. Models_'
    BY <1>2, <1>11 DEF RerankersListed
  <2> QED
    BY <1>3, <1>4, <1>5, <1>7, <1>11, <2>1 DEF RerankersListed
<1>12. CASE HandleSearch
  <2>1. CASE ~hasAuth
    <3>1. Form'
      BY <1>2, <1>12, <2>1 DEF HandleSearch
    <3> QED
      BY <1>3, <1>4, <1>5, <1>6, <1>12, <2>1, <3>1 DEF HandleSearch, settings
  <2>2. CASE hasAuth
    <3> DEFINE s == [n |-> searches', mode |-> searchMode, at |-> "out",
                     rerank |-> IF enableRerank THEN selectedRerank ELSE NoReranker]
    <3>1. /\ searches' = searches + 1 /\ searches < MaxSearches /\ isSearching' = TRUE
          /\ searchError' = 0 /\ searching' = searching \cup {s}
          /\ UNCHANGED <<searchResults, loginForm, settings, reranking>>
      BY <1>12, <2>2 DEF HandleSearch
    <3>2. searches' \in 1..MaxSearches
      BY <1>1, <1>2, <3>1
    <3>3. s \in Search
      BY <1>2, <3>2 DEF Search
    <3>4. Shown'
      <4> HIDE DEF s
      <4> QED
        BY <1>1, <1>2, <3>1, <3>2, <3>3
    <3> QED
      BY <1>3, <1>4, <1>6, <1>7, <3>1, <3>4 DEF settings
  <2> QED
    BY <2>1, <2>2
<1>13. ASSUME NEW s \in searching, SearchServed(s) PROVE SearchTypeInv'
  <2>1. PICK at \in {"found", "empty", "failed", "refused"} :
          searching' = (searching \ {s}) \cup {[s EXCEPT !.at = at]}
    BY <1>13 DEF SearchServed
  <2>2. [s EXCEPT !.at = at] \in Search
    BY <1>2 DEF Search
  <2>3. Shown'
    BY <1>2, <1>13, <2>1, <2>2 DEF SearchServed
  <2> QED
    BY <1>3, <1>4, <1>6, <1>7, <1>13, <2>3 DEF SearchServed, settings
<1>14. ASSUME NEW s \in searching, SearchAnswered(s) PROVE SearchTypeInv'
  <2>1. s.n \in 1..MaxSearches
    BY <1>2 DEF Search
  <2>2. searchResults' \in [n : 0..MaxSearches, any : BOOLEAN] /\ searchError' \in 0..MaxSearches
    <3>1. CASE s.at \in {"found", "empty"}
      <4> DEFINE any == s.at = "found"
      <4>1. any \in BOOLEAN /\ s.n \in 0..MaxSearches
        BY <1>1, <2>1
      <4>2. searchResults' = [n |-> s.n, any |-> any] /\ UNCHANGED searchError
        BY <1>14, <3>1 DEF SearchAnswered
      <4> HIDE DEF any
      <4> QED
        BY <1>2, <4>1, <4>2
    <3>2. CASE s.at \notin {"found", "empty"}
      BY <1>1, <1>2, <1>14, <2>1, <3>2 DEF SearchAnswered
    <3> QED
      BY <3>1, <3>2
  <2>3. Shown'
    BY <1>2, <1>14, <2>2 DEF SearchAnswered
  <2>4. Form'
    BY <1>2, <1>14 DEF SearchAnswered
  <2> QED
    BY <1>3, <1>4, <1>6, <1>14, <2>3, <2>4 DEF SearchAnswered, settings
<1>15. CASE HandleInlineLogin \/ LoginAnswered \/ CancelLogin \/ SearchSignOut
  <2>1. Form'
    <3>1. CASE HandleInlineLogin
      BY <1>1, <1>2, <3>1 DEF HandleInlineLogin
    <3>2. CASE LoginAnswered \/ CancelLogin \/ SearchSignOut
      BY <1>2, <3>2 DEF LoginAnswered, CancelLogin, SearchSignOut
    <3> QED
      BY <1>15, <3>1, <3>2
  <2> QED
    BY <1>3, <1>4, <1>5, <1>6, <1>15, <2>1
    DEF HandleInlineLogin, LoginAnswered, CancelLogin, SearchSignOut, settings
<1> QED
  BY <1>8, <1>9, <1>10, <1>11, <1>12, <1>13, <1>14, <1>15 DEF SearchNext, SearchProgress

----------------------------------------------------------------------------
(* The tools page.                                                         *)

LEMMA BenchTypeInit == BenchInit => BenchTypeOK
<1> SUFFICES ASSUME BenchInit PROVE BenchTypeOK
  OBVIOUS
<1>1. MaxExecutions \in Nat
  BY BenchAssumption
<1>2. argsJson \in [of : Tools \cup {NoTool}, parses : BOOLEAN] /\ argsJson.of = selectedTool
  BY DEF BenchInit
<1>3. {loadingTools, isRefreshing, isExecuting, signedIn} \subseteq BOOLEAN
  BY DEF BenchInit
<1>4. /\ tools = <<>> /\ selectedTool = NoTool /\ executionResult = 0 /\ executions = 0
      /\ loads = {} /\ runs = {}
  BY DEF BenchInit
<1>5. executionResult \in -1..MaxExecutions /\ executions \in 0..MaxExecutions
  BY <1>1, <1>4
<1> QED
  BY <1>2, <1>3, <1>4, <1>5 DEF BenchTypeOK

\* An answer with tools has an initial one.
LEMMA InitialListed ==
  ASSUME NEW o \in ToolOrders, o # <<>>
  PROVE  Initial(o) \in Tools
<1>1. o \in Seq(ToSet(o))
  BY BenchAssumption
<1>2. 1 \in DOMAIN o
  BY <1>1
<1>3. o[1] \in ToSet(o)
  BY <1>2 DEF ToSet
<1>4. Contains(o, InitialTool) => InitialTool \in ToSet(o)
  BY DEF Contains, ToSet
<1> QED
  BY <1>3, <1>4 DEF Initial, Tools

LEMMA BenchTypeStep == BenchTypeOK /\ [BenchNext]_benchVars => BenchTypeOK'
<1> SUFFICES ASSUME BenchTypeOK, [BenchNext]_benchVars PROVE BenchTypeOK'
  OBVIOUS
<1> DEFINE LoadT == [n : 1..MaxLoads, at : {"out", "ok"}, got : ToolOrders \cup {<<>>}]
           RunT  == [n : 1..MaxExecutions, tool : Tools, at : {"out", "ok"}]
           Args  == [of : Tools \cup {NoTool}, parses : BOOLEAN]
<1>1. MaxExecutions \in Nat /\ MaxLoads \in Nat /\ MaxLoads >= 1
  BY BenchAssumption
<1>2. /\ tools \in ToolOrders \cup {<<>>} /\ selectedTool \in Tools \cup {NoTool}
      /\ argsJson \in Args /\ argsJson.of = selectedTool
      /\ loadingTools \in BOOLEAN /\ isRefreshing \in BOOLEAN
      /\ isExecuting \in BOOLEAN /\ signedIn \in BOOLEAN
      /\ executionResult \in -1..MaxExecutions /\ executions \in 0..MaxExecutions
      /\ loads \subseteq LoadT /\ runs \subseteq RunT
  BY DEF BenchTypeOK
<1>3. (BenchTypeOK <=>
         /\ tools \in ToolOrders \cup {<<>>} /\ selectedTool \in Tools \cup {NoTool}
         /\ argsJson \in Args /\ argsJson.of = selectedTool
         /\ loadingTools \in BOOLEAN /\ isRefreshing \in BOOLEAN
         /\ isExecuting \in BOOLEAN /\ signedIn \in BOOLEAN
         /\ executionResult \in -1..MaxExecutions /\ executions \in 0..MaxExecutions
         /\ loads \subseteq LoadT /\ runs \subseteq RunT)'
  BY DEF BenchTypeOK
<1>4. CASE OpenTools
  <2>1. [n |-> 1, at |-> "out", got |-> <<>>] \in LoadT
    BY <1>1
  <2> HIDE DEF LoadT
  <2> QED
    BY <1>2, <1>3, <1>4, <2>1 DEF OpenTools
<1>5. CASE Refresh
  <2>1. loadCount' \in 1..MaxLoads
    BY <1>1, <1>5 DEF Refresh
  <2>2. [n |-> loadCount', at |-> "out", got |-> <<>>] \in LoadT
    BY <2>1
  <2> HIDE DEF LoadT
  <2> QED
    BY <1>2, <1>3, <1>5, <2>2 DEF Refresh
<1>6. ASSUME NEW l \in loads, ToolsListed(l) PROVE BenchTypeOK'
  <2>1. PICK o \in ToolOrders \cup {<<>>} :
          loads' = (loads \ {l}) \cup {[l EXCEPT !.at = "ok", !.got = o]}
    BY <1>6 DEF ToolsListed
  <2>2. [l EXCEPT !.at = "ok", !.got = o] \in LoadT
    BY <1>2
  <2> HIDE DEF LoadT
  <2> QED
    BY <1>2, <1>3, <1>6, <2>1, <2>2 DEF ToolsListed
<1>7. ASSUME NEW l \in loads, LoadTools(l) PROVE BenchTypeOK'
  <2>1. /\ loads' = loads \ {l} /\ tools' = l.got /\ loadingTools' = FALSE
        /\ isRefreshing' = FALSE
        /\ UNCHANGED <<isExecuting, executionResult, signedIn, runs, executions>>
    BY <1>7 DEF LoadTools, RefreshEnds
  <2>2. l.got \in ToolOrders \cup {<<>>}
    BY <1>2
  <2>3. CASE l.got = <<>>
    BY <1>2, <1>3, <1>7, <2>1, <2>2, <2>3 DEF LoadTools
  <2>4. CASE l.got # <<>>
    <3>1. Initial(l.got) \in Tools
      BY <2>2, <2>4, InitialListed
    <3>2. selectedTool' = Initial(l.got) /\ argsJson' = [of |-> Initial(l.got), parses |-> TRUE]
      BY <1>7, <2>4 DEF LoadTools
    <3>3. argsJson' \in Args /\ argsJson'.of = selectedTool'
      BY <3>1, <3>2
    <3> HIDE DEF LoadT, RunT, Args
    <3> QED
      BY <1>2, <1>3, <2>1, <2>2, <3>1, <3>2, <3>3
  <2> QED
    BY <2>3, <2>4
<1>8. ASSUME NEW t \in Tools, HandleToolSelect(t) PROVE BenchTypeOK'
  <2>1. argsJson' \in Args /\ argsJson'.of = selectedTool' /\ selectedTool' = t
    BY <1>8 DEF HandleToolSelect
  <2> HIDE DEF LoadT, RunT, Args
  <2> QED
    BY <1>1, <1>2, <1>3, <1>8, <2>1 DEF HandleToolSelect
<1>9. CASE EditArgs
  <2>1. argsJson' \in Args /\ argsJson'.of = selectedTool' /\ selectedTool' = selectedTool
    BY <1>2, <1>9 DEF EditArgs
  <2> HIDE DEF LoadT, RunT, Args
  <2> QED
    BY <1>2, <1>3, <1>9, <2>1 DEF EditArgs
<1>10. CASE HandleExecute
  <2>1. UNCHANGED <<tools, selectedTool, loadingTools, isRefreshing, argsJson, signedIn, loads>>
    BY <1>10 DEF HandleExecute
  <2>2. CASE signedIn /\ argsJson.parses
    <3> DEFINE r == [n |-> executions', tool |-> selectedTool, at |-> "out"]
    <3>1. /\ executions < MaxExecutions /\ executions' = executions + 1 /\ isExecuting' = TRUE
          /\ runs' = runs \cup {r} /\ UNCHANGED executionResult /\ selectedTool # NoTool
      BY <1>10, <2>2 DEF HandleExecute, ExecuteOn
    <3>2. executions' \in 1..MaxExecutions
      BY <1>1, <1>2, <3>1
    <3>3. r \in RunT
      BY <1>2, <3>1, <3>2
    <3> HIDE DEF r, LoadT, RunT, Args
    <3> QED
      BY <1>1, <1>2, <1>3, <2>1, <3>1, <3>2, <3>3
  <2>3. CASE ~(signedIn /\ argsJson.parses)
    <3>1. executionResult' = -1 /\ UNCHANGED <<executions, isExecuting, runs>>
      BY <1>10, <2>3 DEF HandleExecute
    <3> HIDE DEF LoadT, RunT, Args
    <3> QED
      BY <1>1, <1>2, <1>3, <2>1, <3>1
  <2> QED
    BY <2>2, <2>3
<1>11. ASSUME NEW r \in runs, ToolRuns(r) PROVE BenchTypeOK'
  <2>1. [r EXCEPT !.at = "ok"] \in RunT
    BY <1>2
  <2> HIDE DEF LoadT, RunT, Args
  <2> QED
    BY <1>2, <1>3, <1>11, <2>1 DEF ToolRuns
<1>12. ASSUME NEW r \in runs, ToolAnswers(r) PROVE BenchTypeOK'
  <2>1. r.n \in -1..MaxExecutions
    BY <1>1, <1>2
  <2> HIDE DEF LoadT, RunT, Args
  <2> QED
    BY <1>2, <1>3, <1>12, <2>1 DEF ToolAnswers
<1>13. CASE SignInOrOut
  BY <1>2, <1>3, <1>13 DEF SignInOrOut
<1>14. CASE UNCHANGED benchVars
  BY <1>2, <1>3, <1>14 DEF benchVars
<1> QED
  BY <1>4, <1>5, <1>6, <1>7, <1>8, <1>9, <1>10, <1>11, <1>12, <1>13, <1>14
  DEF BenchNext, Loading, Executing

----------------------------------------------------------------------------
(* The live log.                                                           *)

LogRow == [log : 1..MaxWritten, key : Nat]

\* The answer fits into the request's limit; the rest of FeedTypeOK follows from FeedInv.
FeedTypeInv ==
  /\ logs \in Seq(LogRow) /\ logSequence \in Nat
  /\ Len(logs) <= MaxLiveLogsBuffer + 1 \/ Len(logs) <= RecentLimit
  /\ recent.at \in {"none", "out", "ok"}
  /\ recent.got \in Seq(1..MaxWritten) /\ Len(recent.got) <= RecentLimit
  /\ connected \in BOOLEAN
  /\ written \in 1..MaxWritten /\ sent \in 1..written /\ feedVisits \in 0..MaxFeedVisits

LEMMA FeedTypeInit == FeedInit => FeedTypeInv
<1> SUFFICES ASSUME FeedInit PROVE FeedTypeInv
  OBVIOUS
<1>1. /\ MaxLiveLogsBuffer \in Nat /\ RecentLimit \in Nat /\ MaxWritten \in Nat
      /\ MaxWritten >= 1 /\ MaxFeedVisits \in Nat
  BY FeedAssumption
<1>2. logs = <<>> /\ logSequence = 0 /\ written = 1 /\ sent = 1 /\ feedVisits = 0
  BY DEF FeedInit
<1>3. recent.at = "none" /\ recent.got = <<>>
  BY DEF FeedInit, NoRecent
<1>4. logs \in Seq(LogRow) /\ Len(logs) = 0
  BY <1>2
<1>5. recent.got \in Seq(1..MaxWritten) /\ Len(recent.got) = 0
  BY <1>3
<1>6. connected \in BOOLEAN
  BY DEF FeedInit
<1> QED
  BY <1>1, <1>2, <1>3, <1>4, <1>5, <1>6 DEF FeedTypeInv

\* The newest logs, as the request is answered.
LEMMA NewestLogs ==
  ASSUME FeedTypeInv, RecentRead
  PROVE  recent'.at = "ok" /\ recent'.got \in Seq(1..MaxWritten) /\ Len(recent'.got) <= RecentLimit
<1> DEFINE newest == IF written > RecentLimit THEN RecentLimit ELSE written
           got == [k \in 1..newest |-> written + 1 - k]
<1>1. RecentLimit \in Nat /\ MaxWritten \in Nat /\ written \in 1..MaxWritten
  BY FeedAssumption DEF FeedTypeInv
<1>2. newest \in Nat /\ newest <= RecentLimit /\ newest <= written
  BY <1>1
<1>3. recent' = [at |-> "ok", got |-> got]
  BY DEF RecentRead
<1> HIDE DEF newest
<1>4. \A k \in 1..newest : written + 1 - k \in 1..MaxWritten
  BY <1>1, <1>2
<1>5. got \in Seq(1..MaxWritten) /\ Len(got) = newest
  BY <1>2, <1>4
<1> HIDE DEF got
<1> QED
  BY <1>2, <1>3, <1>5

\* The answer's rows.
LEMMA RecentRows ==
  ASSUME FeedTypeInv
  PROVE  LET rows == [k \in DOMAIN recent.got |-> [log |-> recent.got[k],
                                                   key |-> logSequence + k - 1]]
         IN  rows \in Seq(LogRow) /\ Len(rows) = Len(recent.got)
<1> DEFINE n == Len(recent.got)
           rows == [k \in DOMAIN recent.got |-> [log |-> recent.got[k],
                                                 key |-> logSequence + k - 1]]
<1>1. n \in Nat /\ DOMAIN recent.got = 1..n /\ \A k \in 1..n : recent.got[k] \in 1..MaxWritten
  <2>1. recent.got \in Seq(1..MaxWritten)
    BY DEF FeedTypeInv
  <2>2. n \in Nat /\ DOMAIN recent.got = 1..n
    BY <2>1, LenProperties
  <2>3. \A k \in 1..n : recent.got[k] \in 1..MaxWritten
    BY <2>1, ElementOfSeq
  <2> QED
    BY <2>2, <2>3
<1> HIDE DEF n
<1>2. \A k \in 1..n : [log |-> recent.got[k], key |-> logSequence + k - 1] \in LogRow
  BY <1>1 DEF FeedTypeInv, LogRow
<1>3. rows \in Seq(LogRow) /\ Len(rows) = n
  BY <1>1, <1>2
<1> QED
  BY <1>3 DEF n

\* A log is appended: the feed keeps at most one more than its buffer.
LEMMA AppendedRows ==
  ASSUME NEW s \in Seq(LogRow), NEW row \in LogRow
  PROVE  Appended(s, row) \in Seq(LogRow) /\ Len(Appended(s, row)) <= MaxLiveLogsBuffer + 1
<1> DEFINE from == IF Len(s) > MaxLiveLogsBuffer THEN Len(s) - MaxLiveLogsBuffer + 1 ELSE 1
           kept == SubSeq(s, from, Len(s))
<1>1. Len(s) \in Nat /\ MaxLiveLogsBuffer \in Nat /\ MaxLiveLogsBuffer > 0
  BY FeedAssumption
<1>2. from \in 1..Len(s) + 1 /\ Len(s) - from + 1 <= MaxLiveLogsBuffer
  BY <1>1
<1>3. Appended(s, row) = Append(kept, row)
  BY DEF Appended
<1> HIDE DEF from
<1>4. \A k \in from..Len(s) : s[k] \in LogRow
  <2> SUFFICES ASSUME NEW k \in from..Len(s) PROVE s[k] \in LogRow
    OBVIOUS
  <2>1. k \in 1..Len(s)
    BY <1>1, <1>2
  <2> QED
    BY <2>1, ElementOfSeq
<1>5. kept \in Seq(LogRow) /\ Len(kept) = Len(s) - from + 1
  BY <1>1, <1>2, <1>4, SubSeqProperties
<1> HIDE DEF kept
<1>6. Append(kept, row) \in Seq(LogRow) /\ Len(Append(kept, row)) = Len(kept) + 1
  BY <1>5
<1>7. Len(kept) + 1 <= MaxLiveLogsBuffer + 1
  BY <1>1, <1>2, <1>5
<1> QED
  BY <1>3, <1>6, <1>7

LEMMA FeedTypeStep == FeedTypeInv /\ [FeedNext]_feedVars => FeedTypeInv'
<1> SUFFICES ASSUME FeedTypeInv, [FeedNext]_feedVars PROVE FeedTypeInv'
  OBVIOUS
<1> DEFINE Feed  == /\ logs \in Seq(LogRow) /\ logSequence \in Nat
                    /\ Len(logs) <= MaxLiveLogsBuffer + 1 \/ Len(logs) <= RecentLimit
           Asked == /\ recent.at \in {"none", "out", "ok"}
                    /\ recent.got \in Seq(1..MaxWritten) /\ Len(recent.got) <= RecentLimit
           Rest  == /\ connected \in BOOLEAN /\ written \in 1..MaxWritten
                    /\ sent \in 1..written /\ feedVisits \in 0..MaxFeedVisits
<1>1. /\ MaxLiveLogsBuffer \in Nat /\ RecentLimit \in Nat /\ MaxWritten \in Nat
      /\ MaxFeedVisits \in Nat
  BY FeedAssumption
<1>2. Feed /\ Asked /\ Rest
  BY DEF FeedTypeInv
<1>3. Feed' /\ Asked' /\ Rest' => FeedTypeInv'
  BY DEF FeedTypeInv
<1>4. UNCHANGED <<logs, logSequence>> => Feed'
  BY <1>2
<1>5. UNCHANGED recent => Asked'
  BY <1>2
<1>6. UNCHANGED <<connected, written, sent, feedVisits>> => Rest'
  BY <1>2
<1>7. ASSUME logs' = <<>> PROVE logs' \in Seq(LogRow) /\ Len(logs') <= MaxLiveLogsBuffer + 1
  BY <1>1, <1>7
<1>8. ASSUME recent' = NoRecent \/ recent' = [at |-> "out", got |-> <<>>] PROVE Asked'
  <2>1. recent'.got = <<>> /\ recent'.at \in {"none", "out", "ok"}
    BY <1>8 DEF NoRecent
  <2>2. recent'.got \in Seq(1..MaxWritten) /\ Len(recent'.got) = 0
    BY <2>1
  <2> QED
    BY <1>1, <2>1, <2>2
<1>9. CASE OpenFeed
  <2>1. logs' = <<>> /\ logSequence' = 0 /\ connected' = FALSE /\ feedVisits' = feedVisits + 1
        /\ feedVisits < MaxFeedVisits /\ UNCHANGED <<written, sent>>
    BY <1>9 DEF OpenFeed
  <2>2. Feed'
    BY <1>7, <2>1
  <2>3. Rest'
    <3>1. feedVisits \in 0..MaxFeedVisits
      BY <1>2
    <3>2. feedVisits' \in 0..MaxFeedVisits
      BY <1>1, <2>1, <3>1
    <3>3. (connected \in BOOLEAN /\ written \in 1..MaxWritten /\ sent \in 1..written)'
      BY <1>2, <2>1
    <3> QED
      BY <3>2, <3>3
  <2> QED
    BY <1>3, <1>8, <1>9, <2>2, <2>3 DEF OpenFeed
<1>10. CASE LeaveFeed \/ RecentFails
  BY <1>3, <1>4, <1>6, <1>8, <1>10 DEF LeaveFeed, RecentFails
<1>11. CASE RecentRead
  <2>1. Asked'
    BY <1>11, NewestLogs
  <2> QED
    BY <1>3, <1>4, <1>6, <1>11, <2>1 DEF RecentRead
<1>12. CASE LoadRecentLogs
  <2> DEFINE rows == [k \in DOMAIN recent.got |-> [log |-> recent.got[k],
                                                   key |-> logSequence + k - 1]]
  <2>1. /\ logs' = IF logs = <<>> THEN rows ELSE logs
        /\ logSequence' = logSequence + Len(recent.got)
    BY <1>12 DEF LoadRecentLogs, NextKey
  <2>2. rows \in Seq(LogRow) /\ Len(rows) = Len(recent.got)
    BY RecentRows
  <2>3. Len(recent.got) \in Nat
    BY <1>2
  <2> HIDE DEF rows
  <2>4. Feed'
    BY <1>2, <2>1, <2>2, <2>3
  <2> QED
    BY <1>3, <1>6, <1>8, <1>12, <2>4 DEF LoadRecentLogs
<1>13. CASE SocketOpens \/ SocketError \/ SocketCloses \/ ConnectAgain
  <2>1. UNCHANGED <<logs, logSequence, recent>>
    BY <1>13 DEF SocketOpens, SocketError, SocketCloses, ConnectAgain
  <2>2. Rest'
    BY <1>2, <1>13 DEF SocketOpens, SocketError, SocketCloses, ConnectAgain
  <2> QED
    BY <1>3, <1>4, <1>5, <2>1, <2>2
<1>14. CASE LogWritten
  <2>1. Rest'
    BY <1>1, <1>2, <1>14 DEF LogWritten
  <2> QED
    BY <1>3, <1>4, <1>5, <1>14, <2>1 DEF LogWritten
<1>15. CASE LogArrives
  <2>1. sent < written /\ sent' = sent + 1 /\ UNCHANGED <<connected, recent, written, feedVisits>>
    BY <1>15 DEF LogArrives
  <2>2. Rest' /\ sent' \in 1..MaxWritten
    BY <1>1, <1>2, <2>1
  <2>3. CASE UNCHANGED <<logs, logSequence>>
    BY <1>3, <1>4, <1>5, <2>1, <2>2, <2>3
  <2>4. CASE /\ logs' = Appended(logs, [log |-> sent', key |-> logSequence])
             /\ logSequence' = NextKey(1)
    <3> DEFINE row == [log |-> sent', key |-> logSequence]
    <3>1. row \in LogRow
      BY <1>2, <2>2 DEF LogRow
    <3>2. logs' = Appended(logs, row) /\ logSequence' = logSequence + 1
      BY <2>4 DEF NextKey
    <3> HIDE DEF row
    <3>3. Appended(logs, row) \in Seq(LogRow) /\ Len(Appended(logs, row)) <= MaxLiveLogsBuffer + 1
      BY <1>2, <3>1, AppendedRows
    <3>4. Feed'
      BY <1>2, <3>2, <3>3
    <3> QED
      BY <1>3, <1>5, <2>1, <2>2, <3>4
  <2> QED
    BY <1>15, <2>3, <2>4 DEF LogArrives
<1>16. CASE ClearFeed
  <2>1. Feed'
    BY <1>2, <1>7, <1>16 DEF ClearFeed
  <2> QED
    BY <1>3, <1>5, <1>6, <1>16, <2>1 DEF ClearFeed
<1>17. CASE UNCHANGED feedVars
  BY <1>3, <1>4, <1>5, <1>6, <1>17 DEF feedVars
<1> QED
  BY <1>9, <1>10, <1>11, <1>12, <1>13, <1>14, <1>15, <1>16, <1>17 DEF FeedNext

LEMMA FeedWellFormed == FeedInv /\ FeedTypeInv => FeedTypeOK
<1> SUFFICES ASSUME FeedInv, FeedTypeInv PROVE FeedTypeOK
  OBVIOUS
<1>1. ASSUME NEW k \in DOMAIN logs
      PROVE  logs[k] \in [log : 1..MaxWritten, key : 0..logSequence - 1]
  <2>1. logs[k] \in LogRow
    BY DEF FeedTypeInv
  <2>2. logs[k].key < logSequence /\ logSequence \in Nat
    BY DEF FeedInv, KeysBehind, FeedTypeInv
  <2>3. logs[k].key \in 0..logSequence - 1
    BY <2>1, <2>2 DEF LogRow
  <2> QED
    BY <2>1, <2>3 DEF LogRow
<1>2. sockets \in [{"connecting", "open", "closing"} -> 0..2] /\ timers \in 0..2
  <2>1. /\ sockets.connecting \in 0..2 /\ sockets.open \in 0..2 /\ sockets.closing \in 0..2
        /\ timers \in 0..2
    <3>1. /\ sockets.connecting \in Nat /\ sockets.open \in Nat /\ sockets.closing \in Nat
          /\ timers \in Nat
      BY DEF FeedInv, Socket
    <3>2. sockets.connecting + sockets.open + sockets.closing + timers <= 1
      BY DEF FeedInv, OneSocket, Live
    <3> QED
      BY <3>1, <3>2
  <2>2. DOMAIN sockets = {"connecting", "open", "closing"}
    BY DEF FeedInv, Socket
  <2>3. \A x \in {"connecting", "open", "closing"} : sockets[x] \in 0..2
    BY <2>1
  <2>4. sockets = [x \in {"connecting", "open", "closing"} |-> sockets[x]]
    BY <2>2 DEF FeedInv, Socket
  <2> QED
    BY <2>1, <2>3, <2>4
<1> QED
  BY <1>1, <1>2 DEF FeedInv, FeedTypeInv, FeedTypeOK

----------------------------------------------------------------------------
(* The model menu.                                                         *)

Lookups == [visit : 1..MaxVisitsToChat, at : {"out", "ok"}, got : SUBSET Models]

LEMMA MenuTypeInit == MenuInit => MenuTypeOK
<1> SUFFICES ASSUME MenuInit PROVE MenuTypeOK
  OBVIOUS
<1>1. {modelsLoading, usable, isOpen, search, disabled, onChat} \subseteq BOOLEAN
  BY DEF MenuInit
<1>2. chatVisit \in 0..MaxVisitsToChat
  BY MenuAssumption DEF MenuInit
<1> QED
  BY <1>1, <1>2 DEF MenuInit, MenuTypeOK

LEMMA MenuTypeStep == MenuTypeOK /\ [MenuNext]_menuVars => MenuTypeOK'
<1> SUFFICES ASSUME MenuTypeOK, [MenuNext]_menuVars PROVE MenuTypeOK'
  OBVIOUS
<1> DEFINE Chosen == models \subseteq Models /\ selectedModel \in Models \cup {0}
                     /\ saved \in Models \cup {0}
           Shown  == /\ modelsLoading \in BOOLEAN /\ usable \in BOOLEAN /\ isOpen \in BOOLEAN
                     /\ search \in BOOLEAN /\ disabled \in BOOLEAN /\ onChat \in BOOLEAN
           Visits == lookups \subseteq Lookups /\ chatVisit \in 0..MaxVisitsToChat
<1>1. MaxVisitsToChat \in Nat
  BY MenuAssumption
<1>2. Chosen /\ Shown /\ Visits
  BY DEF MenuTypeOK, Lookups
<1>3. Chosen' /\ Shown' /\ Visits' => MenuTypeOK'
  BY DEF MenuTypeOK, Lookups
<1>4. CASE OpenChat
  <2> DEFINE q == [visit |-> chatVisit', at |-> "out", got |-> {}]
  <2>1. chatVisit' \in 1..MaxVisitsToChat /\ lookups' = lookups \cup {q}
    BY <1>1, <1>2, <1>4 DEF OpenChat
  <2>2. q \in Lookups
    BY <2>1 DEF Lookups
  <2> HIDE DEF q
  <2>3. Visits'
    BY <1>1, <1>2, <2>1, <2>2
  <2> QED
    BY <1>2, <1>3, <1>4, <2>3 DEF OpenChat
<1>5. ASSUME NEW q \in lookups, ModelsOffered(q) PROVE MenuTypeOK'
  <2>1. PICK offered \in SUBSET Models :
          lookups' = (lookups \ {q}) \cup {[q EXCEPT !.at = "ok", !.got = offered]}
    BY <1>5 DEF ModelsOffered
  <2>2. [q EXCEPT !.at = "ok", !.got = offered] \in Lookups
    BY <1>2 DEF Lookups
  <2>3. Visits'
    BY <1>2, <1>5, <2>1, <2>2 DEF ModelsOffered
  <2> QED
    BY <1>2, <1>3, <1>5, <2>3 DEF ModelsOffered
<1>6. ASSUME NEW q \in lookups, FetchModels(q) PROVE MenuTypeOK'
  <2>1. q.got \subseteq Models /\ Recalled \in Models \cup {0}
    BY <1>2 DEF Lookups, Recalled
  <2>2. PICK first \in IF q.got = {} THEN {0} ELSE q.got :
          /\ IF q.got = {} \/ TakesOver(Recalled, q.got) THEN UNCHANGED saved ELSE Remember(first)
          /\ IF onChat /\ q.visit = chatVisit
               THEN /\ models' = q.got /\ modelsLoading' = FALSE
                    /\ selectedModel' = CASE q.got = {}                 -> selectedModel
                                          [] TakesOver(Recalled, q.got) -> Recalled
                                          [] OTHER                      -> first
               ELSE UNCHANGED <<models, selectedModel, modelsLoading>>
    BY <1>6 DEF FetchModels
  <2>3. first \in Models \cup {0}
    BY <2>1, <2>2
  <2>4. saved' \in Models \cup {0}
    BY <1>2, <2>2, <2>3 DEF Remember
  <2>5. models' \subseteq Models /\ modelsLoading' \in BOOLEAN
    BY <1>2, <2>1, <2>2
  <2>6. selectedModel' \in Models \cup {0}
    <3>1. CASE q.got = {}
      BY <1>2, <2>1, <2>2, <3>1
    <3>2. CASE q.got # {}
      BY <1>2, <2>1, <2>2, <2>3, <3>2
    <3> QED
      BY <3>1, <3>2
  <2> QED
    BY <1>2, <1>3, <1>6, <2>4, <2>5, <2>6 DEF FetchModels
<1>7. ASSUME NEW m \in Models, OnSelectModel(m) PROVE MenuTypeOK'
  BY <1>2, <1>3, <1>7 DEF OnSelectModel, Remember
<1>8. CASE LeaveChat \/ ToggleMenu \/ CloseMenu \/ SearchModels \/ Sending
  BY <1>2, <1>3, <1>8 DEF LeaveChat, ToggleMenu, CloseMenu, SearchModels, Sending
<1>9. CASE UNCHANGED menuVars
  BY <1>2, <1>3, <1>9 DEF menuVars
<1> QED
  BY <1>4, <1>5, <1>6, <1>7, <1>8, <1>9 DEF MenuNext

\* What may replace the remembered model: a choice, or an answer of models without it.
\* An empty answer replaces nothing, and an answer with the remembered model keeps it.
LEMMA ReplacedByAnswer ==
  ASSUME MenuTypeOK, NEW q \in lookups, FetchModels(q), saved' # saved
  PROVE  q \in lookups \ lookups' /\ q.got # {} /\ saved \notin q.got
<1>1. q.got \subseteq Models
  BY DEF MenuTypeOK
<1>2. 0 \notin q.got
  BY <1>1, MenuAssumption
<1>3. PICK first : IF q.got = {} \/ TakesOver(Recalled, q.got) THEN UNCHANGED saved
                                                               ELSE Remember(first)
  BY DEF FetchModels
<1>4. q.got # {} /\ ~TakesOver(Recalled, q.got) /\ usable
  BY <1>3 DEF Remember
<1>5. saved \notin q.got
  BY <1>2, <1>4 DEF TakesOver, Recalled
<1>6. q \notin lookups'
  BY DEF FetchModels
<1> QED
  BY <1>4, <1>5, <1>6

\* The remembered model is replaced by a choice in the menu, or after some visit was
\* offered models without it; an answer that outlives its visit is no exception.
THEOREM ChoiceStays == TabSpec => ChoiceReplaced
<1>1. TabInit => MenuTypeOK
  BY TabStarts, MenuTypeInit
<1>2. MenuTypeOK /\ [TabNext]_tabVars => MenuTypeOK'
  BY TabSteps, MenuTypeStep
<1>3. ASSUME MenuTypeOK, [TabNext]_tabVars
      PROVE  [saved' # saved =>
                \/ \E m \in Models : OnSelectModel(m)
                \/ \E q \in lookups \ lookups' : q.got # {} /\ saved \notin q.got]_menuVars
  <2> SUFFICES ASSUME MenuNext, saved' # saved
               PROVE  \/ \E m \in Models : OnSelectModel(m)
                      \/ \E q \in lookups \ lookups' : q.got # {} /\ saved \notin q.got
    BY <1>3, TabSteps
  <2>1. CASE \E q \in lookups : FetchModels(q)
    BY <1>3, <2>1, ReplacedByAnswer
  <2>2. CASE \E m \in Models : OnSelectModel(m)
    BY <2>2
  <2>3. CASE \E q \in lookups : ModelsOffered(q)
    BY <2>3 DEF ModelsOffered
  <2> QED
    BY <2>1, <2>2, <2>3
    DEF MenuNext, OpenChat, LeaveChat, ToggleMenu, CloseMenu, SearchModels, Sending
<1> QED
  BY <1>1, <1>2, <1>3, PTL DEF TabSpec, ChoiceReplaced

----------------------------------------------------------------------------
(* The backup runs.                                                        *)

\* A page read that succeeded has a page, and there is no create dialog without a table,
\* whose page the submission carries on.
RunsTypeInv ==
  /\ RunsTypeOK
  /\ createFixForRun # 0 => sheet # NoSheet
  /\ visit.at # "none" => visit.page \in Pages
  /\ visit.at = "ok" => visit.got \in Sheet
  /\ \A q \in requests : q.op = "read" /\ q.at = "ok" => q.got \in Sheet

LEMMA ReadIsSheet ==
  ASSUME fixed \subseteq Runs, NEW p \in Pages
  PROVE  ReadOf(p) \in Sheet /\ ReadOf(p) # NoSheet
<1>1. p # 0
  BY RunsAssumption
<1> QED
  BY <1>1 DEF ReadOf, Sheet, NoSheet

LEMMA RunsTypeInit == RunsInit => RunsTypeInv
<1> SUFFICES ASSUME RunsInit PROVE RunsTypeInv
  OBVIOUS
<1>1. MaxSubmits \in Nat /\ MaxVisits \in Nat /\ MaxGlitches \in Nat
  BY RunsAssumption
<1>2. fixed \subseteq Runs /\ fixCount \in Nat
  BY FixedBeforeFinite DEF RunsInit, FixedBefore
<1>3. sheet \in Sheet
  BY <1>2, ReadIsSheet DEF RunsInit, Pages
<1>4. visit \in Visit /\ visit.at = "none"
  BY DEF RunsInit, NoVisit, Visit
<1>5. {loading, errorMessage, formTitle, submitError, submitting} \subseteq BOOLEAN
  BY DEF RunsInit
<1>6. /\ createFixForRun = 0 /\ activeFix = 0 /\ formAffected = {} /\ requests = {}
      /\ submits = 0 /\ visits = 0 /\ glitches = 0
  BY DEF RunsInit
<1> QED
  BY <1>1, <1>2, <1>3, <1>4, <1>5, <1>6 DEF RunsTypeInv, RunsTypeOK

LEMMA RunsTypeStep == RunsTypeInv /\ [RunsNext]_runsVars => RunsTypeInv'
<1> SUFFICES ASSUME RunsTypeInv, [RunsNext]_runsVars PROVE RunsTypeInv'
  OBVIOUS
<1> DEFINE Table   == sheet \in Sheet \cup {NoSheet} /\ loading \in BOOLEAN /\ errorMessage \in BOOLEAN
           Dialogs == /\ createFixForRun \in Runs \cup {0} /\ activeFix \in Runs \cup {0}
                      /\ formTitle \in BOOLEAN /\ formAffected \subseteq Runs
                      /\ submitError \in BOOLEAN /\ submitting \in BOOLEAN
           Open    == createFixForRun # 0 => sheet # NoSheet
           Fits(q) == q \in Request /\ (q.op = "read" /\ q.at = "ok" => q.got \in Sheet)
           Asked   == \A q \in requests : Fits(q)
           Router  == /\ visit \in Visit /\ (visit.at # "none" => visit.page \in Pages)
                      /\ visit.at = "ok" => visit.got \in Sheet
           Stored_ == fixed \subseteq Runs /\ fixCount \in Nat
           Bounds  == submits \in 0..MaxSubmits /\ visits \in 0..MaxVisits /\ glitches \in 0..MaxGlitches
<1>1. MaxSubmits \in Nat /\ MaxVisits \in Nat /\ MaxGlitches \in Nat /\ Retries \in Nat
  BY RunsAssumption
<1>2. Table /\ Dialogs /\ Open /\ Asked /\ Router /\ Stored_ /\ Bounds
  BY DEF RunsTypeInv, RunsTypeOK
<1>3. Table' /\ Dialogs' /\ Open' /\ Asked' /\ Router' /\ Stored_' /\ Bounds' => RunsTypeInv'
  BY DEF RunsTypeInv, RunsTypeOK
<1>4. UNCHANGED <<sheet, loading, errorMessage>> => Table'
  BY <1>2
<1>5. UNCHANGED <<createFixForRun, activeFix, formTitle, formAffected, submitError, submitting>>
        => Dialogs'
  BY <1>2
<1>6. /\ UNCHANGED <<createFixForRun, sheet>> => Open'
      /\ createFixForRun' = 0 => Open'
  BY <1>2
<1>7. UNCHANGED requests => Asked'
  BY <1>2
<1>8. /\ UNCHANGED visit => Router'
      /\ visit' = NoVisit => Router'
  <2>1. NoVisit \in Visit /\ NoVisit.at = "none"
    BY DEF NoVisit, Visit
  <2> QED
    BY <1>2, <2>1
<1>9. UNCHANGED <<fixed, fixCount>> => Stored_'
  BY <1>2
<1>10. UNCHANGED <<submits, visits, glitches>> => Bounds'
  BY <1>2
<1>11. ASSUME NEW q \in requests, NEW r, Fits(r), requests' = (requests \ {q}) \cup {r}
       PROVE  Asked'
  BY <1>2, <1>11
<1>12. ASSUME NEW q \in requests, requests' = requests \ {q} PROVE Asked'
  BY <1>2, <1>12
<1>13. NoSheet \in Sheet \cup {NoSheet}
  OBVIOUS
<1>14. ASSUME NEW p \in Pages PROVE ReadOf(p) \in Sheet
  BY <1>2, ReadIsSheet
<1> HIDE DEF Table, Dialogs, Open, Fits, Asked, Router, Stored_, Bounds
<1>15. ASSUME NEW r \in Runs, OpenCreateFix(r) PROVE RunsTypeInv'
  <2>1. createFixForRun' = r /\ formTitle' = FALSE /\ formAffected' = {r} /\ submitError' = FALSE
        /\ sheet # NoSheet
        /\ UNCHANGED <<sheet, loading, errorMessage, activeFix, submitting, requests, visit,
                       fixed, fixCount, submits, visits, glitches>>
    BY <1>15 DEF OpenCreateFix, RowShown, TableShown
  <2>2. Dialogs' /\ Open'
    BY <1>2, <2>1 DEF Dialogs, Open
  <2> QED
    BY <1>3, <1>4, <1>7, <1>8, <1>9, <1>10, <2>1, <2>2
<1>16. ASSUME NEW r \in Runs, OpenDetails(r) PROVE RunsTypeInv'
  <2>1. Dialogs'
    BY <1>2, <1>16 DEF OpenDetails, Dialogs
  <2> QED
    BY <1>3, <1>4, <1>6, <1>7, <1>8, <1>9, <1>10, <1>16, <2>1 DEF OpenDetails
<1>17. ASSUME NEW r \in Runs, ToggleAffectedRun(r) PROVE RunsTypeInv'
  <2>1. Dialogs'
    BY <1>2, <1>17 DEF ToggleAffectedRun, Dialogs
  <2> QED
    BY <1>3, <1>4, <1>6, <1>7, <1>8, <1>9, <1>10, <1>17, <2>1 DEF ToggleAffectedRun
<1>18. CASE CloseDetails \/ EditFix \/ CloseCreateFix \/ TypeTitle
  <2>1. Dialogs'
    BY <1>2, <1>18 DEF CloseDetails, EditFix, CloseCreateFix, TypeTitle, Dialogs
  <2>2. Open'
    BY <1>6, <1>18 DEF CloseDetails, EditFix, CloseCreateFix, TypeTitle
  <2> QED
    BY <1>3, <1>4, <1>7, <1>8, <1>9, <1>10, <1>18, <2>1, <2>2
    DEF CloseDetails, EditFix, CloseCreateFix, TypeTitle
<1>19. CASE HandleCreateFixSubmit
  <2>1. /\ createFixForRun' = 0 /\ createFixForRun # 0
        /\ UNCHANGED <<sheet, loading, errorMessage, activeFix, formTitle, formAffected, visit,
                       fixed, fixCount, visits, glitches>>
    BY <1>19 DEF HandleCreateFixSubmit
  <2>2. CASE Submits /\ formTitle
    <3> DEFINE q == [op |-> "create", n |-> submits', runs |-> formAffected,
                     page |-> sheet.page, try |-> 0, at |-> "out", got |-> NoSheet,
                     mine |-> TRUE]
    <3>1. /\ submits < MaxSubmits /\ submits' = submits + 1
          /\ submitting' = TRUE /\ submitError' = FALSE /\ requests' = requests \cup {q}
      BY <1>19, <2>2 DEF HandleCreateFixSubmit
    <3>2. submits' \in 1..MaxSubmits /\ Bounds'
      BY <1>1, <1>2, <2>1, <3>1 DEF Bounds
    <3>3. sheet.page \in Pages /\ formAffected \subseteq Runs
      BY <1>2, <2>1 DEF Table, Open, Dialogs, Sheet
    <3>4. q \in Request
      BY <1>1, <3>2, <3>3 DEF Request
    <3>5. Fits(q)
      BY <3>4 DEF Fits
    <3> HIDE DEF q
    <3>6. Asked'
      BY <1>2, <3>1, <3>5 DEF Asked
    <3>7. Dialogs'
      BY <1>2, <2>1, <3>1 DEF Dialogs
    <3> QED
      BY <1>3, <1>4, <1>6, <1>8, <1>9, <2>1, <3>2, <3>6, <3>7
  <2>3. CASE Submits /\ ~formTitle
    <3>1. submitError' = TRUE /\ UNCHANGED <<submitting, requests, submits>>
      BY <1>19, <2>3 DEF HandleCreateFixSubmit
    <3>2. Dialogs'
      BY <1>2, <2>1, <3>1 DEF Dialogs
    <3> QED
      BY <1>3, <1>4, <1>6, <1>7, <1>8, <1>9, <1>10, <2>1, <3>1, <3>2
  <2>4. CASE ~Submits
    <3>1. UNCHANGED <<submitError, submitting, requests, submits>>
      BY <1>19, <2>4 DEF HandleCreateFixSubmit
    <3>2. Dialogs'
      BY <1>2, <2>1, <3>1 DEF Dialogs
    <3> QED
      BY <1>3, <1>4, <1>6, <1>7, <1>8, <1>9, <1>10, <2>1, <3>1, <3>2
  <2> QED
    BY <2>2, <2>3, <2>4
<1>20. ASSUME NEW p \in Pages, HandlePage(p) PROVE RunsTypeInv'
  <2>1. visits < MaxVisits /\ visits' = visits + 1 /\ visit' = [page |-> p, at |-> "out", got |-> NoSheet]
        /\ UNCHANGED <<submits, glitches>>
    BY <1>20 DEF HandlePage
  <2>2. Router'
    BY <2>1 DEF Router, Visit
  <2>3. Bounds'
    BY <1>1, <1>2, <2>1 DEF Bounds
  <2> QED
    BY <1>3, <1>4, <1>5, <1>6, <1>7, <1>9, <1>20, <2>2, <2>3 DEF HandlePage
<1>21. CASE Rendered
  <2>1. visit.at = "out" /\ visit' = [visit EXCEPT !.at = "ok", !.got = ReadOf(visit.page)]
    BY <1>21 DEF Rendered
  <2>2. visit \in Visit /\ visit.page \in Pages
    BY <1>2, <2>1 DEF Router
  <2>3. ReadOf(visit.page) \in Sheet
    BY <1>14, <2>2
  <2>4. Router'
    BY <2>1, <2>2, <2>3 DEF Router, Visit
  <2> QED
    BY <1>3, <1>4, <1>5, <1>6, <1>7, <1>9, <1>10, <1>21, <2>4 DEF Rendered
<1>22. CASE RenderFails
  <2>1. visit.at = "out" /\ visit' = [visit EXCEPT !.at = "failed"]
        /\ glitches < MaxGlitches /\ glitches' = glitches + 1 /\ UNCHANGED <<submits, visits>>
    BY <1>22 DEF RenderFails
  <2>2. Router'
    BY <1>2, <2>1 DEF Router, Visit
  <2>3. Bounds'
    BY <1>1, <1>2, <2>1 DEF Bounds
  <2> QED
    BY <1>3, <1>4, <1>5, <1>6, <1>7, <1>9, <1>22, <2>2, <2>3 DEF RenderFails
<1>23. CASE Synced
  <2>1. visit.at = "ok" /\ sheet' = visit.got /\ UNCHANGED <<loading, errorMessage>>
    BY <1>23 DEF Synced
  <2>2. sheet' \in Sheet
    BY <1>2, <2>1 DEF Router
  <2>3. sheet' # NoSheet
    <3>1. sheet'.page \in Pages
      BY <2>2 DEF Sheet
    <3> QED
      BY <3>1, RunsAssumption DEF NoSheet
  <2>4. Table' /\ Open'
    BY <1>2, <2>1, <2>2, <2>3 DEF Table, Open
  <2> QED
    BY <1>3, <1>5, <1>7, <1>8, <1>9, <1>10, <1>23, <2>4 DEF Synced
<1>24. CASE Unmounted
  <2>1. Table'
    BY <1>24 DEF Unmounted, Table
  <2>2. Dialogs'
    BY <1>24 DEF Unmounted, Dialogs
  <2>3. Asked'
    <3>1. ASSUME NEW q \in requests PROVE Fits([q EXCEPT !.mine = FALSE])
      <4> DEFINE r == [q EXCEPT !.mine = FALSE]
      <4>1. q \in Request /\ (q.op = "read" /\ q.at = "ok" => q.got \in Sheet)
        BY <1>2 DEF Asked, Fits
      <4>2. r \in Request /\ r.op = q.op /\ r.at = q.at /\ r.got = q.got
        BY <4>1 DEF Request
      <4> QED
        BY <4>1, <4>2 DEF Fits
    <3>2. requests' = {[q EXCEPT !.mine = FALSE] : q \in requests}
      BY <1>24 DEF Unmounted
    <3> QED
      BY <3>1, <3>2 DEF Asked
  <2> QED
    BY <1>3, <1>6, <1>8, <1>9, <1>10, <1>24, <2>1, <2>2, <2>3 DEF Unmounted
<1>25. ASSUME NEW q \in requests, Serve(q) PROVE RunsTypeInv'
  <2>1. q \in Request
    BY <1>2 DEF Asked, Fits
  <2>2. CASE q.op = "create"
    <3> DEFINE r == [q EXCEPT !.at = "ok"]
    <3>1. r \in Request /\ r.op = "create"
      BY <2>1, <2>2 DEF Request
    <3>2. Fits(r)
      BY <3>1 DEF Fits
    <3>3. fixed' = fixed \cup q.runs /\ fixCount' = fixCount + 1
          /\ requests' = (requests \ {q}) \cup {r}
      BY <1>25, <2>2 DEF Serve
    <3>4. q.runs \subseteq Runs
      BY <2>1 DEF Request
    <3> HIDE DEF r
    <3>5. Stored_' /\ Asked'
      BY <1>2, <1>11, <3>2, <3>3, <3>4 DEF Stored_
    <3> QED
      BY <1>3, <1>4, <1>5, <1>6, <1>8, <1>10, <1>25, <3>5 DEF Serve
  <2>3. CASE q.op # "create"
    <3> DEFINE r == [q EXCEPT !.at = "ok", !.got = ReadOf(q.page)]
    <3>1. ReadOf(q.page) \in Sheet
      BY <1>14, <2>1 DEF Request
    <3>2. r \in Request /\ r.got \in Sheet
      BY <2>1, <3>1 DEF Request
    <3>3. Fits(r)
      BY <3>2 DEF Fits
    <3>4. requests' = (requests \ {q}) \cup {r} /\ UNCHANGED <<fixed, fixCount>>
      BY <1>25, <2>3 DEF Serve
    <3> HIDE DEF r
    <3>5. Asked'
      BY <1>11, <3>3, <3>4
    <3> QED
      BY <1>3, <1>4, <1>5, <1>6, <1>8, <1>9, <1>10, <1>25, <3>4, <3>5 DEF Serve
  <2> QED
    BY <2>2, <2>3
<1>26. ASSUME NEW q \in requests, Glitch(q) PROVE RunsTypeInv'
  <2> DEFINE r == IF TriesAgain(q) THEN [q EXCEPT !.try = q.try + 1, !.at = "out", !.got = NoSheet]
                                   ELSE [q EXCEPT !.at = "failed", !.got = NoSheet]
  <2>1. q \in Request
    BY <1>2 DEF Asked, Fits
  <2>2. r \in Request /\ r.at # "ok"
    <3>1. CASE TriesAgain(q)
      <4>1. q.try + 1 \in 0..Retries
        BY <1>1, <2>1, <3>1 DEF TriesAgain, Request
      <4> QED
        BY <1>13, <2>1, <3>1, <4>1 DEF Request
    <3>2. CASE ~TriesAgain(q)
      BY <1>13, <2>1, <3>2 DEF Request
    <3> QED
      BY <3>1, <3>2
  <2>3. requests' = (requests \ {q}) \cup {r} /\ glitches < MaxGlitches /\ glitches' = glitches + 1
        /\ UNCHANGED <<submits, visits>>
    BY <1>26 DEF Glitch
  <2> HIDE DEF r
  <2>4. Fits(r)
    BY <2>2 DEF Fits
  <2>5. Asked'
    BY <1>11, <2>3, <2>4
  <2>6. Bounds'
    BY <1>1, <1>2, <2>3 DEF Bounds
  <2> QED
    BY <1>3, <1>4, <1>5, <1>6, <1>8, <1>9, <1>26, <2>5, <2>6 DEF Glitch
<1>27. ASSUME NEW q \in requests, Saved(q) PROVE RunsTypeInv'
  <2>1. q \in Request
    BY <1>2 DEF Asked, Fits
  <2>2. CASE q.at = "ok"
    <3> DEFINE r == [q EXCEPT !.op = "read", !.at = "out", !.try = 0]
    <3>1. r \in Request /\ r.at = "out"
      <4>1. 0 \in 0..Retries
        BY <1>1
      <4>2. q \in Request => [q EXCEPT !.op = "read"] \in Request
        BY DEF Request
      <4>3. ASSUME NEW s \in Request PROVE [s EXCEPT !.at = "out", !.try = 0] \in Request
        BY <4>1 DEF Request
      <4>4. r = [[q EXCEPT !.op = "read"] EXCEPT !.at = "out", !.try = 0]
        BY DEF Request
      <4>5. r \in Request
        BY <2>1, <4>2, <4>3, <4>4
      <4>6. r.at = "out"
        BY <2>1 DEF Request
      <4> QED
        BY <4>5, <4>6
    <3>2. Fits(r)
      BY <3>1 DEF Fits
    <3>3. /\ createFixForRun' = 0 /\ loading' = TRUE /\ errorMessage' = FALSE
          /\ requests' = (requests \ {q}) \cup {r}
          /\ UNCHANGED <<submitError, submitting, sheet, activeFix, formTitle, formAffected>>
      BY <1>27, <2>2 DEF Saved
    <3> HIDE DEF r
    <3>4. Asked'
      BY <1>11, <3>2, <3>3
    <3>5. Table' /\ Dialogs'
      BY <1>2, <3>3 DEF Table, Dialogs
    <3> QED
      BY <1>3, <1>6, <1>8, <1>9, <1>10, <1>27, <3>3, <3>4, <3>5 DEF Saved
  <2>3. CASE q.at # "ok"
    <3>1. /\ submitError' = TRUE /\ submitting' = FALSE /\ requests' = requests \ {q}
          /\ UNCHANGED <<createFixForRun, loading, errorMessage, sheet, activeFix, formTitle,
                         formAffected>>
      BY <1>27, <2>3 DEF Saved
    <3>2. Asked' /\ Dialogs'
      BY <1>2, <1>12, <3>1 DEF Dialogs
    <3> QED
      BY <1>3, <1>4, <1>6, <1>8, <1>9, <1>10, <1>27, <3>1, <3>2 DEF Saved
  <2> QED
    BY <2>2, <2>3
<1>28. ASSUME NEW q \in requests, FetchPage(q) PROVE RunsTypeInv'
  <2>1. q.op = "read" /\ sheet' = (IF q.at = "ok" THEN q.got ELSE sheet) /\ loading' = FALSE
        /\ errorMessage' = (q.at = "failed") /\ submitting' = FALSE /\ requests' = requests \ {q}
        /\ UNCHANGED <<createFixForRun, activeFix, formTitle, formAffected, submitError>>
    BY <1>28 DEF FetchPage
  <2>2. q.at = "ok" => q.got \in Sheet /\ q.got # NoSheet
    <3>1. q.at = "ok" => q.got \in Sheet
      BY <1>2, <2>1 DEF Asked, Fits
    <3>2. q.got \in Sheet => q.got.page \in Pages
      BY DEF Sheet
    <3> QED
      BY <3>1, <3>2, RunsAssumption DEF NoSheet
  <2>3. errorMessage' \in BOOLEAN
    BY <2>1
  <2>4. Table' /\ Open' /\ Dialogs'
    BY <1>2, <2>1, <2>2, <2>3 DEF Table, Open, Dialogs
  <2>5. Asked'
    BY <1>12, <2>1
  <2> QED
    BY <1>3, <1>8, <1>9, <1>10, <1>28, <2>4, <2>5 DEF FetchPage
<1>29. ASSUME NEW q \in requests, Missed(q) PROVE RunsTypeInv'
  <2>1. Asked'
    BY <1>12, <1>29 DEF Missed
  <2> QED
    BY <1>3, <1>4, <1>5, <1>6, <1>8, <1>9, <1>10, <1>29, <2>1 DEF Missed
<1>30. CASE UNCHANGED runsVars
  BY <1>3, <1>4, <1>5, <1>6, <1>7, <1>8, <1>9, <1>10, <1>30 DEF runsVars
<1> QED
  BY <1>15, <1>16, <1>17, <1>18, <1>19, <1>20, <1>21, <1>22, <1>23, <1>24, <1>25, <1>26,
     <1>27, <1>28, <1>29, <1>30
  DEF RunsNext, Routing, Progress

----------------------------------------------------------------------------
(* The account and its list of sessions.                                   *)

LEMMA NewCallIsCall ==
  ASSUME AccountTypeOK, NEW id \in Ids \cup {0}, NEW as \in Tokens,
         NEW op \in {"validate", "login", "list", "timer"} \cup Changes
  PROVE  NewCall(op, id, as) \in Call
<1>1. ops \in 0..MaxOps
  BY DEF AccountTypeOK
<1> QED
  BY <1>1, NoListType DEF NewCall, Call

LEMMA ReloadIsCall ==
  ASSUME NEW c \in Call, NEW then \in {"nothing", "open", "endRename", "rollBack"}
  PROVE  Reload(c, then) \in Call
BY DEF Reload, Call

LEMMA StoredIsSessions ==
  ASSUME held \in Sessions, NEW c
  PROVE  Stored(c) \in Sessions
<1>1. \A s \in 0..2 : [held EXCEPT ![c.id] = s] \in Sessions
  BY DEF Sessions
<1>2. \/ Stored(c) = held
      \/ \E s \in 0..2 : Stored(c) = [held EXCEPT ![c.id] = s]
  <2>1. CASE c.op = "create" /\ held[c.id] = 0
    BY <2>1 DEF Stored
  <2>2. CASE c.op = "rename" /\ held[c.id] # 0
    BY <2>2 DEF Stored
  <2>3. CASE c.op = "delete"
    BY <2>3 DEF Stored
  <2>4. CASE /\ ~(c.op = "create" /\ held[c.id] = 0) /\ ~(c.op = "rename" /\ held[c.id] # 0)
             /\ c.op # "delete"
    BY <2>4 DEF Stored
  <2> QED
    BY <2>1, <2>2, <2>3, <2>4
<1> QED
  BY <1>1, <1>2

LEMMA AccountTypeInit == AccountInit => AccountTypeOK
<1> SUFFICES ASSUME AccountInit PROVE AccountTypeOK
  OBVIOUS
<1>1. MaxOps \in Nat /\ MaxFaults \in Nat
  BY AccountAssumption
<1>2. NoList \in Sessions /\ held \in Sessions
  BY DEF NoList, Sessions, AccountInit
<1>3. /\ token = 0 /\ stored = 1 /\ expired = {} /\ list = NoList /\ ops = 0 /\ drops = 0
      /\ deletingId = 0 /\ deletingSessionId = 0 /\ renaming = 0 /\ path = 0 /\ astray = FALSE
  BY DEF AccountInit
<1>4. \A c \in inflight : c \in Call
  <2> DEFINE v == [op |-> "validate", n |-> 0, id |-> 0, as |-> 1, here |-> FALSE,
                   then |-> "nothing", at |-> "out", got |-> NoList]
  <2>1. v \in Call
    <3>1. 0 \in 0..MaxOps /\ 1 \in Tokens
      BY <1>1 DEF Tokens
    <3> QED
      BY <1>2, <3>1 DEF Call
  <2>2. inflight = {v}
    BY DEF AccountInit
  <2> HIDE DEF v
  <2> QED
    BY <2>1, <2>2
<1>5. 0 \in 0..MaxOps /\ 0 \in 0..MaxFaults /\ {0, 1} \subseteq Tokens
  BY <1>1 DEF Tokens
<1>6. astray \in BOOLEAN
  BY <1>3
<1> QED
  BY <1>2, <1>3, <1>4, <1>5, <1>6 DEF AccountTypeOK

LEMMA AccountTypeStep == AccountTypeOK /\ [AccountNext]_accountVars => AccountTypeOK'
<1> SUFFICES ASSUME AccountTypeOK, [AccountNext]_accountVars PROVE AccountTypeOK'
  OBVIOUS
<1> DEFINE Auth  == token \in Tokens /\ stored \in Tokens
           Gone  == expired \subseteq 1..2
           Held  == held \in Sessions
           List_ == list \in Sessions
           Calls == \A c \in inflight : c \in Call
           Rows_ == {deletingId, deletingSessionId, renaming, path} \subseteq Ids \cup {0}
           Count == ops \in 0..MaxOps
           Drops == drops \in 0..MaxFaults
           Stray == astray \in BOOLEAN
<1>1. MaxOps \in Nat /\ MaxFaults \in Nat /\ Ids \subseteq Nat \ {0}
  BY AccountAssumption
<1>2. Auth /\ Gone /\ Held /\ List_ /\ Calls /\ Rows_ /\ Count /\ Drops /\ Stray
  BY DEF AccountTypeOK
<1>3. Auth' /\ Gone' /\ Held' /\ List_' /\ Calls' /\ Rows_' /\ Count' /\ Drops' /\ Stray'
        => AccountTypeOK'
  BY DEF AccountTypeOK
<1>4. /\ UNCHANGED <<token, stored>> => Auth'
      /\ UNCHANGED expired => Gone'
      /\ UNCHANGED held => Held'
      /\ UNCHANGED list => List_'
      /\ UNCHANGED inflight => Calls'
      /\ UNCHANGED <<deletingId, deletingSessionId, renaming, path>> => Rows_'
      /\ UNCHANGED ops => Count'
      /\ UNCHANGED drops => Drops'
      /\ UNCHANGED astray => Stray'
  BY <1>2
<1>5. Click => Count'
  BY <1>1, <1>2 DEF Click
<1>6. ASSUME NEW r \in Call, inflight' = inflight \cup {r} PROVE Calls'
  BY <1>2, <1>6
<1>7. ASSUME NEW c \in inflight, NEW r \in Call, inflight' = (inflight \ {c}) \cup {r} PROVE Calls'
  BY <1>2, <1>7
<1>8. ASSUME NEW c \in inflight, inflight' = inflight \ {c} PROVE Calls'
  BY <1>2, <1>8
<1>9. ASSUME NEW c, Session(c) PROVE Auth' /\ List_'
  BY <1>2, <1>9, NoListType DEF Session, Tokens
<1>10. 0 \in Tokens /\ 2 \in Tokens
  BY DEF Tokens
<1> HIDE DEF Auth, Gone, Held, List_, Calls, Rows_, Count, Drops, Stray
<1>11. CASE SubmitLogin
  <2>1. NewCall("login", 0, 0) \in Call
    BY <1>10, NewCallIsCall
  <2>2. Calls'
    BY <1>6, <1>11, <2>1 DEF SubmitLogin
  <2> QED
    BY <1>3, <1>4, <1>5, <1>11, <2>2 DEF SubmitLogin
<1>12. CASE SignOut
  <2>1. Auth' /\ List_'
    BY <1>10, <1>12, NoListType DEF SignOut, Auth, List_
  <2> QED
    BY <1>3, <1>4, <1>12, <2>1 DEF SignOut
<1>13. CASE HandleNewChat
  <2>1. PICK i \in Ids : inflight' = inflight \cup {NewCall("create", i, token)}
    BY <1>13 DEF HandleNewChat
  <2>2. NewCall("create", i, token) \in Call
    <3>1. "create" \in {"validate", "login", "list", "timer"} \cup Changes /\ token \in Tokens
      BY <1>2 DEF Auth, Changes
    <3> QED
      BY <3>1, NewCallIsCall
  <2>3. Calls'
    BY <1>6, <2>1, <2>2
  <2> QED
    BY <1>3, <1>4, <1>5, <1>13, <2>3 DEF HandleNewChat
<1>14. ASSUME NEW i \in Ids, HandleDeleteSession(i) PROVE AccountTypeOK'
  <2> DEFINE q == NewCall("timer", i, token)
             here == path = i
             r == [q EXCEPT !.here = here]
  <2>1. q \in Call
    <3>1. token \in Tokens
      BY <1>2 DEF Auth
    <3> QED
      BY <3>1, NewCallIsCall
  <2>2. here \in BOOLEAN
    OBVIOUS
  <2>3. inflight' = inflight \cup {r}
    BY <1>14 DEF HandleDeleteSession
  <2> HIDE DEF q, here
  <2>4. r \in Call
    BY <2>1, <2>2 DEF Call
  <2>5. Calls'
    BY <1>6, <2>3, <2>4
  <2>6. Rows_'
    BY <1>2, <1>14 DEF HandleDeleteSession, Rows_
  <2> QED
    BY <1>3, <1>4, <1>5, <1>14, <2>5, <2>6 DEF HandleDeleteSession
<1>15. ASSUME NEW i \in Ids, EditName(i) \/ OpenSession(i) PROVE AccountTypeOK'
  <2>1. Rows_'
    BY <1>2, <1>15 DEF EditName, OpenSession, Rows_
  <2> QED
    BY <1>3, <1>4, <1>15, <2>1 DEF EditName, OpenSession
<1>16. ASSUME NEW i \in Ids, HandleRenameSession(i) PROVE AccountTypeOK'
  <2>1. CASE token = 0
    <3>1. Rows_'
      BY <1>2, <1>16, <2>1 DEF HandleRenameSession, Rows_
    <3> QED
      BY <1>3, <1>4, <1>16, <2>1, <3>1 DEF HandleRenameSession
  <2>2. CASE token # 0
    <3>1. Click /\ UNCHANGED renaming /\ inflight' = inflight \cup {NewCall("rename", i, token)}
      BY <1>16, <2>2 DEF HandleRenameSession
    <3>2. NewCall("rename", i, token) \in Call
      <4>1. "rename" \in {"validate", "login", "list", "timer"} \cup Changes /\ token \in Tokens
        BY <1>2 DEF Auth, Changes
      <4> QED
        BY <4>1, NewCallIsCall
    <3>3. Calls'
      BY <1>6, <3>1, <3>2
    <3> QED
      BY <1>3, <1>4, <1>5, <1>16, <3>1, <3>3 DEF HandleRenameSession
  <2> QED
    BY <2>1, <2>2
<1>17. CASE CancelName
  <2>1. Rows_'
    BY <1>2, <1>17 DEF CancelName, Rows_
  <2> QED
    BY <1>3, <1>4, <1>17, <2>1 DEF CancelName
<1>18. ASSUME NEW c \in inflight, Arrive(c) PROVE AccountTypeOK'
  <2> DEFINE status == IF Refused(c) THEN "refused"
                       ELSE IF c.op = "rename" /\ held[c.id] = 0 THEN "failed" ELSE "ok"
             answer == IF c.op = "list" THEN held ELSE NoList
             r == [c EXCEPT !.at = status, !.got = answer]
  <2>1. status \in {"refused", "failed", "ok"} /\ answer \in Sessions /\ c \in Call
    BY <1>2, NoListType DEF Held, Calls
  <2>2. /\ inflight' = (inflight \ {c}) \cup {r}
        /\ held' = IF status = "ok" THEN Stored(c) ELSE held
    BY <1>18 DEF Arrive
  <2> HIDE DEF status, answer
  <2>3. r \in Call
    BY <2>1 DEF Call
  <2>4. Calls'
    BY <1>7, <2>2, <2>3
  <2>5. Held'
    BY <1>2, <2>2, StoredIsSessions DEF Held
  <2> QED
    BY <1>3, <1>4, <1>18, <2>4, <2>5 DEF Arrive
<1>19. ASSUME NEW c \in inflight, Lose(c) PROVE AccountTypeOK'
  <2>1. c \in Call
    BY <1>2 DEF Calls
  <2>2. [c EXCEPT !.at = "failed", !.got = NoList] \in Call
    BY <2>1, NoListType DEF Call
  <2>3. Calls'
    BY <1>7, <1>19, <2>2 DEF Lose
  <2>4. Drops'
    BY <1>1, <1>2, <1>19 DEF Lose, Drops
  <2> QED
    BY <1>3, <1>4, <1>19, <2>3, <2>4 DEF Lose
<1>20. ASSUME NEW t \in 1..2, Expire(t) PROVE AccountTypeOK'
  <2>1. Gone'
    BY <1>2, <1>20 DEF Expire, Gone
  <2> QED
    BY <1>3, <1>4, <1>20, <2>1 DEF Expire
<1>21. ASSUME NEW c \in inflight, NEW t \in Tokens,
              inflight' = (inflight \ {c}) \cup (IF token = t THEN {} ELSE Effect(t))
       PROVE  Calls'
  <2>1. CASE token = t
    <3>1. inflight' = inflight \ {c}
      BY <1>21, <2>1
    <3> QED
      BY <1>8, <3>1
  <2>2. CASE token # t
    <3>1. inflight' = (inflight \ {c}) \cup {NewCall("list", 0, t)}
      BY <1>21, <2>2 DEF Effect
    <3>2. NewCall("list", 0, t) \in Call
      BY NewCallIsCall
    <3> QED
      BY <1>7, <3>1, <3>2
  <2> QED
    BY <2>1, <2>2
<1>22. ASSUME NEW c \in inflight, Validated(c) PROVE AccountTypeOK'
  <2>1. CASE c.at = "ok"
    <3>1. token' = c.as /\ UNCHANGED stored
          /\ inflight' = (inflight \ {c}) \cup (IF token = c.as THEN {} ELSE Effect(c.as))
      BY <1>22, <2>1 DEF Validated
    <3>2. c.as \in Tokens
      BY <1>2 DEF Calls, Call
    <3>3. Auth' /\ Calls'
      BY <1>2, <1>21, <3>1, <3>2 DEF Auth
    <3> QED
      BY <1>3, <1>4, <1>22, <3>3 DEF Validated
  <2>2. CASE c.at # "ok"
    <3>1. stored' = 0 /\ inflight' = inflight \ {c} /\ UNCHANGED token
      BY <1>22, <2>2 DEF Validated
    <3>2. Auth' /\ Calls'
      BY <1>2, <1>8, <1>10, <3>1 DEF Auth
    <3> QED
      BY <1>3, <1>4, <1>22, <3>2 DEF Validated
  <2> QED
    BY <2>1, <2>2
<1>23. ASSUME NEW c \in inflight, LoggedIn(c) PROVE AccountTypeOK'
  <2>1. CASE c.at = "ok"
    <3>1. token' = 2 /\ stored' = 2
          /\ inflight' = (inflight \ {c}) \cup (IF token = 2 THEN {} ELSE Effect(2))
      BY <1>23, <2>1 DEF LoggedIn
    <3>2. Auth' /\ Calls'
      BY <1>10, <1>21, <3>1 DEF Auth
    <3> QED
      BY <1>3, <1>4, <1>23, <3>2 DEF LoggedIn
  <2>2. CASE c.at # "ok"
    <3>1. inflight' = inflight \ {c} /\ UNCHANGED <<token, stored>>
      BY <1>23, <2>2 DEF LoggedIn
    <3>2. Calls'
      BY <1>8, <3>1
    <3> QED
      BY <1>3, <1>4, <1>23, <3>1, <3>2 DEF LoggedIn
  <2> QED
    BY <2>1, <2>2
<1>24. ASSUME NEW c \in inflight, Collapse(c) PROVE AccountTypeOK'
  <2>1. c \in Call
    BY <1>2 DEF Calls
  <2>2. [c EXCEPT !.op = "delete"] \in Call
    BY <2>1 DEF Call, Changes
  <2>3. Calls'
    BY <1>7, <1>24, <2>2 DEF Collapse
  <2>4. List_'
    <3>1. list \in [Ids -> 0..2] /\ list' = [list EXCEPT ![c.id] = 0]
      BY <1>2, <1>24 DEF Collapse, List_, Sessions
    <3>2. \A s \in 0..2 : [list EXCEPT ![c.id] = s] \in [Ids -> 0..2]
      BY <3>1
    <3>3. [list EXCEPT ![c.id] = 0] \in [Ids -> 0..2]
      BY <3>2
    <3>4. list' \in [Ids -> 0..2]
      BY <3>1, <3>3, Zenon
    <3> QED
      BY <3>4 DEF List_, Sessions
  <2>5. Rows_'
    <3>1. c.id \in Ids \cup {0}
      BY <2>1 DEF Call
    <3> QED
      BY <1>2, <1>24, <3>1 DEF Collapse, Rows_
  <2> QED
    BY <1>3, <1>4, <1>24, <2>3, <2>4, <2>5 DEF Collapse
<1>25. ASSUME NEW c \in inflight, NEW then \in {"open", "endRename"},
              inflight' = (inflight \ {c}) \cup (IF c.at = "ok" THEN {Reload(c, then)} ELSE {})
       PROVE  Calls'
  <2>1. CASE c.at = "ok"
    <3>1. Reload(c, then) \in Call
      BY <1>2, ReloadIsCall DEF Calls
    <3>2. inflight' = (inflight \ {c}) \cup {Reload(c, then)}
      BY <1>25, <2>1
    <3> QED
      BY <1>7, <3>1, <3>2
  <2>2. CASE c.at # "ok"
    <3>1. inflight' = inflight \ {c}
      BY <1>25, <2>2
    <3> QED
      BY <1>8, <3>1
  <2> QED
    BY <2>1, <2>2
<1>26. ASSUME NEW c, astray' = (astray \/ c.at = "failed") PROVE Stray'
  BY <1>26 DEF Stray
<1>27. ASSUME NEW c \in inflight, Created(c) PROVE AccountTypeOK'
  <2>1. Calls' /\ Stray' /\ Auth' /\ List_'
    BY <1>9, <1>25, <1>26, <1>27 DEF Created
  <2> QED
    BY <1>3, <1>4, <1>27, <2>1 DEF Created
<1>28. ASSUME NEW c \in inflight, Renamed(c) PROVE AccountTypeOK'
  <2>1. Calls' /\ Stray' /\ Auth' /\ List_'
    BY <1>9, <1>25, <1>26, <1>28 DEF Renamed
  <2> QED
    BY <1>3, <1>4, <1>28, <2>1 DEF Renamed
<1>29. ASSUME NEW c, EndDeletion(c)
       PROVE  {deletingId, deletingSessionId}' \subseteq Ids \cup {0}
  BY <1>2, <1>29 DEF EndDeletion, Rows_
<1>30. ASSUME NEW c \in inflight, Deleted(c) PROVE AccountTypeOK'
  <2>1. Auth' /\ List_'
    BY <1>9, <1>30 DEF Deleted
  <2>2. CASE c.at = "ok"
    <3>1. inflight' = inflight \ {c} /\ path' = (IF c.here THEN 0 ELSE path) /\ EndDeletion(c)
          /\ UNCHANGED renaming
      BY <1>30, <2>2 DEF Deleted
    <3>2. Calls' /\ {deletingId, deletingSessionId}' \subseteq Ids \cup {0}
      BY <1>8, <1>29, <3>1
    <3>3. Rows_'
      BY <1>2, <3>1, <3>2 DEF Rows_
    <3> QED
      BY <1>3, <1>4, <1>30, <2>1, <3>2, <3>3 DEF Deleted
  <2>3. CASE c.at # "ok"
    <3>1. inflight' = (inflight \ {c}) \cup {Reload(c, "rollBack")}
          /\ UNCHANGED <<path, deletingId, deletingSessionId, renaming>>
      BY <1>30, <2>3 DEF Deleted
    <3>2. Reload(c, "rollBack") \in Call
      BY <1>2, ReloadIsCall DEF Calls
    <3>3. Calls'
      BY <1>7, <3>1, <3>2
    <3> QED
      BY <1>3, <1>4, <1>30, <2>1, <3>1, <3>3 DEF Deleted
  <2> QED
    BY <2>2, <2>3
<1>31. ASSUME NEW c \in inflight, Listed(c) PROVE AccountTypeOK'
  <2>1. c \in Call
    BY <1>2 DEF Calls
  <2>2. c.got \in Sessions /\ c.id \in Ids \cup {0}
    BY <2>1 DEF Call
  <2>3. Calls' /\ List_'
    BY <1>8, <1>31, <2>2 DEF Listed, List_
  <2>4. {deletingId, deletingSessionId}' \subseteq Ids \cup {0}
    <3>1. CASE c.then = "rollBack"
      BY <1>29, <1>31, <3>1 DEF Listed
    <3>2. CASE c.then # "rollBack"
      BY <1>2, <1>31, <3>2 DEF Listed, Rows_
    <3> QED
      BY <3>1, <3>2
  <2>5. Rows_'
    BY <1>2, <1>31, <2>2, <2>4 DEF Listed, Rows_
  <2>6. Stray'
    <3>1. astray' = (c.at = "failed" \/ c.got # held \/ \E d \in inflight : d.op \in Changes)
      BY <1>31 DEF Listed
    <3> QED
      BY <3>1, Zenon DEF Stray
  <2> QED
    BY <1>3, <1>4, <1>31, <2>3, <2>5, <2>6 DEF Listed
<1>32. CASE UNCHANGED accountVars
  BY <1>3, <1>4, <1>32 DEF accountVars
<1> QED
  BY <1>11, <1>12, <1>13, <1>14, <1>15, <1>16, <1>17, <1>18, <1>19, <1>20, <1>22, <1>23,
     <1>24, <1>27, <1>28, <1>30, <1>31, <1>32
  DEF AccountNext, Served, Answer

----------------------------------------------------------------------------
(* The tab.                                                                *)

TabTypeInv == /\ AccountTypeOK /\ RunsTypeInv /\ MenuTypeOK /\ FeedInv /\ FeedTypeInv
              /\ BenchTypeOK /\ SearchTypeInv /\ StatsTypeInv

\* The pages stay well formed.  With it: the live log never keeps more than one log beyond
\* its buffer, but for an answer that was longer, and the arguments in the
\* tool editor are always those of the selected tool.
THEOREM TabWellFormed == TabSpec => []TabTypeOK
<1>1. TabInit => TabTypeInv
  BY TabStarts, AccountTypeInit, RunsTypeInit, MenuTypeInit, FeedInitInv, FeedTypeInit,
     BenchTypeInit, SearchTypeInit, StatsTypeInit
  DEF TabTypeInv
<1>2. TabTypeInv /\ [TabNext]_tabVars => TabTypeInv'
  BY TabSteps, AccountTypeStep, RunsTypeStep, MenuTypeStep, FeedStep, FeedTypeStep,
     BenchTypeStep, SearchTypeStep, StatsTypeStep
  DEF TabTypeInv
<1>3. TabTypeInv => TabTypeOK
  BY FeedWellFormed DEF TabTypeInv, RunsTypeInv, SearchTypeInv, StatsTypeInv, TabTypeOK
<1> QED
  BY <1>1, <1>2, <1>3, PTL DEF TabSpec
=============================================================================
