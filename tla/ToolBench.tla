------------------------------ MODULE ToolBench ------------------------------
(***************************************************************************)
(* The tools page: the agent's tools are read when it opens and on         *)
(* Refresh, one of them is selected, and Execute runs it.  Neither kind of *)
(* request is ever cancelled, and the loads may overlap: the first answer  *)
(* makes the page usable while a second one is still to come.              *)
(***************************************************************************)
EXTENDS Integers, Sequences, SequencesExt

CONSTANTS ToolOrders,   \* the lists of tools the agent may answer with
          InitialTool,  \* the tool named in the address, or NoTool
          NoTool,
          MaxLoads, MaxExecutions   \* bounds

ASSUME BenchAssumption == /\ \A o \in ToolOrders : /\ o \in Seq(ToSet(o)) /\ IsInjective(o)
                                                  /\ ~Contains(o, NoTool)
                          /\ MaxLoads \in Nat \ {0} /\ MaxExecutions \in Nat

Tools == UNION {ToSet(o) : o \in ToolOrders}

VARIABLES tools, selectedTool, loadingTools, isRefreshing,
          argsJson,          \* the tool whose arguments are in the editor, and whether they parse
          isExecuting,
          executionResult,   \* 0 nothing, n the n-th execution's, -1 a refusal of the page
          signedIn,
          loads,             \* loads under way
          runs,              \* executions under way
          loadCount, executions

benchVars == <<tools, selectedTool, loadingTools, isRefreshing, argsJson, isExecuting,
               executionResult, signedIn, loads, runs, loadCount, executions>>

BenchInit ==
  /\ tools = <<>> /\ selectedTool = NoTool /\ argsJson = [of |-> NoTool, parses |-> TRUE]
  /\ loadingTools = FALSE /\ isRefreshing = FALSE
  /\ isExecuting = FALSE /\ executionResult = 0 /\ signedIn = TRUE
  /\ loads = {} /\ loadCount = 0 /\ runs = {} /\ executions = 0

\* The page opens: loadTools, as its effect.
OpenTools ==
  /\ loadCount = 0 /\ loadCount' = 1 /\ loadingTools' = TRUE
  /\ loads' = {[n |-> 1, at |-> "out", got |-> <<>>]}
  /\ UNCHANGED <<tools, selectedTool, isRefreshing, argsJson, isExecuting,
                 executionResult, signedIn, runs, executions>>

\* "Refresh", off while a refresh goes on, but not during the first load.
Refresh ==
  /\ ~isRefreshing /\ loadCount \in 1..MaxLoads - 1 /\ loadCount' = loadCount + 1
  /\ isRefreshing' = TRUE /\ loadingTools' = TRUE
  /\ loads' = loads \cup {[n |-> loadCount', at |-> "out", got |-> <<>>]}
  /\ UNCHANGED <<tools, selectedTool, argsJson, isExecuting, executionResult, signedIn,
                 runs, executions>>

\* fetchTools turns every failure into an empty list, so the error panel never shows.
ToolsListed(l) ==
  /\ l.at = "out"
  /\ \E o \in ToolOrders \cup {<<>>} :
       loads' = (loads \ {l}) \cup {[l EXCEPT !.at = "ok", !.got = o]}
  /\ UNCHANGED <<tools, selectedTool, loadingTools, isRefreshing, argsJson, isExecuting,
                 executionResult, signedIn, runs, loadCount, executions>>

Initial(o) == IF Contains(o, InitialTool) THEN InitialTool ELSE o[1]

\* Seeded bug: refreshing ends only when the list is not empty.
RefreshEndsIfAny(l) == isRefreshing /\ l.got = <<>>

\* The finally block: whichever load it is.
RefreshEnds(l) == FALSE

\* An answer selects the initial tool again and replaces the arguments; the result stays.
LoadTools(l) ==
  /\ l.at = "ok" /\ loads' = loads \ {l}
  /\ tools' = l.got /\ loadingTools' = FALSE /\ isRefreshing' = RefreshEnds(l)
  /\ IF l.got = <<>>
       THEN UNCHANGED <<selectedTool, argsJson>>
       ELSE /\ selectedTool' = Initial(l.got)
            /\ argsJson' = [of |-> Initial(l.got), parses |-> TRUE]
  /\ UNCHANGED <<isExecuting, executionResult, signedIn, runs, loadCount, executions>>

PanelShown == ~loadingTools /\ loadCount > 0

\* The dropdown over the tools that were listed last; any of them can be searched for.
Options == ToSet(tools)

HandleToolSelect(t) ==
  /\ PanelShown /\ t \in Options
  /\ selectedTool' = t /\ argsJson' = [of |-> t, parses |-> TRUE] /\ executionResult' = 0
  /\ UNCHANGED <<tools, loadingTools, isRefreshing, isExecuting, signedIn, loads, runs,
                 loadCount, executions>>

EditArgs ==
  /\ PanelShown /\ argsJson' = [argsJson EXCEPT !.parses = ~@]
  /\ UNCHANGED <<tools, selectedTool, loadingTools, isRefreshing, isExecuting,
                 executionResult, signedIn, loads, runs, loadCount, executions>>

\* Seeded bug: the button is only off without a tool.
ExecuteAlwaysOn == selectedTool # NoTool

ExecuteOn == ~isExecuting /\ selectedTool # NoTool

\* Without a token, or with arguments that do not parse, the page refuses itself.
HandleExecute ==
  /\ PanelShown /\ ExecuteOn
  /\ IF signedIn /\ argsJson.parses
       THEN /\ executions < MaxExecutions /\ executions' = executions + 1
            /\ isExecuting' = TRUE
            /\ runs' = runs \cup {[n |-> executions', tool |-> selectedTool, at |-> "out"]}
            /\ UNCHANGED executionResult
       ELSE executionResult' = -1 /\ UNCHANGED <<executions, isExecuting, runs>>
  /\ UNCHANGED <<tools, selectedTool, loadingTools, isRefreshing, argsJson, signedIn,
                 loads, loadCount>>

\* The agent runs the tool, or the request fails: either way there is a result.
ToolRuns(r) ==
  /\ r.at = "out" /\ runs' = (runs \ {r}) \cup {[r EXCEPT !.at = "ok"]}
  /\ UNCHANGED <<tools, selectedTool, loadingTools, isRefreshing, argsJson, isExecuting,
                 executionResult, signedIn, loads, loadCount, executions>>

\* The result is shown whichever tool is selected by now.
ToolAnswers(r) ==
  /\ r.at = "ok" /\ runs' = runs \ {r}
  /\ executionResult' = r.n /\ isExecuting' = FALSE
  /\ UNCHANGED <<tools, selectedTool, loadingTools, isRefreshing, argsJson, signedIn,
                 loads, loadCount, executions>>

\* In the sidebar, and on the chat's login panel before.
SignInOrOut ==
  /\ signedIn' = ~signedIn
  /\ UNCHANGED <<tools, selectedTool, loadingTools, isRefreshing, argsJson, isExecuting,
                 executionResult, loads, runs, loadCount, executions>>

Loading   == \E l \in loads : ToolsListed(l) \/ LoadTools(l)
Executing == \E r \in runs : ToolRuns(r) \/ ToolAnswers(r)

BenchNext ==
  \/ OpenTools \/ Refresh \/ EditArgs \/ HandleExecute \/ SignInOrOut
  \/ \E t \in Tools : HandleToolSelect(t)
  \/ Loading \/ Executing

\* Every request is answered or fails.
BenchFair == WF_benchVars(Loading) /\ WF_benchVars(Executing)
BenchSpec == BenchInit /\ [][BenchNext]_benchVars /\ BenchFair

----------------------------------------------------------------------------
BenchTypeOK ==
  /\ tools \in ToolOrders \cup {<<>>} /\ selectedTool \in Tools \cup {NoTool}
  /\ argsJson \in [of : Tools \cup {NoTool}, parses : BOOLEAN]
  /\ argsJson.of = selectedTool
  /\ {loadingTools, isRefreshing, isExecuting, signedIn} \subseteq BOOLEAN
  /\ executionResult \in -1..MaxExecutions /\ executions \in 0..MaxExecutions
  /\ loads \subseteq [n : 1..MaxLoads, at : {"out", "ok"}, got : ToolOrders \cup {<<>>}]
  /\ runs \subseteq [n : 1..MaxExecutions, tool : Tools, at : {"out", "ok"}]

\* Once no execution is under way, a result on the page is that of the latest one,
\* through every selection, refresh and sign-out: a result that comes late never
\* replaces a newer one (handleExecute and the button that calls it).
ResultIsLatest == executionResult > 0 /\ ~isExecuting => executionResult = executions

\* Loading, refreshing and executing end, in whatever order overlapping loads answer
\* and whatever they answer (the finally blocks of loadTools and handleExecute).
BenchSettles ==
  (loadingTools \/ isRefreshing \/ isExecuting)
    ~> (~loadingTools /\ ~isRefreshing /\ ~isExecuting)
==============================================================================
