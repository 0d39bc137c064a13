--------------------------------- MODULE Tab ---------------------------------
(***************************************************************************)
(* A browser tab with one page of the application in it.  The pages share  *)
(* no state but what each module has of the account and of the local       *)
(* storage, and a page that is left loses its state, so a behaviour stays  *)
(* with the page it began with and the others keep their initial state.    *)
(* The sidebar with the account is beside every page; it is taken as one.  *)
(***************************************************************************)
EXTENDS Account, RunsPage, ModelMenu, LiveFeed, ToolBench, SearchBench,
        ToolStats

VARIABLE page

tabVars == <<accountVars, runsVars, menuVars, feedVars, benchVars, searchVars,
             statsVars, page>>

TabInit ==
  /\ page \in {"account", "backups", "models", "live", "tools", "stats", "search"}
  /\ AccountInit /\ RunsInit /\ FeedInit /\ BenchInit /\ SearchInit /\ StatsInit
  /\ MenuInit /\ (page # "models" => saved = 0 /\ usable)

TabNext ==
  /\ UNCHANGED page
  /\ \/ /\ page = "account" /\ AccountNext
        /\ UNCHANGED <<runsVars, menuVars, feedVars, benchVars, searchVars, statsVars>>
     \/ /\ page = "backups" /\ RunsNext
        /\ UNCHANGED <<accountVars, menuVars, feedVars, benchVars, searchVars, statsVars>>
     \/ /\ page = "models" /\ MenuNext
        /\ UNCHANGED <<accountVars, runsVars, feedVars, benchVars, searchVars, statsVars>>
     \/ /\ page = "live" /\ FeedNext
        /\ UNCHANGED <<accountVars, runsVars, menuVars, benchVars, searchVars, statsVars>>
     \/ /\ page = "tools" /\ BenchNext
        /\ UNCHANGED <<accountVars, runsVars, menuVars, feedVars, searchVars, statsVars>>
     \/ /\ page = "search" /\ SearchNext
        /\ UNCHANGED <<accountVars, runsVars, menuVars, feedVars, benchVars, statsVars>>
     \/ /\ page = "stats" /\ StatsNext
        /\ UNCHANGED <<accountVars, runsVars, menuVars, feedVars, benchVars, searchVars>>

\* Each page's fairness, while it is the page.
TabFair ==
  /\ WF_accountVars(page = "account" /\ Served)
  /\ WF_accountVars(page = "account" /\ Answer)
  /\ WF_runsVars(page = "backups" /\ Progress)
  /\ WF_runsVars(page = "backups" /\ Routing)
  /\ WF_feedVars(page = "live" /\ SocketCloses)
  /\ WF_feedVars(page = "live" /\ ConnectAgain)
  /\ WF_benchVars(page = "tools" /\ Loading)
  /\ WF_benchVars(page = "tools" /\ Executing)
  /\ WF_searchVars(page = "search" /\ SearchProgress)
  /\ WF_statsVars(page = "stats" /\ StatsProgress)

TabSpec == TabInit /\ [][TabNext]_tabVars /\ TabFair

----------------------------------------------------------------------------
\* The pages' states are well formed; with it, that the feed keeps at most one log more
\* than its buffer, and that the arguments in the tool editor are for the selected tool.
TabTypeOK == /\ AccountTypeOK /\ RunsTypeOK /\ MenuTypeOK /\ FeedTypeOK
             /\ BenchTypeOK /\ SearchTypeOK /\ StatsTypeOK

\* Nothing stays busy on the pages that read and run things: loading, refreshing,
\* executing and searching end, in whatever order overlapping requests are answered and
\* whatever they answer (the finally blocks of the three pages).
PagesSettle == BenchSettles /\ SearchSettles /\ StatsSettles
==============================================================================
