------------------------------ MODULE ToolStats ------------------------------
(***************************************************************************)
(* The page of the tools' telemetry.  A load asks for the tools and for    *)
(* their statistics at the same time and shows both when both are there.   *)
(* The page loads when it opens, when the token of the tab changes, and on *)
(* Refresh; a load is never cancelled, and the last one to end is shown,   *)
(* be it the first that was started.                                       *)
(***************************************************************************)
EXTENDS Integers

CONSTANTS StatTools,      \* the agent's tools
          StatMatching,   \* those that a search text matches
          MaxUses, MaxGathers   \* bounds

ASSUME StatsAssumption == /\ StatMatching \subseteq StatTools
                          /\ MaxUses \in Nat /\ MaxGathers \in Nat

VARIABLES registered,  \* tools, with the number of the load they are from
          stats,       \* stats, with theirs; the agent may have none
          gathering,   \* loading
          regathering, \* isRefreshing
          filter, searchQuery,
          gathers,     \* loads under way
          uses,        \* how often each tool was called, in the agent's database
          statsOpen,   \* whether the page is shown
          gatherCount, useCount

statsVars == <<registered, stats, gathering, regathering, filter, searchQuery, gathers,
               uses, statsOpen, gatherCount, useCount>>

Usage   == [StatTools -> 0..MaxUses]
NoUsage == [t \in StatTools |-> 0]      \* no statistics count as no calls
Load    == [n : 1..MaxGathers, listed : BOOLEAN, tools : SUBSET StatTools,
            counted : BOOLEAN, uses : Usage]

Gather == [n |-> gatherCount + 1, listed |-> FALSE, tools |-> {},
           counted |-> FALSE, uses |-> NoUsage]

StatsInit ==
  /\ registered = [n |-> 0, tools |-> {}] /\ stats = [n |-> 0, uses |-> NoUsage]
  /\ gathering = FALSE /\ regathering = FALSE /\ filter = "all" /\ searchQuery = FALSE
  /\ gathers = {} /\ uses = NoUsage /\ statsOpen = FALSE
  /\ gatherCount = 0 /\ useCount = 0

\* loadData is called.
LoadData ==
  /\ gatherCount < MaxGathers /\ gatherCount' = gatherCount + 1
  /\ gathers' = gathers \cup {Gather}

OpenStats ==
  /\ ~statsOpen /\ statsOpen' = TRUE
  /\ LoadData /\ gathering' = TRUE
  /\ UNCHANGED <<registered, stats, regathering, filter, searchQuery, uses, useCount>>

TokenChanges ==
  /\ statsOpen /\ LoadData
  /\ UNCHANGED <<registered, stats, gathering, regathering, filter, searchQuery, uses,
                 statsOpen, useCount>>

RefreshStats ==
  /\ statsOpen /\ ~regathering /\ regathering' = TRUE
  /\ LoadData
  /\ UNCHANGED <<registered, stats, gathering, filter, searchQuery, uses, statsOpen,
                 useCount>>

\* A tool is called, in a chat or in the playground.
ToolCalled(t) ==
  /\ useCount < MaxUses /\ useCount' = useCount + 1
  /\ uses' = [uses EXCEPT ![t] = @ + 1]
  /\ UNCHANGED <<registered, stats, gathering, regathering, filter, searchQuery, gathers,
                 statsOpen, gatherCount>>

\* Seeded bug: the tools are shown before the statistics are there.
ToolsShownAtOnce(g) ==
  /\ ~g.listed
  /\ \E ts \in {StatTools, {}} :
       /\ gathers' = (gathers \ {g}) \cup {[g EXCEPT !.listed = TRUE, !.tools = ts]}
       /\ registered' = [n |-> g.n, tools |-> ts]
  /\ UNCHANGED <<stats, gathering, regathering, filter, searchQuery, uses, statsOpen,
                 gatherCount, useCount>>

\* The tools, none of them if the request failed.
ToolsAnswered(g) ==
  /\ ~g.listed
  /\ \E ts \in {StatTools, {}} :
       gathers' = (gathers \ {g}) \cup {[g EXCEPT !.listed = TRUE, !.tools = ts]}
  /\ UNCHANGED <<registered, stats, gathering, regathering, filter, searchQuery, uses,
                 statsOpen, gatherCount, useCount>>

\* The statistics, null if the request failed.
StatsAnswered(g) ==
  /\ ~g.counted
  /\ \E us \in {uses, NoUsage} :
       gathers' = (gathers \ {g}) \cup {[g EXCEPT !.counted = TRUE, !.uses = us]}
  /\ UNCHANGED <<registered, stats, gathering, regathering, filter, searchQuery, uses,
                 statsOpen, gatherCount, useCount>>

\* Promise.all, and the finally block.
Gathered(g) ==
  /\ g.listed /\ g.counted /\ gathers' = gathers \ {g}
  /\ registered' = [n |-> g.n, tools |-> g.tools] /\ stats' = [n |-> g.n, uses |-> g.uses]
  /\ gathering' = FALSE /\ regathering' = FALSE
  /\ UNCHANGED <<filter, searchQuery, uses, statsOpen, gatherCount, useCount>>

SetFilter(f) ==
  /\ statsOpen /\ filter # f /\ filter' = f
  /\ UNCHANGED <<registered, stats, gathering, regathering, searchQuery, gathers, uses,
                 statsOpen, gatherCount, useCount>>

TypeSearch ==
  /\ statsOpen /\ searchQuery' = ~searchQuery
  /\ UNCHANGED <<registered, stats, gathering, regathering, filter, gathers, uses,
                 statsOpen, gatherCount, useCount>>

IsUsed(t) == stats.uses[t] > 0

FilteredTools ==
  {t \in registered.tools : /\ filter = "used" => IsUsed(t)
                            /\ filter = "unused" => ~IsUsed(t)
                            /\ searchQuery => t \in StatMatching}

\* "Test in Playground", on a row: the page is left and what it waits for finds nobody.
TestInPlayground(t) ==
  /\ statsOpen /\ ~gathering /\ t \in FilteredTools
  /\ statsOpen' = FALSE
  /\ registered' = [n |-> 0, tools |-> {}] /\ stats' = [n |-> 0, uses |-> NoUsage]
  /\ gathering' = FALSE /\ regathering' = FALSE /\ filter' = "all" /\ searchQuery' = FALSE
  /\ gathers' = {}
  /\ UNCHANGED <<uses, gatherCount, useCount>>

StatsProgress == \E g \in gathers : ToolsAnswered(g) \/ StatsAnswered(g) \/ Gathered(g)

StatsNext ==
  \/ OpenStats \/ TokenChanges \/ RefreshStats \/ TypeSearch
  \/ \E t \in StatTools : ToolCalled(t) \/ TestInPlayground(t)
  \/ \E f \in {"all", "used", "unused"} : SetFilter(f)
  \/ StatsProgress

\* Every request is answered or fails.
StatsSpec == StatsInit /\ [][StatsNext]_statsVars /\ WF_statsVars(StatsProgress)

----------------------------------------------------------------------------
StatsTypeOK ==
  /\ registered \in [n : 0..MaxGathers, tools : SUBSET StatTools]
  /\ stats \in [n : 0..MaxGathers, uses : Usage]
  /\ {gathering, regathering, searchQuery, statsOpen} \subseteq BOOLEAN
  /\ filter \in {"all", "used", "unused"} /\ uses \in Usage
  /\ gathers \subseteq Load
  /\ gatherCount \in 0..MaxGathers /\ useCount \in 0..MaxUses

\* The cards and the table, which divide one answer by the other, never mix the tools of
\* one load with the statistics of another, however the four requests of overlapping
\* loads are answered (loadData).
OneLoadShown == registered.n = stats.n

\* Loading and refreshing end, whichever of the overlapping loads ends first.
StatsSettles == (gathering \/ regathering) ~> (~gathering /\ ~regathering)
==============================================================================
