----------------------------- MODULE SearchBench -----------------------------
(***************************************************************************)
(* The search playground: a query with a mode, two weights, source types   *)
(* and a reranker is sent to the agent, and one panel shows an error, the  *)
(* loading state, the results, or that there are none.  A visitor without  *)
(* a token gets a login form instead of a search; the search is not run    *)
(* after the login.  All settings but the query may change while a search  *)
(* is under way.                                                           *)
(***************************************************************************)
EXTENDS Integers

CONSTANTS Rerankers,      \* reranking models
          NoReranker,
          MaxSearches, MaxLogins   \* bounds

ASSUME SearchAssumption == NoReranker \notin Rerankers /\ {MaxSearches, MaxLogins} \subseteq Nat

VARIABLES query,            \* whether a query is typed
          searchMode, enableRerank, selectedRerank,
          rerankModels, loadingModels,
          isSearching,
          searchResults,    \* the number of the search they are from and whether there are any
          searchError,      \* the number of the search that failed, 0 for none
          showLoginModal, authLoading,
          hasAuth,          \* whether the tab has a token
          rerankRequest,    \* whether the list of reranking models is awaited
          searching,        \* searches under way
          searches, loginsTried

searchVars == <<query, searchMode, enableRerank, selectedRerank, rerankModels,
                loadingModels, isSearching, searchResults, searchError, showLoginModal,
                authLoading, hasAuth, rerankRequest, searching, searches, loginsTried>>
settings   == <<query, searchMode, enableRerank, selectedRerank>>
panel      == <<isSearching, searchResults, searchError, searching, searches>>
reranking  == <<rerankModels, loadingModels, rerankRequest>>
loginForm  == <<showLoginModal, authLoading, hasAuth, loginsTried>>

Modes == {"hybrid", "fts", "semantic"}

SearchInit ==
  /\ query = FALSE /\ searchMode = "hybrid" /\ enableRerank = TRUE
  /\ selectedRerank = NoReranker /\ rerankModels = {} /\ loadingModels = TRUE
  /\ rerankRequest = TRUE
  /\ isSearching = FALSE /\ searchResults = [n |-> 0, any |-> FALSE] /\ searchError = 0
  /\ showLoginModal = FALSE /\ authLoading = FALSE /\ hasAuth = FALSE
  /\ searching = {} /\ searches = 0 /\ loginsTried = 0

----------------------------------------------------------------------------
(* The settings.                                                           *)

TypeQuery ==
  /\ ~isSearching /\ query' = ~query
  /\ UNCHANGED <<searchMode, enableRerank, selectedRerank, panel, reranking, loginForm>>

SetSearchMode(m) ==
  /\ searchMode # m /\ searchMode' = m
  /\ UNCHANGED <<query, enableRerank, selectedRerank, panel, reranking, loginForm>>

ToggleRerank ==
  /\ enableRerank' = ~enableRerank
  /\ UNCHANGED <<query, searchMode, selectedRerank, panel, reranking, loginForm>>

\* The dropdown, shown while reranking is on and there are models.
SelectReranker(m) ==
  /\ enableRerank /\ ~loadingModels /\ m \in rerankModels
  /\ selectedRerank' = m
  /\ UNCHANGED <<query, searchMode, enableRerank, panel, reranking, loginForm>>

\* The answer to the request made on mounting, empty if it failed.
RerankersListed ==
  /\ rerankRequest /\ rerankRequest' = FALSE /\ loadingModels' = FALSE
  /\ \E ms \in SUBSET Rerankers :
       /\ rerankModels' = ms
       /\ IF ms = {} THEN UNCHANGED selectedRerank ELSE selectedRerank' \in ms
  /\ UNCHANGED <<query, searchMode, enableRerank, panel, loginForm>>

----------------------------------------------------------------------------
(* Searching.                                                              *)

\* One search in flight: its settings are those of the click.
Search == [n : 1..MaxSearches, mode : Modes, rerank : Rerankers \cup {NoReranker},
           at : {"out", "found", "empty", "failed", "refused"}]

\* Seeded bug: the button is on while a search is under way.
SearchAlwaysOn == query

\* Button and Enter key.
SearchOn == query /\ ~isSearching

HandleSearch ==
  /\ SearchOn /\ ~showLoginModal
  /\ IF ~hasAuth
       THEN /\ showLoginModal' = TRUE
            /\ UNCHANGED <<panel, authLoading, hasAuth, loginsTried>>
       ELSE /\ searches < MaxSearches /\ searches' = searches + 1
            /\ isSearching' = TRUE /\ searchError' = 0
            /\ searching' = searching \cup
                 {[n |-> searches', mode |-> searchMode, at |-> "out",
                   rerank |-> IF enableRerank THEN selectedRerank ELSE NoReranker]}
            /\ UNCHANGED <<searchResults, loginForm>>
  /\ UNCHANGED <<settings, reranking>>

SearchServed(s) ==
  /\ s.at = "out"
  /\ \E at \in {"found", "empty", "failed", "refused"} :
       searching' = (searching \ {s}) \cup {[s EXCEPT !.at = at]}
  /\ UNCHANGED <<settings, isSearching, searchResults, searchError, searches, reranking,
                 loginForm>>

\* A failure leaves the results of the search before; the panel shows the error first.
SearchAnswered(s) ==
  /\ s.at # "out" /\ searching' = searching \ {s} /\ isSearching' = FALSE
  /\ IF s.at \in {"found", "empty"}
       THEN /\ searchResults' = [n |-> s.n, any |-> (s.at = "found")]
            /\ UNCHANGED searchError
       ELSE searchError' = s.n /\ UNCHANGED searchResults
  /\ hasAuth' = (hasAuth /\ s.at # "refused")
  /\ UNCHANGED <<settings, searches, reranking, showLoginModal, authLoading, loginsTried>>

Panel ==
  IF searchError # 0        THEN "error"
  ELSE IF isSearching       THEN "loading"
  ELSE IF searchResults.any THEN "results"
  ELSE IF query             THEN "none found"
  ELSE                           "hint"

----------------------------------------------------------------------------
(* The login form.                                                         *)

HandleInlineLogin ==
  /\ showLoginModal /\ ~authLoading /\ loginsTried < MaxLogins
  /\ loginsTried' = loginsTried + 1 /\ authLoading' = TRUE
  /\ UNCHANGED <<settings, panel, reranking, showLoginModal, hasAuth>>

LoginAnswered ==
  /\ authLoading /\ authLoading' = FALSE
  /\ \/ hasAuth' = TRUE /\ showLoginModal' = FALSE
     \/ UNCHANGED <<hasAuth, showLoginModal>>
  /\ UNCHANGED <<settings, panel, reranking, loginsTried>>

CancelLogin ==
  /\ showLoginModal /\ showLoginModal' = FALSE
  /\ UNCHANGED <<settings, panel, reranking, authLoading, hasAuth, loginsTried>>

\* In the sidebar, which the form covers.
SearchSignOut ==
  /\ hasAuth /\ ~showLoginModal /\ hasAuth' = FALSE
  /\ UNCHANGED <<settings, panel, reranking, showLoginModal, authLoading, loginsTried>>

SearchProgress == \E s \in searching : SearchServed(s) \/ SearchAnswered(s)

SearchNext ==
  \/ TypeQuery \/ ToggleRerank \/ RerankersListed \/ HandleSearch
  \/ HandleInlineLogin \/ LoginAnswered \/ CancelLogin \/ SearchSignOut
  \/ \E m \in Modes : SetSearchMode(m)
  \/ \E m \in Rerankers : SelectReranker(m)
  \/ SearchProgress

\* A search is answered or fails.
SearchSpec == SearchInit /\ [][SearchNext]_searchVars /\ WF_searchVars(SearchProgress)

----------------------------------------------------------------------------
SearchTypeOK ==
  /\ {query, enableRerank, loadingModels, rerankRequest, isSearching, showLoginModal,
      authLoading, hasAuth} \subseteq BOOLEAN
  /\ searchMode \in Modes /\ rerankModels \subseteq Rerankers
  /\ selectedRerank \in rerankModels \cup {NoReranker}
  /\ searchResults \in [n : 0..MaxSearches, any : BOOLEAN] /\ searchError \in 0..MaxSearches
  /\ searching \subseteq Search
  /\ searches \in 0..MaxSearches /\ loginsTried \in 0..MaxLogins

\* What the panel shows is the outcome of the latest search: results of an earlier one
\* are hidden behind the error or the loading state of a later one, and an error is gone
\* when the next search starts (handleSearch and the panel).
LatestSearch ==
  /\ Panel = "results" => searchResults.n = searches
  /\ Panel = "error"   => searchError = searches

\* A search ends for the page, also when it fails or signs the tab out.
SearchSettles == isSearching ~> ~isSearching
==============================================================================
