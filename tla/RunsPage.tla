------------------------------- MODULE RunsPage -------------------------------
(***************************************************************************)
(* The page of the backup runs: a table rendered by the server, a dialog   *)
(* that shows the fix of a failed run and one that logs a new fix, and the *)
(* pagination, which asks the server for another rendering.                *)
(*                                                                         *)
(* Both dialogs lie inside the button that is their backdrop, and nothing  *)
(* stops the clicks: a click on anything in a dialog runs the handler of   *)
(* what was clicked and then the backdrop's, which closes the dialog, in   *)
(* one batch of updates.  So the fix can never be edited (startEditing and *)
(* the backdrop cancel out), another run can never stay ticked, and the    *)
(* form is gone from the page before the browser submits it.  Browsers     *)
(* that follow the HTML standard then cancel the submission.               *)
(***************************************************************************)
EXTENDS Integers, FiniteSets

CONSTANTS PageOf,       \* which page each failed run is on: a sequence of page numbers
          Submits,      \* whether the browser submits a form that has just been removed
          Retries,      \* fetchAPI's second and later attempts
          MaxSubmits, MaxVisits, MaxGlitches   \* bounds

Runs  == DOMAIN PageOf
Pages == {1} \cup {PageOf[r] : r \in Runs}     \* the first, where the user begins, may have none

ASSUME RunsAssumption == /\ Runs # {} /\ Pages \subseteq Nat \ {0}
                         /\ Submits \in BOOLEAN
                         /\ {Retries, MaxSubmits, MaxVisits, MaxGlitches} \subseteq Nat

VARIABLES sheet,           \* runs, pagination and currentPage: the page shown, as it was read
          loading, errorMessage,
          createFixForRun, \* the run of the create dialog, 0 when it is closed
          activeFix,       \* the run whose fix is shown, 0 when that dialog is closed
          formTitle,       \* whether a title was typed
          formAffected, submitError, submitting,
          requests,        \* creations and page reads under way
          visit,           \* the rendering the router waits for
          fixed, fixCount, \* the database: runs with a fix, fixes
          submits, visits, glitches

runsVars == <<sheet, loading, errorMessage, createFixForRun, activeFix, formTitle,
              formAffected, submitError, submitting, requests, visit, fixed, fixCount,
              submits, visits, glitches>>

Sheet    == [page : Pages, fixed : SUBSET Runs]
NoSheet  == [page |-> 0, fixed |-> {}]
NoVisit  == [page |-> 0, at |-> "none", got |-> NoSheet]
Visit    == [page : Pages \cup {0}, at : {"none", "out", "ok", "failed"},
             got : Sheet \cup {NoSheet}]
Request  == [op : {"create", "read"}, n : 1..MaxSubmits, runs : SUBSET Runs, page : Pages,
             try : 0..Retries, at : {"out", "ok", "failed"}, got : Sheet \cup {NoSheet},
             mine : BOOLEAN]
RunsOn(p) == {r \in Runs : PageOf[r] = p}
ReadOf(p) == [page |-> p, fixed |-> fixed \cap RunsOn(p)]

FixedBefore == Runs \cap {2}      \* run 2 has its fix already

RunsInit ==
  /\ fixed = FixedBefore /\ fixCount = Cardinality(FixedBefore)
  /\ sheet = ReadOf(1)
  /\ loading = FALSE /\ errorMessage = FALSE
  /\ createFixForRun = 0 /\ activeFix = 0 /\ formTitle = FALSE /\ formAffected = {}
  /\ submitError = FALSE /\ submitting = FALSE
  /\ requests = {} /\ visit = NoVisit
  /\ submits = 0 /\ visits = 0 /\ glitches = 0

----------------------------------------------------------------------------
(* The table and its rows.                                                 *)

TableShown    == ~errorMessage /\ ~loading /\ sheet # NoSheet
RowShown(r)   == TableShown /\ r \in RunsOn(sheet.page)
HasFixes(r)   == r \in sheet.fixed

\* "Create Fix" on a failed run without one.  A fix that is shown stays open.
OpenCreateFix(r) ==
  /\ RowShown(r) /\ ~HasFixes(r) /\ createFixForRun # r
  /\ createFixForRun' = r /\ formTitle' = FALSE /\ formAffected' = {r}
  /\ submitError' = FALSE
  /\ UNCHANGED <<sheet, loading, errorMessage, activeFix, submitting, requests, visit,
                 fixed, fixCount, submits, visits, glitches>>

\* The "Fixed" badge and "Details".
OpenDetails(r) ==
  /\ RowShown(r) /\ HasFixes(r) /\ activeFix # r
  /\ activeFix' = r
  /\ UNCHANGED <<sheet, loading, errorMessage, createFixForRun, formTitle, formAffected,
                 submitError, submitting, requests, visit, fixed, fixCount, submits,
                 visits, glitches>>

----------------------------------------------------------------------------
(* The dialogs.                                                            *)

\* Backdrop, cross, Close, Escape, or a click anywhere in the fix that is shown.
CloseDetails ==
  /\ activeFix # 0 /\ activeFix' = 0
  /\ UNCHANGED <<sheet, loading, errorMessage, createFixForRun, formTitle, formAffected,
                 submitError, submitting, requests, visit, fixed, fixCount, submits,
                 visits, glitches>>

\* "Edit Fix" (with a token): startEditing sets isEditing, the backdrop unsets it.
EditFix ==
  /\ activeFix # 0 /\ activeFix' = 0 /\ submitError' = FALSE
  /\ UNCHANGED <<sheet, loading, errorMessage, createFixForRun, formTitle, formAffected,
                 submitting, requests, visit, fixed, fixCount, submits, visits, glitches>>

\* Backdrop, cross, Cancel, Escape, or a click anywhere in the form.
CloseCreateFix ==
  /\ createFixForRun # 0 /\ createFixForRun' = 0
  /\ UNCHANGED <<sheet, loading, errorMessage, activeFix, formTitle, formAffected,
                 submitError, submitting, requests, visit, fixed, fixCount, submits,
                 visits, glitches>>

\* The fields are reached with the keyboard.
TypeTitle ==
  /\ createFixForRun # 0 /\ ~formTitle /\ formTitle' = TRUE
  /\ UNCHANGED <<sheet, loading, errorMessage, createFixForRun, activeFix, formAffected,
                 submitError, submitting, requests, visit, fixed, fixCount, submits,
                 visits, glitches>>

OtherFailedRuns == {r \in RunsOn(sheet.page) : r # createFixForRun}

\* A tick of another failed run of the page, and the backdrop.
ToggleAffectedRun(r) ==
  /\ createFixForRun # 0 /\ r \in OtherFailedRuns
  /\ formAffected' = (formAffected \ {r}) \cup ({r} \ formAffected)
  /\ createFixForRun' = 0
  /\ UNCHANGED <<sheet, loading, errorMessage, activeFix, formTitle, submitError,
                 submitting, requests, visit, fixed, fixCount, submits, visits, glitches>>

\* "Save Resolution", on with a token and while nothing is being submitted.
HandleCreateFixSubmit ==
  /\ createFixForRun # 0 /\ ~submitting
  /\ createFixForRun' = 0
  /\ CASE ~Submits -> UNCHANGED <<submitError, submitting, requests, submits>>
       [] Submits /\ ~formTitle ->
            submitError' = TRUE /\ UNCHANGED <<submitting, requests, submits>>
       [] Submits /\ formTitle ->
            /\ submits < MaxSubmits /\ submits' = submits + 1
            /\ submitting' = TRUE /\ submitError' = FALSE
            /\ requests' = requests \cup
                 {[op |-> "create", n |-> submits', runs |-> formAffected,
                   page |-> sheet.page, try |-> 0, at |-> "out", got |-> NoSheet,
                   mine |-> TRUE]}
  /\ UNCHANGED <<sheet, loading, errorMessage, activeFix, formTitle, formAffected, visit,
                 fixed, fixCount, visits, glitches>>

----------------------------------------------------------------------------
(* The pagination: up to five page buttons around the current one, and the *)
(* arrows.  The router asks for the page and forgets what it asked before. *)

TotalPages  == CHOOSE n \in Pages : \A m \in Pages : m <= n
Lesser(a, b)  == IF a < b THEN a ELSE b
WindowStart == IF Lesser(sheet.page - 2, TotalPages - 4) < 1
                 THEN 1 ELSE Lesser(sheet.page - 2, TotalPages - 4)
WindowEnd   == Lesser(WindowStart + 4, TotalPages)
Buttons     == (WindowStart .. WindowEnd)
                 \cup (IF sheet.page > 1 THEN {1, sheet.page - 1} ELSE {})
                 \cup (IF sheet.page < TotalPages THEN {sheet.page + 1, TotalPages} ELSE {})

HandlePage(p) ==
  /\ TableShown /\ p \in Buttons \cap Pages /\ visits < MaxVisits
  /\ visits' = visits + 1
  /\ visit' = [page |-> p, at |-> "out", got |-> NoSheet]
  /\ UNCHANGED <<sheet, loading, errorMessage, createFixForRun, activeFix, formTitle,
                 formAffected, submitError, submitting, requests, fixed, fixCount,
                 submits, glitches>>

Rendered ==
  /\ visit.at = "out"
  /\ visit' = [visit EXCEPT !.at = "ok", !.got = ReadOf(visit.page)]
  /\ UNCHANGED <<sheet, loading, errorMessage, createFixForRun, activeFix, formTitle,
                 formAffected, submitError, submitting, requests, fixed, fixCount,
                 submits, visits, glitches>>

\* serverFetch gives null for every failure, and does not try again.
RenderFails ==
  /\ visit.at = "out" /\ glitches < MaxGlitches /\ glitches' = glitches + 1
  /\ visit' = [visit EXCEPT !.at = "failed"]
  /\ UNCHANGED <<sheet, loading, errorMessage, createFixForRun, activeFix, formTitle,
                 formAffected, submitError, submitting, requests, fixed, fixCount,
                 submits, visits>>

\* initialData changes.  Dialogs, the error and what is under way stay.
Synced ==
  /\ visit.at = "ok" /\ sheet' = visit.got /\ visit' = NoVisit
  /\ UNCHANGED <<loading, errorMessage, createFixForRun, activeFix, formTitle,
                 formAffected, submitError, submitting, requests, fixed, fixCount,
                 submits, visits, glitches>>

\* The page is rendered without the client component: its state is gone, and the
\* answers it waits for find nobody.
Unmounted ==
  /\ visit.at = "failed" /\ visit' = NoVisit
  /\ sheet' = NoSheet /\ loading' = FALSE /\ errorMessage' = FALSE
  /\ createFixForRun' = 0 /\ activeFix' = 0 /\ formTitle' = FALSE /\ formAffected' = {}
  /\ submitError' = FALSE /\ submitting' = FALSE
  /\ requests' = {[q EXCEPT !.mine = FALSE] : q \in requests}
  /\ UNCHANGED <<fixed, fixCount, submits, visits, glitches>>

----------------------------------------------------------------------------
(* Creations, which go to the agent, and page reads, to the backend.       *)

Serve(q) ==
  /\ q.at = "out"
  /\ IF q.op = "create"
       THEN /\ fixed' = fixed \cup q.runs /\ fixCount' = fixCount + 1
            /\ requests' = (requests \ {q}) \cup {[q EXCEPT !.at = "ok"]}
       ELSE /\ requests' = (requests \ {q})
                             \cup {[q EXCEPT !.at = "ok", !.got = ReadOf(q.page)]}
            /\ UNCHANGED <<fixed, fixCount>>
  /\ UNCHANGED <<sheet, loading, errorMessage, createFixForRun, activeFix, formTitle,
                 formAffected, submitError, submitting, visit, submits, visits, glitches>>

\* Seeded bug: createFix goes through fetchAPI as well.
TriesAlways(q) == q.try < Retries

\* Only fetchAPI tries again; createFix calls fetch itself.
TriesAgain(q) == q.op = "read" /\ q.try < Retries

\* The request or its answer is lost, or the answer is an error of the server.
Glitch(q) ==
  /\ q.at \in {"out", "ok"} /\ glitches < MaxGlitches /\ glitches' = glitches + 1
  /\ requests' = (requests \ {q}) \cup
       {IF TriesAgain(q) THEN [q EXCEPT !.try = @ + 1, !.at = "out", !.got = NoSheet]
                         ELSE [q EXCEPT !.at = "failed", !.got = NoSheet]}
  /\ UNCHANGED <<sheet, loading, errorMessage, createFixForRun, activeFix, formTitle,
                 formAffected, submitError, submitting, visit, fixed, fixCount, submits,
                 visits>>

\* Seeded bug: submitting is reset only after the list was refreshed.
SavedStuck(q) ==
  /\ q.op = "create" /\ q.at \in {"ok", "failed"} /\ q.mine
  /\ IF q.at = "ok"
       THEN /\ createFixForRun' = 0 /\ loading' = TRUE /\ errorMessage' = FALSE
            /\ requests' = (requests \ {q})
                             \cup {[q EXCEPT !.op = "read", !.at = "out", !.try = 0]}
            /\ UNCHANGED submitError
       ELSE /\ submitError' = TRUE /\ requests' = requests \ {q}
            /\ UNCHANGED <<createFixForRun, loading, errorMessage>>
  /\ UNCHANGED <<sheet, activeFix, formTitle, formAffected, submitting, visit, fixed,
                 fixCount, submits, visits, glitches>>

\* The answer closes whatever create dialog is open, then the page the user was on
\* when they submitted is read again.
Saved(q) ==
  /\ q.op = "create" /\ q.at \in {"ok", "failed"} /\ q.mine
  /\ IF q.at = "ok"
       THEN /\ createFixForRun' = 0 /\ loading' = TRUE /\ errorMessage' = FALSE
            /\ requests' = (requests \ {q})
                             \cup {[q EXCEPT !.op = "read", !.at = "out", !.try = 0]}
            /\ UNCHANGED <<submitError, submitting>>
       ELSE /\ submitError' = TRUE /\ submitting' = FALSE /\ requests' = requests \ {q}
            /\ UNCHANGED <<createFixForRun, loading, errorMessage>>
  /\ UNCHANGED <<sheet, activeFix, formTitle, formAffected, visit, fixed, fixCount,
                 submits, visits, glitches>>

FetchPage(q) ==
  /\ q.op = "read" /\ q.at \in {"ok", "failed"} /\ q.mine
  /\ sheet' = IF q.at = "ok" THEN q.got ELSE sheet
  /\ errorMessage' = (q.at = "failed") /\ loading' = FALSE
  /\ submitting' = FALSE
  /\ requests' = requests \ {q}
  /\ UNCHANGED <<createFixForRun, activeFix, formTitle, formAffected, submitError, visit,
                 fixed, fixCount, submits, visits, glitches>>

Missed(q) ==
  /\ ~q.mine /\ q.at # "out" /\ requests' = requests \ {q}
  /\ UNCHANGED <<sheet, loading, errorMessage, createFixForRun, activeFix, formTitle,
                 formAffected, submitError, submitting, visit, fixed, fixCount, submits,
                 visits, glitches>>

Progress == \E q \in requests : Serve(q) \/ Saved(q) \/ FetchPage(q) \/ Missed(q)
Routing  == Rendered \/ Synced \/ Unmounted

RunsNext ==
  \/ \E r \in Runs : OpenCreateFix(r) \/ OpenDetails(r) \/ ToggleAffectedRun(r)
  \/ CloseDetails \/ EditFix \/ CloseCreateFix \/ TypeTitle \/ HandleCreateFixSubmit
  \/ \E p \in Pages : HandlePage(p)
  \/ RenderFails \/ Routing
  \/ \E q \in requests : Glitch(q)
  \/ Progress

RunsFair == WF_runsVars(Progress) /\ WF_runsVars(Routing)
RunsSpec == RunsInit /\ [][RunsNext]_runsVars /\ RunsFair

----------------------------------------------------------------------------
RunsTypeOK ==
  /\ sheet \in Sheet \cup {NoSheet} /\ visit \in Visit
  /\ {loading, errorMessage, formTitle, submitError, submitting} \subseteq BOOLEAN
  /\ {createFixForRun, activeFix} \subseteq Runs \cup {0}
  /\ formAffected \subseteq Runs /\ fixed \subseteq Runs /\ fixCount \in Nat
  /\ \A q \in requests : q \in Request
  /\ submits \in 0..MaxSubmits /\ visits \in 0..MaxVisits /\ glitches \in 0..MaxGlitches

\* However requests and answers are lost, the database never has more fixes than the
\* user submitted: only reads are tried again (createFix, fetchAPI).
LoggedOnce == fixCount <= Cardinality(FixedBefore) + submits

\* The two forms do not stay off: after a submission, whatever fails, and whatever the
\* user opens, closes or visits meanwhile, submitting is reset.
SubmittingEnds == submitting ~> ~submitting
==============================================================================
