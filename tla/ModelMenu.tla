------------------------------ MODULE ModelMenu ------------------------------
(***************************************************************************)
(* The choice of the model: useModels reads the models the agent offers    *)
(* when the dashboard is opened and takes the choice of the last visit out *)
(* of the local storage, and ModelSelector is the menu over them.  A       *)
(* request that outlives its visit still writes to the storage.            *)
(***************************************************************************)
EXTENDS Integers

CONSTANTS Models,      \* model ids, positive numbers; 0 is the empty string
          Matching,    \* those that a search text matches
          MaxVisitsToChat   \* bound: visits to the dashboard

ASSUME MenuAssumption == /\ Models \subseteq Nat \ {0} /\ Matching \subseteq Models
                         /\ MaxVisitsToChat \in Nat

VARIABLES models, selectedModel, modelsLoading,   \* useModels
          saved,                                  \* selected_openrouter_model, 0 if unset
          usable,                                 \* whether the local storage can be used
          isOpen, search, disabled,               \* ModelSelector; disabled is sending
          chatVisit, onChat,                      \* visits so far; whether one is going on
          lookups                                 \* visits whose request is under way

menuVars == <<models, selectedModel, modelsLoading, saved, usable, isOpen, search,
              disabled, chatVisit, onChat, lookups>>

MenuInit ==
  /\ models = {} /\ selectedModel = 0 /\ modelsLoading = FALSE
  /\ saved \in Models \cup {0} /\ usable \in BOOLEAN
  /\ isOpen = FALSE /\ search = FALSE /\ disabled = FALSE
  /\ chatVisit = 0 /\ onChat = FALSE /\ lookups = {}

\* Each visit mounts the hook and the menu anew.
OpenChat ==
  /\ ~onChat /\ chatVisit < MaxVisitsToChat
  /\ chatVisit' = chatVisit + 1 /\ onChat' = TRUE
  /\ lookups' = lookups \cup
       {[visit |-> chatVisit', at |-> "out", got |-> {}]}
  /\ models' = {} /\ selectedModel' = 0 /\ modelsLoading' = TRUE
  /\ isOpen' = FALSE /\ search' = FALSE /\ disabled' = FALSE
  /\ UNCHANGED <<saved, usable>>

LeaveChat ==
  /\ onChat /\ onChat' = FALSE
  /\ UNCHANGED <<models, selectedModel, modelsLoading, saved, usable, isOpen, search,
                 disabled, chatVisit, lookups>>

Remember(m) == saved' = IF usable THEN m ELSE saved

\* localStorage.getItem, after the answer.
Recalled == IF usable THEN saved ELSE 0

\* Seeded bug: the first model is taken unless this visit made a choice.
TakesOverOwn(m, offered) == m # 0 /\ m = selectedModel

\* Seeded bug: the saved choice is taken over unseen.
TakesOverAny(m, offered) == m # 0

TakesOver(m, offered) == m # 0 /\ m \in offered

\* The agent's answer.  fetchModels turns every failure into an empty list, so useModels
\* never has an error and the menu never offers its Retry.
ModelsOffered(q) ==
  /\ q.at = "out"
  /\ \E offered \in SUBSET Models :
       lookups' = (lookups \ {q}) \cup {[q EXCEPT !.at = "ok", !.got = offered]}
  /\ UNCHANGED <<models, selectedModel, modelsLoading, saved, usable, isOpen, search,
                 disabled, chatVisit, onChat>>

FetchModels(q) ==
  /\ q.at = "ok" /\ lookups' = lookups \ {q}
  /\ LET m == Recalled IN
     \E first \in IF q.got = {} THEN {0} ELSE q.got :
       /\ IF q.got = {} \/ TakesOver(m, q.got) THEN UNCHANGED saved ELSE Remember(first)
       /\ IF onChat /\ q.visit = chatVisit
            THEN /\ models' = q.got /\ modelsLoading' = FALSE
                 /\ selectedModel' = CASE q.got = {}           -> selectedModel
                                       [] TakesOver(m, q.got)  -> m
                                       [] OTHER                -> first
            ELSE UNCHANGED <<models, selectedModel, modelsLoading>>
  /\ UNCHANGED <<usable, isOpen, search, disabled, chatVisit, onChat>>

ToggleMenu ==
  /\ onChat /\ ~disabled /\ ~modelsLoading /\ isOpen' = ~isOpen
  /\ UNCHANGED <<models, selectedModel, modelsLoading, saved, usable, search, disabled,
                 chatVisit, onChat, lookups>>

\* Escape, or a click elsewhere.  The search text stays for the next time.
CloseMenu ==
  /\ onChat /\ isOpen /\ isOpen' = FALSE
  /\ UNCHANGED <<models, selectedModel, modelsLoading, saved, usable, search, disabled,
                 chatVisit, onChat, lookups>>

SearchModels ==
  /\ onChat /\ isOpen /\ search' = ~search
  /\ UNCHANGED <<models, selectedModel, modelsLoading, saved, usable, isOpen, disabled,
                 chatVisit, onChat, lookups>>

FilteredModels == IF search THEN models \cap Matching ELSE models

OnSelectModel(m) ==
  /\ onChat /\ isOpen /\ m \in FilteredModels
  /\ selectedModel' = m /\ Remember(m)
  /\ isOpen' = FALSE /\ search' = FALSE
  /\ UNCHANGED <<models, modelsLoading, usable, disabled, chatVisit, onChat, lookups>>

\* A question begins or ends.  An open menu stays open.
Sending ==
  /\ onChat /\ disabled' = ~disabled
  /\ UNCHANGED <<models, selectedModel, modelsLoading, saved, usable, isOpen, search,
                 chatVisit, onChat, lookups>>

MenuNext ==
  \/ OpenChat \/ LeaveChat \/ ToggleMenu \/ CloseMenu \/ SearchModels \/ Sending
  \/ \E m \in Models : OnSelectModel(m)
  \/ \E q \in lookups : ModelsOffered(q) \/ FetchModels(q)

MenuSpec == MenuInit /\ [][MenuNext]_menuVars

----------------------------------------------------------------------------
MenuTypeOK ==
  /\ models \subseteq Models /\ {selectedModel, saved} \subseteq Models \cup {0}
  /\ {modelsLoading, usable, isOpen, search, disabled, onChat} \subseteq BOOLEAN
  /\ lookups \subseteq [visit : 1..MaxVisitsToChat, at : {"out", "ok"}, got : SUBSET Models]
  /\ chatVisit \in 0..MaxVisitsToChat

\* The model a question is sent with is one the agent offered on this visit, or none:
\* a remembered model that is not offered any more is not used (useModels).
SelectedOffered == onChat /\ selectedModel # 0 => selectedModel \in models

\* The remembered choice is replaced only by a choice in the menu, or when some visit
\* was offered models without it.  In particular an answer that comes after its visit
\* does not undo a choice that was made since and is still offered (useModels).
ChoiceReplaced ==
  [][saved' # saved =>
       \/ \E m \in Models : OnSelectModel(m)
       \/ \E q \in lookups \ lookups' : q.got # {} /\ saved \notin q.got]_menuVars
==============================================================================
