----------------------------- MODULE Workspace -----------------------------
(***************************************************************************)
(* App.tsx and state.ts: which context, namespace and section the user     *)
(* works in, from the loading of the page to the next one.                 *)
(*                                                                         *)
(* A task, the bootstrap or the switch to another context, is a sequence   *)
(* of calls of the API, each of which can fail; the server may have        *)
(* selected the context even when that call fails.  While no task has come *)
(* to its end, a dialog keeps the user from everything but Retry.  A page  *)
(* can be loaded again at any time: only the browser's storage and the     *)
(* server's selection survive.                                             *)
(*                                                                         *)
(* The settings view, the details shown in the start-up dialog and the     *)
(* hints of the namespace list's path are abstracted.  The first of a list *)
(* is any of it.                                                           *)
(***************************************************************************)
EXTENDS Connection, Sequences

CONSTANTS
  Namespaces,       \* names of namespaces
  Sections,         \* sections of the interface
  HomeSection,      \* "pods"
  DefaultNamespace, \* "default"
  ConfigNamespace,  \* the namespace of a context in the kubeconfig, or None
  WarmUps,          \* INITIAL_NAMESPACE_RETRY_ATTEMPTS
  MaxRecent         \* MAX_RECENT_NAMESPACES

ASSUME WorkspaceAssumption ==
  /\ None \notin Namespaces \union Sections
  /\ HomeSection \in Sections /\ DefaultNamespace \in Namespaces
  /\ ConfigNamespace \in [Contexts -> Namespaces \union {None}]
  /\ WarmUps \in Nat /\ MaxRecent \in Nat \ {0}

VARIABLES
  configured,     \* the contexts of the kubeconfig
  selected,       \* the context the server has selected
  stored,         \* appState, which is kept in localStorage
  phase,          \* bootstrapPhase
  task,           \* the task under way, or None
  activeContext,  \* None before the first selection
  namespaces,     \* the list, with the context it was fetched from
  namespace,
  section,
  favourites

viewVars == <<activeContext, namespaces, namespace, section, favourites>>
workVars == <<configured, selected, stored, phase, task, viewVars>>
workspaceVars == <<workVars, connectionVars>>

MaybeNamespace == Namespaces \union {None}

Lists == [of : Contexts \union {None}, items : SUBSET Namespaces,
          limited : BOOLEAN]
NoNamespaces == [of |-> None, items |-> {}, limited |-> FALSE]

AppStates ==
  [context : Contexts \union {None}, namespace : MaybeNamespace,
   section : Sections \union {None},
   favourites : [Contexts -> SUBSET Namespaces],
   recent : [Contexts -> UNION {[1..n -> Namespaces] : n \in 0..MaxRecent}]]

Tasks ==
  [op : {"bootstrap", "switch"}, context : Contexts \union {None},
   preferred : MaybeNamespace, left : 0..WarmUps]

Phases == {"contexts", "context", "migration", "namespaces", "ready",
           "no-context", "error"}

WSTypeOK ==
  /\ configured \subseteq Contexts
  /\ selected \in Contexts \union {None}
  /\ stored \in AppStates
  /\ phase \in Phases
  /\ task \in Tasks \union {None}
  /\ activeContext \in Contexts \union {None}
  /\ namespaces \in Lists
  /\ namespace \in MaybeNamespace
  /\ section \in Sections
  /\ favourites \subseteq Namespaces
  /\ ConnectionTypeOK

Bootstrap == [op |-> "bootstrap", context |-> None, preferred |-> None,
              left |-> WarmUps]

\* loadState finds nothing, or what an earlier session left: one that ended
\* with a context that may be gone from the kubeconfig since.
NothingStored ==
  [context |-> None, namespace |-> None, section |-> None,
   favourites |-> [c \in Contexts |-> {}],
   recent |-> [c \in Contexts |-> << >>]]

LeftBehind ==
  {[context |-> c, namespace |-> n, section |-> HomeSection,
    favourites |-> NothingStored.favourites,
    recent |-> [NothingStored.recent EXCEPT ![c] = <<n>>]] :
     c \in Contexts, n \in Namespaces}

WSInit ==
  /\ ConnectionInit
  /\ configured \in SUBSET Contexts
  /\ selected \in IF configured = {} THEN {None} ELSE configured
  /\ stored \in {NothingStored} \union LeftBehind
  /\ phase = "contexts" /\ task = Bootstrap
  /\ activeContext = None /\ namespaces = NoNamespaces /\ namespace = None
  /\ section = HomeSection /\ favourites = {}

-----------------------------------------------------------------------------
(* state.ts and the helpers of App.tsx.                                    *)

\* Mutant: every namespace is recorded, however long the list is.
RecordRecentNamespace_Unbounded(s, c, n) ==
  IF c = None \/ n = None THEN s ELSE [s EXCEPT !.recent[c] = <<n>> \o @]

\* Mutant: a namespace that was recorded stays where it was.
RecordRecentNamespace_Append(s, c, n) ==
  IF c = None \/ n = None \/ (\E i \in DOMAIN s.recent[c] : s.recent[c][i] = n)
  THEN s
  ELSE [s EXCEPT !.recent[c] =
          SubSeq(<<n>> \o @, 1,
                 IF Len(@) < MaxRecent THEN Len(@) + 1 ELSE MaxRecent)]

\* prev.filter((x) => x !== ns)
Without(ns, n) ==
  LET kept[i \in 0..Len(ns)] ==
        IF i = 0 THEN << >>
        ELSE IF ns[i] = n THEN kept[i - 1]
        ELSE Append(kept[i - 1], ns[i])
  IN  kept[Len(ns)]

\* Mutant: a namespace that was recorded is recorded again.
RecordRecentNamespace_Repeats(s, c, n) ==
  LET all == <<n>> \o s.recent[c]
  IN  IF c = None \/ n = None THEN s
      ELSE [s EXCEPT !.recent[c] =
              IF Len(all) > MaxRecent THEN SubSeq(all, 1, MaxRecent) ELSE all]

\* Most recent first, without repetition, at most MaxRecent.
RecordRecentNamespace(s, c, n) ==
  LET all == <<n>> \o Without(s.recent[c], n)
  IN  IF c = None \/ n = None THEN s
      ELSE [s EXCEPT !.recent[c] =
              IF Len(all) > MaxRecent THEN SubSeq(all, 1, MaxRecent) ELSE all]

ToggleFavouriteNamespace(s, c, n) ==
  [s EXCEPT !.favourites[c] = IF n \in @ THEN @ \ {n} ELSE @ \union {n}]

\* The first of n and m that is there.
Or(n, m) == IF n # None THEN n ELSE m

\* Mutant: what was preferred, whether this context has it or not.
PickNamespace_Preferred(list, preferred) == {preferred}

\* pickNamespace, over every order of the list.
PickNamespace(list, preferred) ==
  IF list.limited \/ preferred \in list.items THEN {preferred}
  ELSE IF list.items = {} THEN {None} ELSE list.items

\* stateCtx, or the server's, or the first.
ChooseContext ==
  IF stored.context \in configured THEN {stored.context}
  ELSE IF selected \in configured THEN {selected} ELSE configured

-----------------------------------------------------------------------------
(* The tasks.                                                              *)

CallEnds(how) == ApiEnd(how) /\ UNCHANGED <<pollVars, worldVars>>

\* The kubeconfig has no contexts.
NoContext ==
  /\ phase' = "no-context" /\ task' = None
  /\ activeContext' = None /\ namespaces' = NoNamespaces /\ namespace' = None
  /\ UNCHANGED <<section, favourites>>

ContextsRead ==
  /\ phase = "contexts"
  /\ CallEnds("ok")
  /\ IF configured = {}
     THEN NoContext
     ELSE /\ \E c \in ChooseContext :
               task' = [task EXCEPT !.context = c,
                 !.preferred = Or(stored.namespace,
                                  Or(ConfigNamespace[c], DefaultNamespace))]
          /\ phase' = "context"
          /\ UNCHANGED viewVars
  /\ UNCHANGED <<configured, selected, stored>>

\* Mutant: the interface goes on without the server.
ContextSelected_Unselected ==
  /\ phase = "context"
  /\ activeContext' = task.context /\ namespace' = task.preferred
  /\ phase' = "namespaces"
  /\ UNCHANGED <<configured, selected, stored, task, namespaces, section,
                 favourites, connectionVars>>

\* The server has selected the context.  The switch then reads the contexts
\* again, the bootstrap has done so.
ContextSelected ==
  /\ phase = "context" /\ task.context \in configured
  /\ CallEnds("ok")
  /\ selected' = task.context
  /\ activeContext' = task.context /\ namespace' = task.preferred
  /\ IF task.op = "bootstrap"
     THEN section' = Or(stored.section, HomeSection) /\ phase' = "namespaces"
     ELSE UNCHANGED section /\ phase' = "migration"
  /\ UNCHANGED <<configured, stored, task, namespaces, favourites>>

ContextsRefreshed ==
  /\ phase = "migration"
  /\ CallEnds("ok")
  /\ phase' = "namespaces"
  /\ UNCHANGED <<configured, selected, stored, task, viewVars>>

\* The namespaces are there: both tasks end with the same choices.
Finish(list) ==
  \E n \in PickNamespace(list, task.preferred) :
    /\ namespaces' = list
    /\ namespace' = n
    /\ favourites' = stored.favourites[task.context]
    /\ stored' = RecordRecentNamespace(
         [stored EXCEPT
            !.context = task.context,
            !.namespace = IF task.op = "bootstrap"
                          THEN Or(n, stored.namespace) ELSE n,
            !.section = IF task.op = "bootstrap"
                        THEN Or(stored.section, HomeSection)
                        ELSE stored.section],
         task.context, n)
    /\ section' = IF task.op = "bootstrap" THEN Or(stored.section, HomeSection)
                  ELSE section
    /\ phase' = "ready" /\ task' = None
    /\ UNCHANGED activeContext

\* Mutant: the attempts start anew.
WarmUp_Forever ==
  /\ task' = [task EXCEPT !.left = IF @ = 0 THEN WarmUps ELSE @ - 1]
  /\ UNCHANGED <<stored, phase, viewVars>>

\* An empty list is asked for again, some times.
WarmUp ==
  /\ task.left > 0
  /\ task' = [task EXCEPT !.left = @ - 1]
  /\ UNCHANGED <<stored, phase, viewVars>>

NamespacesRead ==
  /\ phase = "namespaces"
  /\ CallEnds("ok")
  /\ \E items \in SUBSET Namespaces :
       LET list == [of |-> task.context, items |-> items, limited |-> FALSE]
       IN  \/ items = {} /\ WarmUp
           \/ (items # {} \/ task.left = 0) /\ Finish(list)
  /\ UNCHANGED <<configured, selected>>

\* 401 and 403 count as a limited list, which ends the warming up.
NamespacesDenied ==
  /\ phase = "namespaces"
  /\ CallEnds("refused")
  /\ Finish([of |-> task.context, items |-> {}, limited |-> TRUE])
  /\ UNCHANGED <<configured, selected>>

\* Any call of a task can fail, with the context selected by the server or
\* not.  A context that is not configured is refused.
TaskFails ==
  /\ task # None
  /\ \/ \E how \in ApiEnds \ {"ok"} : CallEnds(how)
     \/ /\ phase = "context" /\ task.context \notin configured /\ reachable
        /\ UNCHANGED connectionVars
  /\ selected' \in IF phase = "context" /\ task.context \in configured
                   THEN {selected, task.context} ELSE {selected}
  /\ phase' = "error" /\ task' = None
  /\ UNCHANGED <<configured, stored, viewVars>>

TaskStep ==
  \/ ContextsRead \/ ContextSelected \/ ContextsRefreshed
  \/ NamespacesRead \/ NamespacesDenied \/ TaskFails

-----------------------------------------------------------------------------
(* The user.                                                               *)

UserStep ==
  /\ Spend("user")
  /\ UNCHANGED <<configured, selected, healthVars, pollVars, worldVars>>

\* The start-up dialog is closed.
Usable == phase = "ready"

\* A context of the menu, or a name typed as a command.
SelectContext(c) ==
  /\ Usable /\ UserStep
  /\ phase' = "context"
  /\ task' = [op |-> "switch", context |-> c, left |-> WarmUps,
              preferred |-> Or(IF c \in configured THEN ConfigNamespace[c]
                               ELSE None,
                               Or(stored.namespace, DefaultNamespace))]
  /\ UNCHANGED <<stored, viewVars>>

\* What onSelectNamespace and onSelectSection do to appState.
WithNamespace(s, n) ==
  RecordRecentNamespace([s EXCEPT !.namespace = n], activeContext, n)

\* None: the field was cleared.
SelectNamespace(n) ==
  /\ Usable /\ UserStep
  /\ namespace' = n
  /\ stored' = WithNamespace(stored, n)
  /\ UNCHANGED <<phase, task, activeContext, namespaces, section, favourites>>

SelectSection(s) ==
  /\ Usable /\ UserStep
  /\ section' = s
  /\ stored' = [stored EXCEPT !.section = s]
  /\ UNCHANGED <<phase, task, activeContext, namespaces, namespace,
                 favourites>>

\* A search result, or a link of the dashboard or the namespaces page.
Navigate(n, s) ==
  /\ Usable /\ UserStep
  /\ namespace' = n /\ section' = s
  /\ stored' = [WithNamespace(stored, n) EXCEPT !.section = s]
  /\ UNCHANGED <<phase, task, activeContext, namespaces, favourites>>

ToggleFavourite(n) ==
  /\ Usable /\ UserStep
  /\ stored' = ToggleFavouriteNamespace(stored, activeContext, n)
  /\ favourites' = stored'.favourites[activeContext]
  /\ UNCHANGED <<phase, task, activeContext, namespaces, namespace, section>>

\* The button of the dialog.
Retry ==
  /\ phase \in {"error", "no-context"} /\ UserStep
  /\ phase' = "contexts" /\ task' = Bootstrap
  /\ UNCHANGED <<stored, viewVars>>

\* The page is loaded again: what was under way is gone.
Reload ==
  /\ Spend("user")
  /\ phase' = "contexts" /\ task' = Bootstrap
  /\ activeContext' = None /\ namespaces' = NoNamespaces /\ namespace' = None
  /\ section' = HomeSection /\ favourites' = {}
  /\ backendHealth' = "healthy" /\ clusterHealth' = "healthy"
  /\ health' = "healthy" /\ issue' = None
  /\ watched' = None /\ polls' = {"asked"}
  /\ UNCHANGED <<configured, selected, stored, worldVars>>

\* The connection's own steps.
ConnectionStep ==
  /\ \/ Watch(activeContext) \/ RequestConnectionRetry \/ IntervalPasses
     \/ StatusTaken(selected) \/ StatusAnswered \/ OtherCallEnds
     \/ BackendChanges \/ \E c \in Contexts : ClusterChanges(c)
  /\ UNCHANGED workVars

WSNext ==
  \/ TaskStep
  \/ \E c \in Contexts : SelectContext(c)
  \/ \E n \in MaybeNamespace : SelectNamespace(n)
  \/ \E s \in Sections : SelectSection(s)
  \/ \E n \in Namespaces, s \in Sections : Navigate(n, s)
  \/ \E n \in Namespaces : ToggleFavourite(n)
  \/ Retry \/ Reload
  \/ ConnectionStep

\* Calls are answered or fail, effects run, and the interval passes.
WSFairness ==
  /\ WF_workspaceVars(TaskStep)
  /\ WF_workspaceVars(Watch(activeContext) /\ UNCHANGED workVars)
  /\ WF_workspaceVars(IntervalPasses /\ UNCHANGED workVars)
  /\ WF_workspaceVars(StatusTaken(selected) /\ UNCHANGED workVars)
  /\ WF_workspaceVars(StatusAnswered /\ UNCHANGED workVars)

WSSpec == WSInit /\ [][WSNext]_workspaceVars
WSFairSpec == WSSpec /\ WSFairness

-----------------------------------------------------------------------------
(* Properties.                                                             *)

\* Whenever the user can work, everything belongs to one context: the one
\* the requests name is the one the server has selected, the one that is
\* stored, the one the namespaces were listed in, and the one whose
\* favourites are shown; and a page that is loaded again finds the section
\* and the namespace it left.  However switches failed half-way, and
\* whatever was retried or loaded again before.
OneContext ==
  phase = "ready" =>
    /\ activeContext \in configured
    /\ selected = activeContext
    /\ stored.context = activeContext
    /\ namespaces.of = activeContext
    /\ favourites = stored.favourites[activeContext]
    /\ stored.section = section
    /\ stored.namespace = namespace \/ namespace = None

\* The namespace the user works in heads the recent ones of the context.
RecentFirst ==
  phase = "ready" /\ namespace # None =>
    /\ stored.recent[activeContext] # << >>
    /\ Head(stored.recent[activeContext]) = namespace

Distinct(ns) == \A i, j \in DOMAIN ns : ns[i] = ns[j] => i = j

\* No context's recent namespaces name one twice, whatever was chosen in
\* whatever order and cut off at the end: the menu and the namespace hints
\* identify an entry by its name.
RecentDistinct == \A c \in Contexts : Distinct(stored.recent[c])

\* A task never ends in a namespace the context is known not to have.
EndsInKnownNamespace ==
  [][phase # "ready" /\ phase' = "ready" =>
       \/ namespaces'.limited
       \/ namespace' \in namespaces'.items
       \/ namespaces'.items = {} /\ namespace' = None]_workspaceVars

\* Starting up and switching come to an end.
StartupEnds == []<>(task = None)

\* When the backend and the clusters stay as they are and the context stays,
\* the interface ends up knowing whether it can reach the active cluster.
Reaches(c) == reachable /\ c \in answering
HealthConverges ==
  \A c \in Contexts :
    /\ <>[](watched = c /\ Reaches(c)) => <>[](health = "healthy")
    /\ <>[](watched = c /\ ~Reaches(c)) => <>[](health = "unhealthy")
=============================================================================
