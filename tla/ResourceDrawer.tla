--------------------------- MODULE ResourceDrawer ---------------------------
(***************************************************************************)
(* A drawer of the user interface: one component of DrawerCatalog, for its *)
(* whole life.                                                             *)
(*                                                                         *)
(* A drawer stays mounted while it is closed and while its object changes; *)
(* its effects start requests and never cancel one.  The answer of a       *)
(* request for a former object is taken for one of the object shown now.   *)
(* The properties say what can be shown because of that: left keeps the    *)
(* requests for other objects that were under way when the drawer began    *)
(* to load its object.                                                     *)
(*                                                                         *)
(* An effect runs in the step that causes it: what moves a drawer is a     *)
(* click or a key, and React flushes the effects of such an event before   *)
(* it handles the next one.                                                *)
(***************************************************************************)
EXTENDS DrawerCatalog, YamlEdit, MutationDialog

CONSTANTS
  Kinds,        \* the drawers looked at
  Visited,      \* bound: the labels of the tabs that are selected
  MaxMoves,     \* bound: loads
  MaxFailures,  \* bound: requests that fail
  MaxOutages    \* bound: how often the connection becomes unhealthy

\* The Helm chart's drawer requests nothing; the custom resource's, which
\* first looks up the plural of its kind, is not modelled further.
ASSUME DrawerAssumption ==
  /\ Kinds \subseteq {d \in Drawers : d.load.chain \notin
                        {NoRequests.chain, ResolveThenDetails.chain}}
  /\ MaxMoves \in Nat /\ MaxFailures \in Nat /\ MaxOutages \in Nat

VARIABLES
  drawer,       \* which component it is
  target,       \* the object of its props; None while it is closed
  online,       \* health # "unhealthy"
  loading,
  failed,       \* err is set
  details,      \* the object whose details were loaded, or None
  events,       \* the object whose events were loaded, or None
  tab,          \* counted from 0
  list,         \* the list of a lazy tab; the Namespace drawer's YAML
  more,         \* the list that follows it: the ingresses of a pod's services
  nested,       \* a nested drawer is open: the object its link was found on
  cache,        \* the names whose details, and lists, were kept
  requests,     \* under way
  moves,        \* loads so far
  loaded,       \* history: the object of the last load, or None
  left,         \* history, see above
  failures, outages

viewVars  == <<loading, failed, details, events, tab, list, more, nested>>
loadVars  == <<cache, requests, moves, loaded, left>>
worldVars == <<drawer, online, failures, outages>>
drawerVars == <<viewVars, loadVars, worldVars, target, editVars, mutation>>

\* "done": it was asked for, or its request ended; "bad": its error is set.
NoList == [busy |-> FALSE, done |-> FALSE, bad |-> FALSE, of |-> None]

Lists ==
  [busy : BOOLEAN, done : BOOLEAN, bad : BOOLEAN, of : Objects \union {None}]

Requests ==
  [step : {"details", "events", "list", "more"}, of : Objects, at : 1..MaxMoves]

RDTypeOK ==
  /\ drawer \in Kinds
  /\ target \in Objects \union {None}
  /\ online \in BOOLEAN /\ loading \in BOOLEAN /\ failed \in BOOLEAN
  /\ details \in Objects \union {None}
  /\ events \in Objects \union {None}
  /\ tab \in 0..(Len(drawer.tabs) - 1)
  /\ list \in Lists /\ more \in Lists
  /\ nested \in Objects \union {None}
  /\ cache \subseteq ({"details", "list"} \X Objects)
  /\ requests \subseteq Requests
  /\ moves \in 0..MaxMoves
  /\ loaded \in Objects \union {None}
  /\ left \subseteq Requests
  /\ failures \in 0..MaxFailures
  /\ outages \in 0..MaxOutages
  /\ EditTypeOK
  /\ mutation \in Dialogs(Actions(drawer.name), Objects) \union {Closed}

RDInit ==
  /\ drawer \in Kinds
  /\ target = None /\ online = TRUE
  /\ loading = FALSE /\ failed = FALSE
  /\ details = None /\ events = None /\ tab = 0
  /\ list = NoList /\ more = NoList
  /\ nested = None /\ cache = {} /\ requests = {}
  /\ moves = 0 /\ loaded = None /\ left = {}
  /\ failures = 0 /\ outages = 0
  /\ EditInit
  /\ MutationInit

Label(t) == drawer.tabs[t + 1]

\* The error of the Namespace drawer's lazy tabs is shown on them alone.
Erroneous ==
  failed \/ (drawer.load.caches /\ list.bad /\ Label(tab) \in drawer.load.lazyTabs)

\* The branch of the rendering that has the tabs.
Visible ==
  /\ target # None /\ ~loading
  /\ Erroneous => drawer.load.caches /\ details # None

Kept(what, o) == drawer.load.caches /\ <<what, o>> \in cache

-----------------------------------------------------------------------------
(* The effects.                                                            *)

Request(step, o, at) == [step |-> step, of |-> o, at |-> at]

\* The effects of a lazy tab do not return at once.
Lazy(t, o, on) ==
  /\ o # None
  /\ Label(t) \in drawer.load.lazyTabs
  /\ drawer.load.waits => on

\* The Namespace drawer does not ask for its list either when there is one,
\* whatever it is of.
FetchesList(l) ==
  /\ ~l.busy /\ ~l.done
  /\ drawer.load.caches => l.of = None

\* The Namespace drawer notes that its list was asked for, the others that
\* its request ended.
Fetching(l) == [l EXCEPT !.busy = TRUE, !.bad = FALSE, !.done = drawer.load.caches]

\* The second list follows the first, of the objects found there, if any, and
\* shares its error.
Follows(l) == drawer.load.chainsList /\ l.done
FetchesMore(l, m) == Follows(l) /\ ~l.bad /\ ~m.busy /\ ~m.done
SkipsMore(l, m) == Follows(l) /\ (l.bad \/ FetchesMore(l, m))

\* The effects of the lazy tab run with the lists of a rendering, l and m, and
\* change what l0 and m0 say of them; rs are the requests under way.
LazyEffects(t, o, on, l, m, l0, m0, rs, at) ==
  LET lists == Lazy(t, o, on) /\ FetchesList(l)
  IN  /\ list' = IF lists THEN Fetching(l0) ELSE l0
      /\ \/ /\ Lazy(t, o, on) /\ FetchesMore(l, m) /\ l.of # None
            /\ more' = [m0 EXCEPT !.busy = TRUE]
            /\ requests' = rs \union {Request("more", l.of, at)}
         \/ /\ more' = IF Lazy(t, o, on) /\ SkipsMore(l, m)
                       THEN [m0 EXCEPT !.done = TRUE] ELSE m0
            /\ requests' = rs \union
                 (IF lists THEN {Request("list", o, at)} ELSE {})

\* Mutant: the list is not reset.
Reset_KeepsList(o) ==
  [NoList EXCEPT !.done = Kept("list", o), !.of = list.of]

\* What a load makes of the list.
Reset(o) ==
  [NoList EXCEPT !.done = Kept("list", o),
                 !.of = IF Kept("list", o) THEN o ELSE None]

\* The effect that loads: everything of the former object is reset, then the
\* first request is sent.  The effects of the lazy tab run after it, with
\* the tab and the lists of the former rendering.  The YAML panel goes, and
\* ps are the requests it leaves behind.
Load(o, on, ps) ==
  /\ moves < MaxMoves
  /\ moves' = moves + 1
  /\ LazyEffects(tab, o, on, list, more, Reset(o), NoList,
                 requests \union {Request("details", o, moves')}, moves')
  /\ loaded' = o
  /\ left' = {r \in requests' : r.of # o}
  /\ tab' = 0 /\ failed' = FALSE /\ events' = None /\ nested' = None
  /\ details' = IF Kept("details", o) THEN o ELSE None
  /\ loading' = ~Kept("details", o)
  /\ Gone
  /\ posts' = Orphans(ps)
  /\ UNCHANGED cache

\* The effects of a rendering whose object, connection or nonce changed.
Effects(o, on) ==
  IF o = None \/ (drawer.load.waits /\ ~on)
  THEN UNCHANGED <<viewVars, loadVars, editVars>>
  ELSE Load(o, on, posts)

-----------------------------------------------------------------------------
(* The user and the connection.                                            *)

\* While a dialog is open, nothing else can be reached.
InDialog == editor # None \/ Mutating

\* Another row is opened, or the drawer is closed.
Retarget(o) ==
  /\ ~InDialog
  /\ o # target
  /\ target' = o
  /\ IF o = None
     THEN /\ posts' = Orphans(posts)
          /\ UNCHANGED <<viewVars, loadVars, editor, vetted>>
     ELSE Effects(o, online)
  /\ UNCHANGED worldVars

\* The retryNonce of the connection is raised.
Reread ==
  /\ target # None
  /\ Effects(target, online)
  /\ UNCHANGED <<target, worldVars>>

HealthChanges ==
  /\ online => outages < MaxOutages
  /\ online' = ~online
  /\ outages' = IF online THEN outages + 1 ELSE outages
  /\ IF drawer.load.waits
     THEN Effects(target, online')
     ELSE UNCHANGED <<viewVars, loadVars, editVars>>
  /\ UNCHANGED <<target, drawer, failures>>

\* Leaving the YAML tab takes its panel away.
ShowTab(t) ==
  /\ Visible /\ nested = None /\ ~InDialog
  /\ tab' = t
  /\ LazyEffects(t, target, online, list, more, list, more, requests, moves)
  /\ posts' = Orphans(posts)
  /\ UNCHANGED <<loading, failed, details, events, nested, cache, moves, loaded,
                 left, worldVars, target, editor, vetted>>

SelectTab ==
  \E t \in 0..(Len(drawer.tabs) - 1) :
    t # tab /\ Label(t) \in Visited /\ ShowTab(t)

Follow ==
  /\ Visible /\ ~InDialog
  /\ drawer.links # {} /\ details # None /\ nested = None
  /\ nested' = details
  /\ UNCHANGED <<loading, failed, details, events, tab, list, more, loadVars,
                 worldVars, target, editVars>>

CloseNested ==
  /\ Visible /\ nested # None
  /\ nested' = None
  /\ UNCHANGED <<loading, failed, details, events, tab, list, more, loadVars,
                 worldVars, target, editVars>>

-----------------------------------------------------------------------------
(* Answers.                                                                *)

\* Mutant: the YAML is kept in place of the details.
DetailsAnswered_Yaml(r) ==
  /\ r.step = "details"
  /\ details' = Yaml(r.of)
  /\ loading' = FALSE
  /\ requests' = requests \ {r}
  /\ UNCHANGED <<failed, events, list, more, cache, editor, vetted>>

\* What the YAML panel shows: the Namespace drawer gets it with its list.
YamlOf == IF drawer.load.caches THEN list.of ELSE details

\* The dialog starts anew when the YAML it was given changes to that of o.
Restarts(o) ==
  IF editor # None /\ YamlOf # o
  THEN Start(Yaml(o)) ELSE UNCHANGED <<editor, vetted>>

DetailsAnswered(r) ==
  LET last == Len(drawer.load.chain) = 1
  IN  /\ r.step = "details"
      /\ details' = r.of
      /\ IF drawer.load.caches THEN UNCHANGED <<editor, vetted>> ELSE Restarts(r.of)
      /\ cache' = IF drawer.load.caches
                  THEN cache \union {<<"details", r.of>>} ELSE cache
      /\ loading' = IF last THEN FALSE ELSE loading
      /\ requests' = (requests \ {r}) \union
           (IF last THEN {} ELSE {Request("events", r.of, r.at)})
      /\ UNCHANGED <<failed, events, list, more>>

EventsAnswered(r) ==
  /\ r.step = "events"
  /\ events' = r.of
  /\ loading' = FALSE
  /\ requests' = requests \ {r}
  /\ UNCHANGED <<failed, details, list, more, cache, editor, vetted>>

\* The list's own finally.
Listed(l) ==
  [l EXCEPT !.busy = FALSE, !.done = IF drawer.load.caches THEN @ ELSE TRUE]

\* The effects of the tab run again with list l, and r is answered.
ListEnds(l, r) ==
  LazyEffects(tab, target, online, l, more, l, more, requests \ {r}, moves)

ListAnswered(r) ==
  /\ r.step = "list"
  /\ ListEnds([Listed(list) EXCEPT !.of = r.of], r)
  /\ IF drawer.load.caches THEN Restarts(r.of) ELSE UNCHANGED <<editor, vetted>>
  /\ cache' = IF drawer.load.caches
              THEN cache \union {<<"list", r.of>>} ELSE cache
  /\ UNCHANGED <<loading, failed, details, events>>

\* The requests for the ingresses of all services have ended.
MoreEnds(r, o) ==
  /\ r.step = "more"
  /\ more' = [more EXCEPT !.busy = FALSE, !.done = TRUE, !.of = o]
  /\ requests' = requests \ {r}
  /\ UNCHANGED <<loading, failed, list, editor, vetted>>

MoreAnswered(r) == MoreEnds(r, r.of) /\ UNCHANGED <<details, events, cache>>

Answered(r) ==
  /\ r \in requests
  /\ \/ DetailsAnswered(r)
     \/ EventsAnswered(r)
     \/ ListAnswered(r)
     \/ MoreAnswered(r)
  /\ UNCHANGED <<tab, nested, moves, loaded, left, worldVars, target, posts>>

\* Mutant: only an answer ends the loading.
LoadFailed_KeepsLoading(r) ==
  /\ r.step \in {"details", "events"}
  /\ failed' = TRUE
  /\ requests' = requests \ {r}
  /\ UNCHANGED <<loading, list, more, editVars>>

\* The error takes the tabs' place, and the YAML panel with them.
LoadFailed(r) ==
  /\ r.step \in {"details", "events"}
  /\ loading' = FALSE
  /\ failed' = (failed \/ ~Kept("details", r.of))
  /\ IF failed' /\ ~(drawer.load.caches /\ details # None)
     THEN Gone /\ posts' = Orphans(posts)
     ELSE UNCHANGED editVars
  /\ requests' = requests \ {r}
  /\ UNCHANGED <<list, more>>

\* In the Namespace drawer the error takes the YAML panel's place.
ListFailed(r) ==
  /\ r.step = "list"
  /\ ListEnds([Listed(list) EXCEPT !.bad = @ \/ ~Kept("list", r.of)], r)
  /\ IF drawer.load.caches /\ list'.bad
     THEN Gone /\ posts' = Orphans(posts)
     ELSE UNCHANGED editVars
  /\ UNCHANGED <<loading, failed>>

MoreFailed(r) == MoreEnds(r, None) /\ UNCHANGED posts

Failed(r) ==
  /\ r \in requests
  /\ failures < MaxFailures
  /\ failures' = failures + 1
  /\ LoadFailed(r) \/ ListFailed(r) \/ MoreFailed(r)
  /\ UNCHANGED <<details, events, tab, nested, cache, moves, loaded, left,
                 drawer, online, outages, target>>

-----------------------------------------------------------------------------
(* Editing.                                                                *)

\* The Helm release's YAML is not edited.
Editable ==
  /\ Visible /\ nested = None /\ ~Mutating
  /\ Label(tab) = "YAML" /\ YamlOf # None
  /\ drawer.load.caches => ~list.bad
  /\ drawer.name # "HelmReleaseDrawer"

StaysInDialog == UNCHANGED <<viewVars, loadVars, worldVars, target>>

EditStep ==
  /\ \/ Editable /\ OpenEditor(Yaml(YamlOf))
     \/ CloseEditor
     \/ Type
     \/ \E action \in {"validate", "apply"} : Post(action, target)
     \/ \E p \in posts : Refused(p) \/ Validated(p)
  /\ StaysInDialog

\* onApplied, then onClose; onApplied also when the dialog is gone.
EditApplied(p) ==
  /\ p \in posts
  /\ p.action = "apply" /\ Acceptable(p)
  /\ IF drawer.rereads /\ target # None /\ (drawer.load.waits => online)
     THEN Load(target, online, posts \ {p}) /\ UNCHANGED <<target, worldVars>>
     ELSE /\ IF Reaches(p) THEN Gone ELSE UNCHANGED <<editor, vetted>>
          /\ posts' = posts \ {p}
          /\ StaysInDialog

-----------------------------------------------------------------------------
(* Changing the object.                                                    *)

\* Whether the user may is the server's to say.
Offered(a) ==
  /\ Visible /\ online
  /\ nested = None /\ editor = None
  /\ tab = a.tab

MutationStep ==
  /\ \/ \E a \in Actions(drawer.name) : Offered(a) /\ OpenMutation(a, target)
     \/ FillIn(online)
     \/ Execute(online)
     \/ Retry
     \/ CloseMutation
  /\ StaysInDialog
  /\ UNCHANGED editVars

\* onSuccess, which the drawer gave when the dialog opened.
MutationSucceeds ==
  /\ Succeed
  /\ \/ /\ mutation.action.after = "closes"
        /\ target' = None
        /\ posts' = Orphans(posts)
        /\ UNCHANGED <<viewVars, loadVars, worldVars, editor, vetted>>
     \/ /\ mutation.action.after = "rereads"
        /\ Effects(target, online)
        /\ UNCHANGED <<target, worldVars>>
     \/ /\ mutation.action.after = "nothing"
        /\ StaysInDialog
        /\ UNCHANGED editVars

MutationAnswered ==
  \/ MutationSucceeds
  \/ Fail /\ StaysInDialog /\ UNCHANGED editVars

-----------------------------------------------------------------------------
DrawerStep ==
  \/ \E o \in Objects \union {None} : Retarget(o)
  \/ Reread
  \/ HealthChanges
  \/ SelectTab
  \/ Follow \/ CloseNested
  \/ \E r \in Requests : Answered(r) \/ Failed(r)
  \/ EditStep
  \/ \E p \in Posts : EditApplied(p)

RDNext ==
  \/ DrawerStep /\ UNCHANGED mutation
  \/ MutationStep
  \/ MutationAnswered

\* While requests are under way, one is answered or fails in the end: there are
\* MaxMoves loads, so that none waits for ever.
RDFairness ==
  /\ WF_drawerVars(\E r \in requests :
                     (Answered(r) \/ Failed(r)) /\ UNCHANGED mutation)
  /\ WF_drawerVars(MutationAnswered)

RDSpec == RDInit /\ [][RDNext]_drawerVars
RDFairSpec == RDSpec /\ RDFairness

-----------------------------------------------------------------------------
(* Properties.                                                             *)

\* What was loaded for object o can be shown: o is the object of the last load,
\* or a request for o that this load left behind has ended since.
From(o, steps) ==
  \/ o = loaded
  \/ \E r \in left \ requests : r.of = o /\ r.step \in steps

\* Under the name of its object a drawer shows what was loaded for that object,
\* but for late answers: the details, the events, the lists of a lazy tab, and
\* the object a nested drawer was opened from are another object's only when a
\* request for just that piece was under way as the load began, and has ended
\* since.  No former rendering, cached answer or stay of the drawer while it is
\* closed has a say; while the connection is down, a drawer that waits for it
\* keeps what it showed, whatever object it is moved to.
ShowsItsObject ==
  /\ target # None /\ (drawer.load.waits => online) => loaded = target
  /\ details # None => From(details, {"details"})
  /\ events # None => From(events, {"details", "events"})
  /\ list.of # None => From(list.of, {"list"})
  /\ more.of # None => From(more.of, {"list", "more"})
  /\ nested # None => From(nested, {"details"})

\* Whatever waits for an answer has a request of its own under way: the
\* spinner and a lazy tab one that the last load started, the YAML dialog one
\* that will find it there, the dialog of an action the action's.  Neither
\* dialog can be left while it waits, and a load does nothing about the
\* requests it overtakes.  (A streamed run's executor can throw: see below.)
WaitsHaveAnswers ==
  /\ loading =>
       \E r \in requests : r.step \in {"details", "events"} /\ r.at = moves
  /\ list.busy => \E r \in requests : r.step = "list" /\ r.at = moves
  /\ more.busy => \E r \in requests : r.step = "more" /\ r.at = moves
  /\ editor # None /\ editor.busy => \E p \in posts : p.shown
  /\ mutation.phase = "running" /\ ~mutation.streamed => mutation.sent

\* Once the connection is there to stay, an open drawer ends up with details
\* or an error instead of its spinner, and a lazy tab that stays selected with
\* the end of the requests for its lists, whatever failed, was reset or came
\* late.  (In the Namespace drawer a late answer for another object stands in
\* for the list for good: it is not asked for any more.)
Settles ==
  <>[]online =>
    /\ <>[](target # None => ~loading /\ (failed \/ details # None))
    /\ <>[](target # None /\ Label(tab) \in drawer.load.lazyTabs =>
              /\ ~list.busy
              /\ list.done \/ (drawer.load.caches /\ list.of # None)
              /\ drawer.load.chainsList => ~more.busy /\ more.done)

\* The dialog of an action that was executed shows a result in the end (it
\* cannot be left before), but for a streamed run, whose executor can throw:
\* "Never throws" is what types.ts says of a result.
ExecutionEnds ==
  mutation.phase = "running" /\ ~mutation.streamed
    ~> mutation.phase # "running"
=============================================================================
