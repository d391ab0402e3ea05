------------------------ MODULE ResourceDrawerProofs ------------------------
(***************************************************************************)
(* Theorems about ResourceDrawer, for every set of drawers and of objects  *)
(* and every value of the bounds.                                          *)
(*                                                                         *)
(* The first part gives every variable its type, for every drawer of the   *)
(* catalog.  The second is about what can be shown: the invariant follows  *)
(* every request from where it started to what its answer will replace,    *)
(* and says that no request a load left behind is sent a second time.  The *)
(* third is about edits, the last about waits: what waits has a request of *)
(* its own under way.                                                      *)
(***************************************************************************)
EXTENDS ResourceDrawer, TLAPS

-----------------------------------------------------------------------------
(* The catalog.                                                            *)

\* There is a first tab.
Tabbed(d) == Len(d.tabs) \in Nat \ {0}

LEMMA DrawerTabbed ==
  ASSUME NEW name, NEW load, NEW tabs, NEW links, Tabbed(tabs)
  PROVE  Tabbed(Drawer(name, load, tabs, links))
BY DEF Tabbed, Drawer

\* Tab by tab, through the catalog.
LEMMA CatalogTabs == \A d \in Drawers : Tabbed(d)
<1>1. Tabbed(ClusterRoleTabs)
  BY DEF Tabbed, ClusterRoleTabs
<1>2. Tabbed(ClusterRoleBindingTabs)
  BY DEF Tabbed, ClusterRoleBindingTabs
<1>3. Tabbed(ConfigMapTabs)
  BY DEF Tabbed, ConfigMapTabs
<1>4. Tabbed(CronJobTabs)
  BY DEF Tabbed, CronJobTabs
<1>5. Tabbed(CustomResourceTabs)
  BY DEF Tabbed, CustomResourceTabs
<1>6. Tabbed(CustomResourceDefinitionTabs)
  BY DEF Tabbed, CustomResourceDefinitionTabs
<1>7. Tabbed(DaemonSetTabs)
  BY DEF Tabbed, DaemonSetTabs
<1>8. Tabbed(DeploymentTabs)
  BY DEF Tabbed, DeploymentTabs
<1>9. Tabbed(HelmChartTabs)
  BY DEF Tabbed, HelmChartTabs
<1>10. Tabbed(HelmReleaseTabs)
  BY DEF Tabbed, HelmReleaseTabs
<1>11. Tabbed(HorizontalPodAutoscalerTabs)
  BY DEF Tabbed, HorizontalPodAutoscalerTabs
<1>12. Tabbed(IngressTabs)
  BY DEF Tabbed, IngressTabs
<1>13. Tabbed(JobTabs)
  BY DEF Tabbed, JobTabs
<1>14. Tabbed(NamespaceTabs)
  BY DEF Tabbed, NamespaceTabs
<1>15. Tabbed(NodeTabs)
  BY DEF Tabbed, NodeTabs
<1>16. Tabbed(PersistentVolumeTabs)
  BY DEF Tabbed, PersistentVolumeTabs
<1>17. Tabbed(PersistentVolumeClaimTabs)
  BY DEF Tabbed, PersistentVolumeClaimTabs
<1>18. Tabbed(PodTabs)
  BY DEF Tabbed, PodTabs
<1>19. Tabbed(ReplicaSetTabs)
  BY DEF Tabbed, ReplicaSetTabs
<1>20. Tabbed(RoleTabs)
  BY DEF Tabbed, RoleTabs
<1>21. Tabbed(RoleBindingTabs)
  BY DEF Tabbed, RoleBindingTabs
<1>22. Tabbed(SecretTabs)
  BY DEF Tabbed, SecretTabs
<1>23. Tabbed(ServiceTabs)
  BY DEF Tabbed, ServiceTabs
<1>24. Tabbed(ServiceAccountTabs)
  BY DEF Tabbed, ServiceAccountTabs
<1>25. Tabbed(StatefulSetTabs)
  BY DEF Tabbed, StatefulSetTabs
<1> QED
  BY DrawerTabbed,
     <1>1, <1>2, <1>3, <1>4, <1>5, <1>6, <1>7, <1>8, <1>9, <1>10, <1>11,
     <1>12, <1>13, <1>14, <1>15, <1>16, <1>17, <1>18, <1>19, <1>20, <1>21,
     <1>22, <1>23, <1>24, <1>25
     DEF Drawers

\* What the effects look at.
LEMMA CatalogLoads == \A d \in Drawers : d.load.caches \in BOOLEAN
<1>1. ASSUME NEW name, NEW load, NEW tabs, NEW links, load.caches \in BOOLEAN
      PROVE  Drawer(name, load, tabs, links).load.caches \in BOOLEAN
  BY <1>1 DEF Drawer
<1> DEFINE Basic(l) ==
             /\ {"chain", "waits", "tellsDenied", "caches", "lazyTabs",
                 "chainsList", "context"} \subseteq DOMAIN l
             /\ l.caches \in BOOLEAN
<1>2. Basic(DetailsThenEvents)
  BY DEF DetailsThenEvents
<1>3. Basic(DetailsOnly) /\ Basic(ResolveThenDetails) /\ Basic(NoRequests)
  BY DEF DetailsThenEvents, DetailsOnly, ResolveThenDetails, NoRequests
<1>4. ClusterRoleLoad.caches \in BOOLEAN
  BY <1>2 DEF ClusterRoleLoad
<1>5. ClusterRoleBindingLoad.caches \in BOOLEAN
  BY <1>2 DEF ClusterRoleBindingLoad
<1>6. DeploymentLoad.caches \in BOOLEAN
  BY <1>2 DEF DeploymentLoad
<1>7. HorizontalPodAutoscalerLoad.caches \in BOOLEAN
  BY <1>3 DEF HorizontalPodAutoscalerLoad
<1>8. JobLoad.caches \in BOOLEAN
  BY <1>2 DEF JobLoad
<1>9. NamespaceLoad.caches \in BOOLEAN
  BY <1>3 DEF NamespaceLoad
<1>10. NodeLoad.caches \in BOOLEAN
  BY <1>3 DEF NodeLoad
<1>11. PodLoad.caches \in BOOLEAN
  BY <1>3 DEF PodLoad
<1>12. RoleLoad.caches \in BOOLEAN
  BY <1>2 DEF RoleLoad
<1>13. RoleBindingLoad.caches \in BOOLEAN
  BY <1>2 DEF RoleBindingLoad
<1>14. ServiceLoad.caches \in BOOLEAN
  BY <1>2 DEF ServiceLoad
<1>15. ServiceAccountLoad.caches \in BOOLEAN
  BY <1>2 DEF ServiceAccountLoad
<1> QED
  BY <1>1, <1>2, <1>3, <1>4, <1>5, <1>6, <1>7, <1>8, <1>9, <1>10, <1>11,
     <1>12, <1>13, <1>14, <1>15
     DEF Drawers, StatefulSetLoad, ConfigMapLoad, CronJobLoad, CustomResourceLoad,
         CustomResourceDefinitionLoad, DaemonSetLoad, HelmChartLoad,
         HelmReleaseLoad, IngressLoad, PersistentVolumeLoad,
         PersistentVolumeClaimLoad, ReplicaSetLoad, SecretLoad

-----------------------------------------------------------------------------
(* Types.                                                                  *)

\* What loads, answers and the user make of the view.
ViewTypeOK ==
  /\ loading \in BOOLEAN /\ failed \in BOOLEAN
  /\ details \in Objects \union {None}
  /\ events \in Objects \union {None}
  /\ nested \in Objects \union {None}
  /\ tab \in 0..(Len(drawer.tabs) - 1)
  /\ list \in Lists /\ more \in Lists
  /\ cache \subseteq ({"details", "list"} \X Objects)
  /\ requests \subseteq Requests
  /\ moves \in 0..MaxMoves
  /\ loaded \in Objects \union {None}
  /\ left \subseteq Requests

WorldTypeOK ==
  /\ drawer \in Kinds
  /\ target \in Objects \union {None}
  /\ online \in BOOLEAN
  /\ failures \in 0..MaxFailures /\ outages \in 0..MaxOutages

\* An open drawer that does not wait was loaded: no list is asked for before.
Loaded == target # None /\ (drawer.load.waits => online) => moves # 0

TypeInv == ViewTypeOK /\ WorldTypeOK /\ Loaded

LEMMA DrawerTypes ==
  ASSUME WorldTypeOK
  PROVE  /\ drawer.load.caches \in BOOLEAN
         /\ Len(drawer.tabs) \in Nat \ {0}
BY CatalogLoads, CatalogTabs, DrawerAssumption DEF WorldTypeOK, Tabbed

\* What can become of a list.
LEMMA ListTypes ==
  ASSUME WorldTypeOK, NEW l \in Lists
  PROVE  /\ Fetching(l) \in Lists /\ Fetching(l).of = l.of
         /\ Listed(l) \in Lists /\ Listed(l).of = l.of
         /\ Listed(l).busy = FALSE
         /\ ~drawer.load.caches => Listed(l).done
         /\ [l EXCEPT !.busy = TRUE] \in Lists
         /\ [l EXCEPT !.busy = TRUE].of = l.of
         /\ [l EXCEPT !.busy = TRUE].busy
         /\ [l EXCEPT !.done = TRUE] \in Lists
         /\ [l EXCEPT !.done = TRUE].of = l.of
         /\ [l EXCEPT !.done = TRUE].busy = l.busy
         /\ [l EXCEPT !.done = TRUE].done
<1>1. drawer.load.caches \in BOOLEAN
  BY DrawerTypes
<1> QED
  BY <1>1 DEF Fetching, Listed, Lists

\* What the answer, or the failure, of its request makes of a list.
LEMMA EndTypes ==
  ASSUME NEW l \in Lists, NEW o \in Objects \union {None}, NEW b \in BOOLEAN
  PROVE  /\ [l EXCEPT !.of = o] \in Lists
         /\ [l EXCEPT !.of = o].of = o
         /\ [l EXCEPT !.of = o].busy = l.busy
         /\ [l EXCEPT !.of = o].done = l.done
         /\ [l EXCEPT !.bad = @ \/ b] \in Lists
         /\ [l EXCEPT !.bad = @ \/ b].of = l.of
         /\ [l EXCEPT !.bad = @ \/ b].busy = l.busy
         /\ [l EXCEPT !.busy = FALSE, !.done = TRUE, !.of = o] \in Lists
         /\ [l EXCEPT !.busy = FALSE, !.done = TRUE, !.of = o].of = o
         /\ [l EXCEPT !.busy = FALSE, !.done = TRUE, !.of = o].busy = FALSE
         /\ [l EXCEPT !.busy = FALSE, !.done = TRUE, !.of = o].done
BY DEF Lists

LEMMA ResetTypes ==
  ASSUME WorldTypeOK, NEW o \in Objects
  PROVE  /\ NoList \in Lists /\ NoList.of = None /\ ~NoList.busy
         /\ Reset(o) \in Lists /\ Reset(o).of \in {None, o}
         /\ ~Reset(o).busy
<1>1. Kept("list", o) \in BOOLEAN
  BY DrawerTypes DEF Kept
<1> QED
  BY <1>1 DEF Reset, NoList, Lists

LEMMA RequestTypes ==
  ASSUME NEW step \in {"details", "events", "list", "more"},
         NEW o \in Objects, NEW at \in 1..MaxMoves
  PROVE  Request(step, o, at) \in Requests
BY DEF Request, Requests

\* The effects of a lazy tab ask for a list, or for the one that follows it,
\* or for nothing.
LEMMA LazyCases ==
  ASSUME NEW t, NEW o, NEW on, NEW l, NEW m, NEW l0, NEW m0, NEW rs, NEW at,
         LazyEffects(t, o, on, l, m, l0, m0, rs, at)
  PROVE  \/ /\ list' = l0 /\ requests' = rs
            /\ more' = m0 \/ more' = [m0 EXCEPT !.done = TRUE]
         \/ /\ Lazy(t, o, on) /\ FetchesList(l)
            /\ list' = Fetching(l0) /\ more' = m0
            /\ requests' = rs \union {Request("list", o, at)}
         \/ /\ Lazy(t, o, on) /\ FetchesMore(l, m) /\ l.of # None
            /\ list' = l0 /\ more' = [m0 EXCEPT !.busy = TRUE]
            /\ requests' = rs \union {Request("more", l.of, at)}
<1> DEFINE lists == Lazy(t, o, on) /\ FetchesList(l)
<1>1. /\ list' = IF lists THEN Fetching(l0) ELSE l0
      /\ \/ /\ Lazy(t, o, on) /\ FetchesMore(l, m) /\ l.of # None
            /\ more' = [m0 EXCEPT !.busy = TRUE]
            /\ requests' = rs \union {Request("more", l.of, at)}
         \/ /\ more' = IF Lazy(t, o, on) /\ SkipsMore(l, m)
                       THEN [m0 EXCEPT !.done = TRUE] ELSE m0
            /\ requests' = rs \union
                 (IF lists THEN {Request("list", o, at)} ELSE {})
  BY DEF LazyEffects
<1>2. lists => ~Follows(l) /\ ~FetchesMore(l, m) /\ ~SkipsMore(l, m)
  BY DEF FetchesList, Follows, FetchesMore, SkipsMore
<1>3. lists => Lazy(t, o, on) /\ FetchesList(l)
  OBVIOUS
<1> HIDE DEF lists
<1> QED
  BY <1>1, <1>2, <1>3

LEMMA LazyTypes ==
  ASSUME WorldTypeOK, NEW t, NEW o \in Objects \union {None}, NEW on,
         NEW l \in Lists, NEW m, NEW l0 \in Lists, NEW m0 \in Lists,
         NEW rs \in SUBSET Requests, NEW at,
         Lazy(t, o, on) => at \in 1..MaxMoves,
         LazyEffects(t, o, on, l, m, l0, m0, rs, at)
  PROVE  /\ list' \in Lists /\ list'.of = l0.of
         /\ more' \in Lists /\ more'.of = m0.of
         /\ requests' \subseteq Requests
<1>1. /\ l.of \in Objects \union {None}
      /\ Lazy(t, o, on) => o \in Objects
  BY DEF Lists, Lazy
<1>2. Lazy(t, o, on) => Request("list", o, at) \in Requests
  BY <1>1, RequestTypes
<1>3. Lazy(t, o, on) /\ l.of # None => Request("more", l.of, at) \in Requests
  BY <1>1, RequestTypes
<1>4. CASE /\ list' = l0 /\ requests' = rs
           /\ more' = m0 \/ more' = [m0 EXCEPT !.done = TRUE]
  <2>1. [m0 EXCEPT !.done = TRUE] \in Lists
    BY ListTypes
  <2>2. [m0 EXCEPT !.done = TRUE].of = m0.of
    BY ListTypes
  <2> QED
    BY <1>4, <2>1, <2>2
<1>5. CASE /\ Lazy(t, o, on) /\ list' = Fetching(l0) /\ more' = m0
           /\ requests' = rs \union {Request("list", o, at)}
  BY <1>2, <1>5, ListTypes
<1>6. CASE /\ Lazy(t, o, on) /\ l.of # None
           /\ list' = l0 /\ more' = [m0 EXCEPT !.busy = TRUE]
           /\ requests' = rs \union {Request("more", l.of, at)}
  BY <1>3, <1>6, ListTypes
<1> QED
  BY <1>4, <1>5, <1>6, LazyCases

LEMMA LoadTypes ==
  ASSUME TypeInv, NEW o \in Objects, NEW on, NEW ps, Load(o, on, ps),
         drawer' = drawer
  PROVE  ViewTypeOK' /\ moves' # 0
<1> DEFINE rs == requests \union {Request("details", o, moves')}
<1>1. drawer.load.caches \in BOOLEAN /\ Len(drawer.tabs) \in Nat \ {0}
  BY DrawerTypes DEF TypeInv
<1>2. Kept("details", o) \in BOOLEAN
  BY <1>1 DEF Kept
<1>3. moves' \in 1..MaxMoves
  BY DrawerAssumption DEF TypeInv, ViewTypeOK, Load
<1>4. LazyEffects(tab, o, on, list, more, Reset(o), NoList, rs, moves')
  BY DEF Load
<1>5. rs \in SUBSET Requests
  BY <1>3, RequestTypes DEF TypeInv, ViewTypeOK
<1> HIDE DEF rs
<1>6. list' \in Lists /\ more' \in Lists /\ requests' \subseteq Requests
  BY <1>3, <1>4, <1>5, LazyTypes, ResetTypes DEF TypeInv, ViewTypeOK
<1>7. left' \subseteq Requests
  BY <1>6 DEF Load
<1>8. /\ loading' \in BOOLEAN /\ failed' \in BOOLEAN
      /\ details' \in Objects \union {None}
      /\ events' \in Objects \union {None}
      /\ nested' \in Objects \union {None}
      /\ loaded' \in Objects \union {None}
      /\ cache' = cache
  BY <1>2 DEF Load
<1>9. tab' \in 0..(Len(drawer'.tabs) - 1)
  BY <1>1 DEF Load
<1> QED
  BY <1>3, <1>6, <1>7, <1>8, <1>9 DEF TypeInv, ViewTypeOK

\* Nothing of the view changes.
LEMMA ViewStays ==
  ASSUME ViewTypeOK, UNCHANGED <<viewVars, loadVars>>, drawer' = drawer
  PROVE  ViewTypeOK'
BY DEF ViewTypeOK, viewVars, loadVars

LEMMA EffectsTypes ==
  ASSUME TypeInv, NEW o \in Objects \union {None}, NEW on, Effects(o, on),
         drawer' = drawer
  PROVE  /\ ViewTypeOK'
         /\ o # None /\ (drawer.load.waits => on) => moves' # 0
<1>1. CASE o = None \/ (drawer.load.waits /\ ~on)
  BY <1>1, ViewStays DEF Effects, TypeInv
<1>2. CASE ~(o = None \/ (drawer.load.waits /\ ~on))
  BY <1>2, LoadTypes DEF Effects
<1> QED
  BY <1>1, <1>2

\* The requests of a drawer that was loaded have a number.
LEMMA LazyNumber ==
  ASSUME TypeInv, NEW t, Lazy(t, target, online)
  PROVE  moves \in 1..MaxMoves
BY DrawerAssumption DEF Lazy, TypeInv, Loaded, ViewTypeOK

LEMMA ShowTabTypes ==
  ASSUME TypeInv, NEW t \in 0..(Len(drawer.tabs) - 1), ShowTab(t)
  PROVE  TypeInv'
<1>1. /\ tab' = t
      /\ LazyEffects(t, target, online, list, more, list, more, requests,
                     moves)
      /\ UNCHANGED <<loading, failed, details, events, nested, cache, moves,
                     loaded, left, worldVars, target>>
  BY DEF ShowTab
<1>2. list' \in Lists /\ more' \in Lists /\ requests' \subseteq Requests
  BY <1>1, LazyNumber, LazyTypes DEF TypeInv, ViewTypeOK, WorldTypeOK
<1> QED
  BY <1>1, <1>2 DEF TypeInv, ViewTypeOK, WorldTypeOK, Loaded, worldVars

LEMMA ListEndTypes ==
  ASSUME TypeInv, NEW l \in Lists, NEW r, ListEnds(l, r)
  PROVE  /\ list' \in Lists /\ list'.of = l.of
         /\ more' \in Lists /\ more'.of = more.of
         /\ requests' \subseteq Requests
<1>1. LazyEffects(tab, target, online, l, more, l, more, requests \ {r}, moves)
  BY DEF ListEnds
<1>2. requests \ {r} \in SUBSET Requests
  BY DEF TypeInv, ViewTypeOK
<1> QED
  BY <1>1, <1>2, LazyNumber, LazyTypes DEF TypeInv, ViewTypeOK, WorldTypeOK

LEMMA AnsweredTypes ==
  ASSUME TypeInv, NEW r \in Requests, Answered(r)
  PROVE  TypeInv'
<1>1. /\ r.of \in Objects /\ r.at \in 1..MaxMoves
      /\ UNCHANGED <<tab, nested, moves, loaded, left, worldVars, target>>
  BY DEF Requests, Answered
<1>2. /\ <<"details", r.of>> \in {"details", "list"} \X Objects
      /\ <<"list", r.of>> \in {"details", "list"} \X Objects
  BY <1>1
<1>3. WorldTypeOK' /\ Loaded'
  BY <1>1 DEF TypeInv, WorldTypeOK, Loaded, worldVars
<1>4. ViewTypeOK'
  <2>1. CASE DetailsAnswered(r)
    <3>1. Request("events", r.of, r.at) \in Requests
      BY <1>1, RequestTypes
    <3>2. requests' \subseteq Requests
      BY <2>1, <3>1 DEF DetailsAnswered, TypeInv, ViewTypeOK
    <3>3. cache' \subseteq ({"details", "list"} \X Objects)
      BY <1>2, <2>1 DEF DetailsAnswered, TypeInv, ViewTypeOK
    <3> QED
      BY <1>1, <2>1, <3>2, <3>3
         DEF DetailsAnswered, TypeInv, ViewTypeOK, worldVars
  <2>2. CASE EventsAnswered(r)
    BY <1>1, <2>2 DEF EventsAnswered, TypeInv, ViewTypeOK, worldVars
  <2>3. CASE ListAnswered(r)
    <3> DEFINE l == [Listed(list) EXCEPT !.of = r.of]
    <3>1. l \in Lists
      BY <1>1, ListTypes, EndTypes DEF TypeInv, ViewTypeOK
    <3>2. ListEnds(l, r)
      BY <2>3 DEF ListAnswered
    <3> HIDE DEF l
    <3>3. list' \in Lists /\ more' \in Lists /\ requests' \subseteq Requests
      BY <3>1, <3>2, ListEndTypes
    <3>4. cache' \subseteq ({"details", "list"} \X Objects)
      BY <1>2, <2>3 DEF ListAnswered, TypeInv, ViewTypeOK
    <3> QED
      BY <1>1, <2>3, <3>3, <3>4
         DEF ListAnswered, TypeInv, ViewTypeOK, worldVars
  <2>4. CASE MoreAnswered(r)
    <3>1. more' \in Lists /\ requests' \subseteq requests
      BY <1>1, <2>4, EndTypes DEF MoreAnswered, MoreEnds, TypeInv, ViewTypeOK
    <3> QED
      BY <1>1, <2>4, <3>1
         DEF MoreAnswered, MoreEnds, TypeInv, ViewTypeOK, worldVars
  <2> QED
    BY <2>1, <2>2, <2>3, <2>4 DEF Answered
<1> QED
  BY <1>3, <1>4 DEF TypeInv

LEMMA FailedTypes ==
  ASSUME TypeInv, NEW r \in Requests, Failed(r)
  PROVE  TypeInv'
<1>1. /\ failures' \in 0..MaxFailures
      /\ UNCHANGED <<details, events, tab, nested, cache, moves, loaded, left,
                     drawer, online, outages, target>>
  BY DrawerAssumption DEF Failed, TypeInv, WorldTypeOK
<1>2. Kept("details", r.of) \in BOOLEAN /\ Kept("list", r.of) \in BOOLEAN
  BY DrawerTypes DEF Kept, TypeInv
<1>3. /\ loading' \in BOOLEAN /\ failed' \in BOOLEAN
      /\ list' \in Lists /\ more' \in Lists /\ requests' \subseteq Requests
  <2>1. CASE LoadFailed(r)
    BY <1>2, <2>1 DEF LoadFailed, TypeInv, ViewTypeOK
  <2>2. CASE ListFailed(r)
    <3> DEFINE l == [Listed(list) EXCEPT !.bad = @ \/ ~Kept("list", r.of)]
    <3>1. l \in Lists
      BY <1>2, ListTypes, EndTypes DEF TypeInv, ViewTypeOK
    <3>2. ListEnds(l, r)
      BY <2>2 DEF ListFailed
    <3> HIDE DEF l
    <3> QED
      BY <2>2, <3>1, <3>2, ListEndTypes DEF ListFailed, TypeInv, ViewTypeOK
  <2>3. CASE MoreFailed(r)
    BY <2>3, EndTypes DEF MoreFailed, MoreEnds, TypeInv, ViewTypeOK
  <2> QED
    BY <2>1, <2>2, <2>3 DEF Failed
<1> QED
  BY <1>1, <1>3 DEF TypeInv, ViewTypeOK, WorldTypeOK, Loaded

LEMMA StayingTypes ==
  ASSUME TypeInv, StaysInDialog
  PROVE  TypeInv'
BY ViewStays
   DEF TypeInv, StaysInDialog, WorldTypeOK, Loaded, loadVars, worldVars

LEMMA TypeStep ==
  ASSUME TypeInv, [RDNext]_drawerVars
  PROVE  TypeInv'
<1>1. ASSUME NEW o \in Objects \union {None}, Retarget(o)
      PROVE  TypeInv'
  <2>1. target' = o /\ UNCHANGED worldVars
    BY <1>1 DEF Retarget
  <2>2. CASE o = None
    BY <1>1, <2>1, <2>2, ViewStays
       DEF Retarget, TypeInv, WorldTypeOK, Loaded, worldVars
  <2>3. CASE o # None
    BY <1>1, <2>1, <2>3, EffectsTypes
       DEF Retarget, TypeInv, WorldTypeOK, Loaded, worldVars
  <2> QED
    BY <2>2, <2>3
<1>2. CASE /\ Effects(target, online)
           /\ UNCHANGED <<target, worldVars>>
  BY <1>2, EffectsTypes DEF TypeInv, WorldTypeOK, Loaded, worldVars
<1>3. CASE HealthChanges
  <2>1. /\ online' \in BOOLEAN /\ outages' \in 0..MaxOutages
        /\ UNCHANGED <<target, drawer, failures>>
    BY <1>3, DrawerAssumption DEF HealthChanges, TypeInv, WorldTypeOK
  <2>2. CASE drawer.load.waits
    BY <1>3, <2>1, <2>2, EffectsTypes
       DEF HealthChanges, TypeInv, WorldTypeOK, Loaded
  <2>3. CASE ~drawer.load.waits
    BY <1>3, <2>1, <2>3, ViewStays
       DEF HealthChanges, TypeInv, WorldTypeOK, Loaded, loadVars
  <2> QED
    BY <2>2, <2>3
<1>4. CASE SelectTab
  BY <1>4, ShowTabTypes DEF SelectTab
<1>5. CASE Follow \/ CloseNested
  BY <1>5
     DEF Follow, CloseNested, TypeInv, ViewTypeOK, WorldTypeOK, Loaded,
         loadVars, worldVars
<1>6. ASSUME NEW p \in Posts, EditApplied(p)
      PROVE  TypeInv'
  <2>1. CASE StaysInDialog
    BY <2>1, StayingTypes
  <2>2. CASE /\ target # None /\ Load(target, online, posts \ {p})
             /\ UNCHANGED <<target, worldVars>>
    BY <2>2, LoadTypes DEF TypeInv, WorldTypeOK, Loaded, worldVars
  <2> QED
    BY <1>6, <2>1, <2>2 DEF EditApplied
<1>7. CASE StaysInDialog
  BY <1>7, StayingTypes
<1>8. CASE target' = None /\ UNCHANGED <<viewVars, loadVars, worldVars>>
  BY <1>8, ViewStays DEF TypeInv, WorldTypeOK, Loaded, worldVars
<1>9. CASE UNCHANGED drawerVars
  BY <1>9, StayingTypes DEF drawerVars, StaysInDialog
<1> QED
  BY <1>1, <1>2, <1>3, <1>4, <1>5, <1>6, <1>7, <1>8, <1>9,
     AnsweredTypes, FailedTypes
     DEF RDNext, DrawerStep, Reread, EditStep, MutationStep, MutationAnswered,
         MutationSucceeds

LEMMA TypesHold == RDSpec => []TypeInv
<1>1. RDInit => TypeInv
  <2> SUFFICES ASSUME RDInit PROVE TypeInv
    OBVIOUS
  <2>1. WorldTypeOK /\ Loaded
    BY DrawerAssumption DEF RDInit, WorldTypeOK, Loaded
  <2>2. tab \in 0..(Len(drawer.tabs) - 1)
    BY <2>1, DrawerTypes DEF RDInit
  <2>3. NoList \in Lists
    BY DEF NoList, Lists
  <2>4. 0 \in 0..MaxMoves
    BY DrawerAssumption
  <2> QED
    BY <2>1, <2>2, <2>3, <2>4 DEF RDInit, TypeInv, ViewTypeOK
<1> QED
  BY <1>1, TypeStep, PTL DEF RDSpec

-----------------------------------------------------------------------------
(* What is shown.                                                          *)

\* What the answers of a request of this step, and of those that follow it,
\* can replace comes from these.
Sources(step) ==
  IF step = "events" THEN {"details", "events"}
  ELSE IF step = "more" THEN {"list", "more"} ELSE {step}

\* A drawer that is open and does not wait has loaded its object.
TargetLoaded ==
  target # None /\ (drawer.load.waits => online) => loaded = target

\* A request is for the object of the last load, was left behind by it, or
\* follows one that was.
Backed ==
  \A r \in requests : r \in left \/ From(r.of, Sources(r.step))

\* No request that was left behind can be sent a second time.
Fresh ==
  /\ \A r \in left : r.of # loaded
  /\ \A r \in requests \union left : r.at <= moves
  /\ \A r \in requests :
       r.step = "details" =>
         Request("events", r.of, r.at) \notin requests \union left
  /\ ~more.busy /\ ~more.done =>
       \A r \in requests \union left : r.step = "more" => r.at # moves

Shown ==
  /\ details # None => From(details, {"details"})
  /\ events # None => From(events, {"details", "events"})
  /\ list.of # None => From(list.of, {"list"})
  /\ more.of # None => From(more.of, {"list", "more"})
  /\ nested # None => From(nested, {"details"})

ShownInv == TargetLoaded /\ Backed /\ Fresh /\ Shown

\* No request that was left behind is sent again.
NoneReturns == \A r \in left : r \in requests' => r \in requests

LEMMA FromStays ==
  ASSUME UNCHANGED <<loaded, left>>, NoneReturns, NEW o, NEW S, From(o, S)
  PROVE  From(o, S)'
BY DEF From, NoneReturns

LEMMA RequestFields ==
  ASSUME NEW step, NEW o, NEW at
  PROVE  LET r == Request(step, o, at)
         IN  r.step = step /\ r.of = o /\ r.at = at
BY DEF Request

LEMMA RequestIs ==
  ASSUME NEW r \in Requests
  PROVE  r = Request(r.step, r.of, r.at)
BY DEF Request, Requests

LEMMA StepsDiffer ==
  ASSUME NEW a, NEW b, a # b, NEW o, NEW q, NEW m, NEW n
  PROVE  Request(a, o, m) # Request(b, q, n)
<1>1. Request(a, o, m).step = a /\ Request(b, q, n).step = b
  BY RequestFields
<1> QED
  BY <1>1

\* A load shows nothing of another object, and leaves behind what it finds.
LEMMA LoadShows ==
  ASSUME TypeInv, Fresh, NEW o \in Objects, NEW on, NEW ps, Load(o, on, ps)
  PROVE  loaded' = o /\ Backed' /\ Fresh' /\ Shown'
<1> DEFINE rs == requests \union {Request("details", o, moves')}
<1>1. /\ moves' = moves + 1 /\ moves \in Nat
      /\ loaded' = o
      /\ left' = {r \in requests' : r.of # o}
      /\ LazyEffects(tab, o, on, list, more, Reset(o), NoList, rs, moves')
      /\ details' \in {None, o} /\ events' = None /\ nested' = None
  BY DrawerAssumption DEF Load, TypeInv, ViewTypeOK
<1>2. \A r \in requests : r.at \in Nat /\ r.at <= moves /\ r.at # moves'
  BY <1>1, DrawerAssumption DEF Fresh, TypeInv, ViewTypeOK, Requests
<1>3. /\ list' \in Lists /\ list'.of \in {None, o}
      /\ more' \in Lists /\ more'.of = None
  <2>1. moves' \in 1..MaxMoves
    BY DrawerAssumption DEF TypeInv, ViewTypeOK, Load
  <2>2. rs \in SUBSET Requests
    BY <2>1, RequestTypes DEF TypeInv, ViewTypeOK
  <2>3. /\ Reset(o) \in Lists /\ Reset(o).of \in {None, o}
        /\ NoList \in Lists /\ NoList.of = None
        /\ WorldTypeOK /\ list \in Lists
    BY ResetTypes DEF TypeInv, ViewTypeOK
  <2> HIDE DEF rs
  <2>4. /\ list' \in Lists /\ list'.of = Reset(o).of
        /\ more' \in Lists /\ more'.of = NoList.of
    BY <1>1, <2>1, <2>2, <2>3, LazyTypes
  <2> QED
    BY <2>3, <2>4
<1>4. PICK N : /\ requests' = rs \union N
               /\ \/ N = {}
                  \/ \E q : N = {Request("list", q, moves')}
                  \/ more'.busy /\ \E q : N = {Request("more", q, moves')}
  <2>1. [NoList EXCEPT !.busy = TRUE].busy
    BY DEF NoList
  <2> HIDE DEF rs
  <2>2. CASE requests' = rs
    BY <2>2
  <2>3. CASE requests' = rs \union {Request("list", o, moves')}
    BY <2>3
  <2>4. CASE /\ more' = [NoList EXCEPT !.busy = TRUE]
             /\ requests' = rs \union {Request("more", list.of, moves')}
    BY <2>1, <2>4
  <2>5. \/ requests' = rs
        \/ requests' = rs \union {Request("list", o, moves')}
        \/ /\ more' = [NoList EXCEPT !.busy = TRUE]
           /\ requests' = rs \union {Request("more", list.of, moves')}
    BY <1>1, LazyCases
  <2> QED
    BY <2>2, <2>3, <2>4, <2>5
<1>5. \A r \in N : /\ r.at = moves' /\ r.step \in {"list", "more"}
                   /\ r.step = "more" => more'.busy
  BY <1>4, RequestFields
<1>6. Shown'
  BY <1>1, <1>3 DEF Shown, From
<1>7. Backed'
  BY <1>1 DEF Backed, From
<1>8. Fresh'
  <2>1. \A r \in left' : r.of # loaded'
    BY <1>1
  <2>2. \A r \in requests' \union left' : r.at <= moves'
    BY <1>1, <1>2, <1>4, <1>5, RequestFields
  <2>3. ASSUME NEW r \in requests', r.step = "details"
        PROVE  Request("events", r.of, r.at) \notin requests' \union left'
    <3> DEFINE e == Request("events", r.of, r.at)
    <3>1. e.step = "events" /\ e.at = r.at
      BY RequestFields
    <3>2. r \in requests \/ r.at = moves'
      BY <1>4, <1>5, RequestFields
    <3>3. r \in requests => e \notin requests
      BY <2>3 DEF Fresh
    <3>4. r.at = moves' => e \notin requests
      BY <1>2, <3>1
    <3>5. e \notin N /\ e # Request("details", o, moves')
      BY <1>5, <3>1, RequestFields
    <3> HIDE DEF e
    <3>6. e \notin requests'
      BY <1>4, <3>2, <3>3, <3>4, <3>5
    <3> QED
      BY <1>1, <3>6 DEF e
  <2>4. ASSUME ~more'.busy, NEW r \in requests', r.step = "more"
        PROVE  r.at # moves'
    <3>1. r \in requests
      BY <1>4, <1>5, <2>4, RequestFields
    <3> QED
      BY <1>2, <3>1
  <2> QED
    BY <1>1, <2>1, <2>2, <2>3, <2>4 DEF Fresh
<1> QED
  BY <1>1, <1>6, <1>7, <1>8

\* Nothing of what is shown and asked for changes.
LEMMA StandsStill ==
  ASSUME ShownInv, UNCHANGED <<viewVars, loadVars>>
  PROVE  Backed' /\ Fresh' /\ Shown'
BY DEF ShownInv, Backed, Fresh, Shown, From, viewVars, loadVars

LEMMA EffectsShow ==
  ASSUME TypeInv, ShownInv, NEW o \in Objects \union {None}, NEW on,
         Effects(o, on), target' = o, drawer' = drawer, online' = on
  PROVE  ShownInv'
<1>1. CASE o = None \/ (drawer.load.waits /\ ~on)
  <2>1. UNCHANGED <<viewVars, loadVars>>
    BY <1>1 DEF Effects
  <2> QED
    BY <1>1, <2>1, StandsStill DEF ShownInv, TargetLoaded
<1>2. CASE ~(o = None \/ (drawer.load.waits /\ ~on))
  <2>1. loaded' = o /\ Backed' /\ Fresh' /\ Shown'
    BY <1>2, LoadShows DEF Effects, ShownInv
  <2> QED
    BY <2>1 DEF ShownInv, TargetLoaded
<1> QED
  BY <1>1, <1>2

\* The effects of a lazy tab ask for the list of the object that was loaded,
\* or for the one that follows list l, and never again for what was left.
LEMMA LazyShows ==
  ASSUME TypeInv, ShownInv,
         UNCHANGED <<moves, loaded, left, target, drawer, online>>,
         NEW t, NEW l \in Lists, NEW rs \in SUBSET requests,
         LazyEffects(t, target, online, l, more, l, more, rs, moves),
         NoneReturns /\ l.of # None => From(l.of, {"list"})'
  PROVE  NoneReturns /\ Backed' /\ Fresh'
<1>1. moves \in Nat /\ more \in Lists /\ WorldTypeOK
  BY DrawerAssumption DEF TypeInv, ViewTypeOK
<1>2. \A r \in requests : r \in Requests /\ r.at <= moves
  BY DEF TypeInv, ViewTypeOK, ShownInv, Fresh
<1>3. CASE /\ requests' = rs
           /\ more' = more \/ more' = [more EXCEPT !.done = TRUE]
  <2>1. NoneReturns
    BY <1>3 DEF NoneReturns
  <2>2. Backed'
    BY <1>3, <2>1, FromStays DEF ShownInv, Backed
  <2>3. ~more'.busy /\ ~more'.done => more' = more
    <3>1. [more EXCEPT !.done = TRUE].done
      BY <1>1, ListTypes
    <3> QED
      BY <1>3, <3>1
  <2>4. Fresh'
    BY <1>3, <2>3 DEF ShownInv, Fresh
  <2> QED
    BY <2>1, <2>2, <2>4
<1>4. CASE /\ Lazy(t, target, online) /\ more' = more
           /\ requests' = rs \union {Request("list", target, moves)}
  <2>0. PICK n : n = Request("list", target, moves)
    OBVIOUS
  <2>1. n.step = "list" /\ n.of = target /\ n.at = moves
    BY <2>0, RequestFields
  <2>2. loaded = target
    BY <1>4 DEF Lazy, ShownInv, TargetLoaded
  <2>3. n \notin left
    BY <2>1, <2>2 DEF ShownInv, Fresh
  <2>4. \A o, a : n # Request("events", o, a)
    BY <2>1, RequestFields
  <2>5. requests' = rs \union {n}
    BY <1>4, <2>0
  <2>6. NoneReturns
    BY <2>3, <2>5 DEF NoneReturns
  <2>7. Backed'
    <3>1. From(n.of, Sources(n.step))'
      BY <2>1, <2>2 DEF From
    <3>2. \A r \in rs : r \in left' \/ From(r.of, Sources(r.step))'
      BY <2>6, FromStays DEF ShownInv, Backed
    <3> QED
      BY <2>5, <3>1, <3>2 DEF Backed
  <2>8. Fresh'
    BY <1>1, <1>4, <2>1, <2>4, <2>5 DEF ShownInv, Fresh
  <2> QED
    BY <2>6, <2>7, <2>8
<1>5. CASE /\ FetchesMore(l, more) /\ l.of # None
           /\ more' = [more EXCEPT !.busy = TRUE]
           /\ requests' = rs \union {Request("more", l.of, moves)}
  <2>0. PICK n : n = Request("more", l.of, moves)
    OBVIOUS
  <2>1. n.step = "more" /\ n.of = l.of /\ n.at = moves
    BY <2>0, RequestFields
  <2>2. n \notin left /\ n \notin requests
    BY <1>5, <2>1 DEF FetchesMore, ShownInv, Fresh
  <2>3. \A o, a : n # Request("events", o, a)
    BY <2>1, RequestFields
  <2>4. requests' = rs \union {n}
    BY <1>5, <2>0
  <2>5. more'.busy
    BY <1>1, <1>5, ListTypes
  <2>6. NoneReturns
    BY <2>2, <2>4 DEF NoneReturns
  <2>7. Backed'
    <3>1. From(n.of, {"list"})'
      BY <1>5, <2>1, <2>6
    <3>2. From(n.of, Sources(n.step))'
      BY <2>1, <3>1 DEF From, Sources
    <3>3. \A r \in rs : r \in left' \/ From(r.of, Sources(r.step))'
      BY <2>6, FromStays DEF ShownInv, Backed
    <3> QED
      BY <2>4, <3>2, <3>3 DEF Backed
  <2>8. Fresh'
    BY <1>1, <2>1, <2>3, <2>4, <2>5 DEF ShownInv, Fresh
  <2> QED
    BY <2>6, <2>7, <2>8
<1> QED
  BY <1>3, <1>4, <1>5, LazyCases

\* What is shown is unchanged, or comes from an answer.
LEMMA ShownFrom ==
  ASSUME ShownInv, NoneReturns,
         UNCHANGED <<loaded, left, target, drawer, online>>,
         Backed', Fresh',
         details' \in {details, None} \/ From(details, {"details"})',
         events' \in {events, None} \/ From(events, {"details", "events"})',
         list'.of \in {list.of, None} \/ From(list.of, {"list"})',
         more'.of \in {more.of, None} \/ From(more.of, {"list", "more"})',
         nested' \in {nested, details, None}
  PROVE  ShownInv'
<1>1. details' # None => From(details, {"details"})'
  BY DEF From, NoneReturns, ShownInv, Shown
<1>2. events' # None => From(events, {"details", "events"})'
  BY DEF From, NoneReturns, ShownInv, Shown
<1>3. list'.of # None => From(list.of, {"list"})'
  BY DEF From, NoneReturns, ShownInv, Shown
<1>4. more'.of # None => From(more.of, {"list", "more"})'
  BY DEF From, NoneReturns, ShownInv, Shown
<1>5. nested' # None => From(nested, {"details"})'
  BY DEF From, NoneReturns, ShownInv, Shown
<1>6. Shown'
  BY <1>1, <1>2, <1>3, <1>4, <1>5 DEF Shown
<1> QED
  BY <1>6 DEF ShownInv, TargetLoaded

LEMMA ShowTabShows ==
  ASSUME TypeInv, ShownInv, NEW t, ShowTab(t)
  PROVE  ShownInv'
<1>1. /\ LazyEffects(t, target, online, list, more, list, more, requests,
                     moves)
      /\ UNCHANGED <<details, events, nested, moves, loaded, left, target,
                     drawer, online>>
  BY DEF ShowTab, worldVars
<1>2. PICK l : l = list
  OBVIOUS
<1>3. NoneReturns /\ l.of # None => From(l.of, {"list"})'
  BY <1>1, <1>2, FromStays DEF ShownInv, Shown
<1>4. l \in Lists /\ requests \in SUBSET requests
  BY <1>2 DEF TypeInv, ViewTypeOK
<1>5. LazyEffects(t, target, online, l, more, l, more, requests, moves)
  BY <1>1, <1>2
<1>6. NoneReturns /\ Backed' /\ Fresh'
  BY <1>1, <1>3, <1>4, <1>5, LazyShows
<1>7. list'.of = list.of /\ more'.of = more.of
  <2>1. /\ WorldTypeOK /\ target \in Objects \union {None}
        /\ list \in Lists /\ more \in Lists /\ requests \in SUBSET Requests
    BY DEF TypeInv, ViewTypeOK, WorldTypeOK
  <2> QED
    BY <1>1, <2>1, LazyNumber, LazyTypes
<1> QED
  BY <1>1, <1>6, <1>7, ShownFrom

\* A request that ends without another one takes its place.
LEMMA EndsAlone ==
  ASSUME ShownInv, NEW r \in requests, requests' = requests \ {r},
         UNCHANGED <<moves, loaded, left>>,
         ~more'.busy /\ ~more'.done => ~more.busy /\ ~more.done
  PROVE  NoneReturns /\ Backed' /\ Fresh' /\ From(r.of, Sources(r.step))'
<1>1. NoneReturns
  BY DEF NoneReturns
<1>2. Backed'
  BY <1>1, FromStays DEF ShownInv, Backed
<1>3. Fresh'
  BY DEF ShownInv, Fresh
<1>4. r.step \in Sources(r.step)
  BY DEF Sources
<1>5. From(r.of, Sources(r.step))'
  <2>1. CASE r \in left
    BY <2>1, <1>4 DEF From
  <2>2. CASE From(r.of, Sources(r.step))
    BY <1>1, <2>2, FromStays
  <2> QED
    BY <2>1, <2>2 DEF ShownInv, Backed
<1> QED
  BY <1>1, <1>2, <1>3, <1>5

\* The details of a load are followed by its events.
LEMMA EventsFollow ==
  ASSUME TypeInv, ShownInv, NEW r \in requests, r.step = "details",
         requests' = (requests \ {r}) \union {Request("events", r.of, r.at)},
         UNCHANGED <<moves, loaded, left, more>>
  PROVE  NoneReturns /\ Backed' /\ Fresh' /\ From(r.of, {"details"})'
<1>1. PICK e : e = Request("events", r.of, r.at)
  OBVIOUS
<1>2. e.step = "events" /\ e.of = r.of /\ e.at = r.at
  BY <1>1, RequestFields
<1>3. requests' = (requests \ {r}) \union {e} /\ e \notin left
  BY <1>1 DEF ShownInv, Fresh
<1>4. NoneReturns
  BY <1>3 DEF NoneReturns
<1>5. From(r.of, {"details"})'
  <2>1. CASE r \in left
    BY <1>2, <1>3, <2>1 DEF From
  <2>2. CASE From(r.of, {"details"})
    BY <1>4, <2>2, FromStays
  <2> QED
    BY <2>1, <2>2 DEF ShownInv, Backed, Sources
<1>6. From(e.of, Sources(e.step))'
  BY <1>2, <1>5 DEF From, Sources
<1>7. Backed'
  <2>1. \A q \in requests : q \in left' \/ From(q.of, Sources(q.step))'
    BY <1>4, FromStays DEF ShownInv, Backed
  <2> QED
    BY <1>3, <1>6, <2>1 DEF Backed
<1>8. Fresh'
  <2>1. \A q \in requests' \union left' : q.at <= moves'
    BY <1>2, <1>3 DEF ShownInv, Fresh
  <2>2. ASSUME NEW q \in requests', q.step = "details"
        PROVE  Request("events", q.of, q.at) \notin requests' \union left'
    <3>1. q \in requests /\ q # r
      BY <1>2, <1>3, <2>2
    <3>2. q = Request("details", q.of, q.at) /\ r = Request("details", r.of, r.at)
      BY <2>2, <3>1, RequestIs DEF TypeInv, ViewTypeOK
    <3>3. q.of # r.of \/ q.at # r.at
      BY <3>1, <3>2
    <3>4. Request("events", q.of, q.at) # e
      BY <1>1, <3>3, RequestFields
    <3> QED
      BY <1>3, <2>2, <3>1, <3>4 DEF ShownInv, Fresh
  <2>3. ~more'.busy /\ ~more'.done =>
          \A q \in requests' \union left' : q.step = "more" => q.at # moves'
    BY <1>2, <1>3 DEF ShownInv, Fresh
  <2> QED
    BY <2>1, <2>2, <2>3 DEF ShownInv, Fresh
<1> QED
  BY <1>4, <1>5, <1>7, <1>8

LEMMA AnsweredShows ==
  ASSUME TypeInv, ShownInv, NEW r, Answered(r)
  PROVE  ShownInv'
<1>1. /\ r \in requests /\ r \in Requests
      /\ UNCHANGED <<nested, moves, loaded, left, target, drawer, online>>
  BY DEF Answered, worldVars, TypeInv, ViewTypeOK
<1>2. CASE DetailsAnswered(r)
  <2>1. /\ r.step = "details" /\ details' = r.of
        /\ UNCHANGED <<events, list, more>>
        /\ \/ requests' = requests \ {r}
           \/ requests' = (requests \ {r})
                            \union {Request("events", r.of, r.at)}
    BY <1>2 DEF DetailsAnswered
  <2>2. NoneReturns /\ Backed' /\ Fresh' /\ From(r.of, {"details"})'
    BY <1>1, <2>1, EndsAlone, EventsFollow DEF Sources
  <2>3. From(details, {"details"})'
    BY <2>1, <2>2 DEF From
  <2> QED
    BY <1>1, <2>1, <2>2, <2>3, ShownFrom
<1>3. CASE EventsAnswered(r)
  <2>1. /\ r.step = "events" /\ events' = r.of
        /\ requests' = requests \ {r}
        /\ UNCHANGED <<details, list, more>>
    BY <1>3 DEF EventsAnswered
  <2>2. /\ NoneReturns /\ Backed' /\ Fresh'
        /\ From(r.of, {"details", "events"})'
    BY <1>1, <2>1, EndsAlone DEF Sources
  <2>3. From(events, {"details", "events"})'
    BY <2>1, <2>2 DEF From
  <2> QED
    BY <1>1, <2>1, <2>2, <2>3, ShownFrom
<1>4. CASE ListAnswered(r)
  <2>1. PICK l : l = [Listed(list) EXCEPT !.of = r.of]
    OBVIOUS
  <2>2. /\ r.step = "list" /\ ListEnds(l, r)
        /\ UNCHANGED <<details, events>>
    BY <1>4, <2>1 DEF ListAnswered
  <2>3. /\ l \in Lists /\ l.of = r.of /\ r.of \in Objects
        /\ ~drawer.load.caches => l.done
    <3>1. r.of \in Objects
      BY <1>1 DEF Requests
    <3>2. /\ Listed(list) \in Lists
          /\ ~drawer.load.caches => Listed(list).done
      BY ListTypes DEF TypeInv, ViewTypeOK
    <3>3. /\ l \in Lists /\ l.of = r.of
          /\ l.done = Listed(list).done
      BY <2>1, <3>1, <3>2 DEF Lists
    <3> QED
      BY <3>1, <3>2, <3>3
  <2>4. LazyEffects(tab, target, online, l, more, l, more, requests \ {r},
                    moves)
    BY <2>2 DEF ListEnds
  <2>5. ~FetchesList(l)
    BY <2>3, NoneAssumption DEF FetchesList
  <2>6. r \notin requests'
    <3>1. \/ requests' = requests \ {r}
          \/ requests' = (requests \ {r}) \union {Request("more", l.of, moves)}
      BY <2>4, <2>5, LazyCases
    <3>2. Request("more", l.of, moves) # r
      BY <2>2, RequestFields
    <3> QED
      BY <3>1, <3>2
  <2>7. NoneReturns => From(l.of, {"list"})'
    <3>1. CASE r \in left
      BY <1>1, <2>2, <2>3, <2>6, <3>1 DEF From
    <3>2. CASE From(r.of, {"list"})
      BY <1>1, <2>3, <3>2, FromStays
    <3> QED
      BY <1>1, <2>2, <3>1, <3>2 DEF ShownInv, Backed, Sources
  <2>8. NoneReturns /\ Backed' /\ Fresh'
    BY <1>1, <2>3, <2>4, <2>7, LazyShows
  <2>9. list'.of = l.of /\ more'.of = more.of
    BY <2>2, <2>3, ListEndTypes
  <2>10. From(list.of, {"list"})'
    BY <2>7, <2>8, <2>9 DEF From
  <2> QED
    BY <1>1, <2>2, <2>8, <2>9, <2>10, ShownFrom
<1>5. CASE MoreAnswered(r)
  <2>1. /\ r.step = "more" /\ requests' = requests \ {r}
        /\ more' = [more EXCEPT !.busy = FALSE, !.done = TRUE, !.of = r.of]
        /\ UNCHANGED <<details, events, list>>
    BY <1>5 DEF MoreAnswered, MoreEnds
  <2>2. more'.of = r.of /\ more'.done
    BY <1>1, <2>1, EndTypes DEF TypeInv, ViewTypeOK, Requests
  <2>3. /\ NoneReturns /\ Backed' /\ Fresh'
        /\ From(r.of, {"list", "more"})'
    BY <1>1, <2>1, <2>2, EndsAlone DEF Sources
  <2>4. From(more.of, {"list", "more"})'
    BY <2>2, <2>3 DEF From
  <2> QED
    BY <1>1, <2>1, <2>3, <2>4, ShownFrom
<1> QED
  BY <1>2, <1>3, <1>4, <1>5 DEF Answered

LEMMA FailedShows ==
  ASSUME TypeInv, ShownInv, NEW r, Failed(r)
  PROVE  ShownInv'
<1>1. /\ r \in requests /\ r \in Requests
      /\ UNCHANGED <<details, events, nested, moves, loaded, left, target,
                     drawer, online>>
  BY DEF Failed, TypeInv, ViewTypeOK
<1>2. CASE LoadFailed(r)
  <2>1. requests' = requests \ {r} /\ UNCHANGED <<list, more>>
    BY <1>2 DEF LoadFailed
  <2>2. NoneReturns /\ Backed' /\ Fresh'
    BY <1>1, <2>1, EndsAlone
  <2> QED
    BY <1>1, <2>1, <2>2, ShownFrom
<1>3. CASE ListFailed(r)
  <2>1. PICK l : l = [Listed(list) EXCEPT !.bad = @ \/ ~Kept("list", r.of)]
    OBVIOUS
  <2>2. ListEnds(l, r)
    BY <1>3, <2>1 DEF ListFailed
  <2>3. l \in Lists /\ l.of = list.of
    <3>1. Kept("list", r.of) \in BOOLEAN
      BY DrawerTypes DEF Kept, TypeInv
    <3>2. Listed(list) \in Lists /\ Listed(list).of = list.of
      BY ListTypes DEF TypeInv, ViewTypeOK
    <3> QED
      BY <2>1, <3>1, <3>2, EndTypes
  <2>4. LazyEffects(tab, target, online, l, more, l, more, requests \ {r},
                    moves)
    BY <2>2 DEF ListEnds
  <2>5. NoneReturns /\ l.of # None => From(l.of, {"list"})'
    BY <1>1, <2>3, FromStays DEF ShownInv, Shown
  <2>6. NoneReturns /\ Backed' /\ Fresh'
    BY <1>1, <2>3, <2>4, <2>5, LazyShows
  <2>7. list'.of = list.of /\ more'.of = more.of
    BY <2>2, <2>3, ListEndTypes
  <2> QED
    BY <1>1, <2>6, <2>7, ShownFrom
<1>4. CASE MoreFailed(r)
  <2>1. /\ requests' = requests \ {r} /\ UNCHANGED list
        /\ more' = [more EXCEPT !.busy = FALSE, !.done = TRUE, !.of = None]
    BY <1>4 DEF MoreFailed, MoreEnds
  <2>2. more'.of = None /\ more'.done
    BY <2>1, EndTypes DEF TypeInv, ViewTypeOK
  <2>3. NoneReturns /\ Backed' /\ Fresh'
    BY <1>1, <2>1, <2>2, EndsAlone
  <2> QED
    BY <1>1, <2>1, <2>2, <2>3, ShownFrom
<1> QED
  BY <1>2, <1>3, <1>4 DEF Failed

LEMMA StayingShows ==
  ASSUME ShownInv, StaysInDialog
  PROVE  ShownInv'
<1>1. UNCHANGED <<viewVars, loadVars, drawer, online, target>>
  BY DEF StaysInDialog, worldVars
<1>2. TargetLoaded'
  BY <1>1 DEF ShownInv, TargetLoaded, loadVars
<1> QED
  BY <1>1, <1>2, StandsStill DEF ShownInv

LEMMA ShownStep ==
  ASSUME TypeInv, ShownInv, [RDNext]_drawerVars
  PROVE  ShownInv'
<1>1. ASSUME NEW o \in Objects \union {None}, Retarget(o)
      PROVE  ShownInv'
  <2>1. CASE o = None
    BY <1>1, <2>1, StandsStill
       DEF Retarget, ShownInv, TargetLoaded, viewVars, loadVars, worldVars
  <2>2. CASE o # None
    BY <1>1, <2>2, EffectsShow DEF Retarget, worldVars
  <2> QED
    BY <2>1, <2>2
<1>2. CASE Effects(target, online) /\ UNCHANGED <<target, worldVars>>
  BY <1>2, EffectsShow DEF worldVars, TypeInv, WorldTypeOK
<1>3. CASE HealthChanges
  <2>1. CASE drawer.load.waits
    BY <1>3, <2>1, EffectsShow DEF HealthChanges, TypeInv, WorldTypeOK
  <2>2. CASE ~drawer.load.waits
    <3>1. UNCHANGED <<viewVars, loadVars, drawer, target>>
      BY <1>3, <2>2 DEF HealthChanges
    <3>2. TargetLoaded'
      BY <2>2, <3>1 DEF ShownInv, TargetLoaded, loadVars
    <3> QED
      BY <3>1, <3>2, StandsStill DEF ShownInv
  <2> QED
    BY <2>1, <2>2
<1>4. CASE SelectTab
  BY <1>4, ShowTabShows DEF SelectTab
<1>5. CASE Follow \/ CloseNested
  <2>1. /\ nested' \in {details, None}
        /\ UNCHANGED <<details, events, list, more, loadVars, target, drawer,
                       online>>
    BY <1>5 DEF Follow, CloseNested, worldVars
  <2>2. NoneReturns
    BY <2>1 DEF NoneReturns, loadVars
  <2>3. Backed' /\ Fresh'
    BY <2>1 DEF loadVars, ShownInv, Backed, From, Fresh
  <2> QED
    BY <2>1, <2>2, <2>3, ShownFrom DEF loadVars
<1>6. ASSUME NEW p \in Posts, EditApplied(p)
      PROVE  ShownInv'
  <2>1. CASE StaysInDialog
    BY <2>1, StayingShows
  <2>2. CASE /\ target # None /\ Load(target, online, posts \ {p})
             /\ UNCHANGED <<target, worldVars>>
    BY <2>2, LoadShows
       DEF TypeInv, WorldTypeOK, ShownInv, TargetLoaded, worldVars
  <2> QED
    BY <1>6, <2>1, <2>2 DEF EditApplied
<1>7. CASE StaysInDialog
  BY <1>7, StayingShows
<1>8. CASE target' = None /\ UNCHANGED <<viewVars, loadVars, worldVars>>
  BY <1>8, StandsStill DEF ShownInv, TargetLoaded
<1>9. CASE UNCHANGED drawerVars
  BY <1>9, StayingShows DEF drawerVars, StaysInDialog
<1> QED
  BY <1>1, <1>2, <1>3, <1>4, <1>5, <1>6, <1>7, <1>8, <1>9,
     AnsweredShows, FailedShows
     DEF RDNext, DrawerStep, Reread, EditStep, MutationStep, MutationAnswered,
         MutationSucceeds

\* Under the name of its object, any drawer of the catalog shows what was
\* loaded for that object, or what a request that its last load left behind
\* has brought since, and of these only the piece this request can replace:
\* for any number of objects, loads, failures and outages, and whatever was
\* overtaken.
THEOREM ShownUnderItsName == RDSpec => []ShowsItsObject
<1>1. RDInit => ShownInv
  BY DEF RDInit, NoList, ShownInv, TargetLoaded, Backed, Fresh, Shown
<1>2. ShownInv => ShowsItsObject
  BY DEF ShownInv, TargetLoaded, Shown, ShowsItsObject
<1> QED
  BY <1>1, <1>2, ShownStep, TypesHold, PTL DEF RDSpec

-----------------------------------------------------------------------------
(* Editing.                                                                *)

\* What the dialog counts as validated was validated; it is open over an
\* object, and alone.
VettedInv ==
  /\ EditTypeOK
  /\ editor # None =>
       /\ target # None /\ ~Mutating
       /\ editor.validated \in vetted \union {None}

\* The action of AppliedWasValidated.
Careful ==
  \A p \in posts' \ posts : p.action = "apply" /\ p.shown => p.text \in vetted

LEMMA OrphansHidden ==
  ASSUME NEW ps \in SUBSET Posts
  PROVE  Orphans(ps) \subseteq Posts /\ \A p \in Orphans(ps) : ~p.shown
<1> SUFFICES ASSUME NEW p \in ps
             PROVE  /\ [p EXCEPT !.shown = FALSE] \in Posts
                    /\ ~[p EXCEPT !.shown = FALSE].shown
  BY DEF Orphans
<1> QED
  BY DEF Posts

\* The dialog is gone, and its requests with it.
LEMMA GoneKeeps ==
  ASSUME VettedInv, Gone, NEW ps \in SUBSET posts, posts' = Orphans(ps)
  PROVE  VettedInv' /\ Careful
<1>1. posts' \subseteq Posts /\ \A p \in posts' : ~p.shown
  BY OrphansHidden DEF VettedInv, EditTypeOK
<1> QED
  BY <1>1 DEF VettedInv, Careful, EditTypeOK, Gone

\* The dialog stays; its requests are answered, or lose it.
LEMMA EditorStays ==
  ASSUME VettedInv, UNCHANGED <<editor, vetted>>,
         posts' \subseteq posts \/ posts' = Orphans(posts),
         editor # None => target' # None /\ ~Mutating'
  PROVE  VettedInv' /\ Careful
<1>1. CASE posts' \subseteq posts
  BY <1>1 DEF VettedInv, Careful, EditTypeOK
<1>2. CASE posts' = Orphans(posts)
  <2>1. posts' \subseteq Posts /\ \A p \in posts' : ~p.shown
    BY <1>2, OrphansHidden DEF VettedInv, EditTypeOK
  <2> QED
    BY <2>1 DEF VettedInv, Careful, EditTypeOK
<1> QED
  BY <1>1, <1>2

LEMMA EffectsEdit ==
  ASSUME VettedInv, NEW o, NEW on, Effects(o, on),
         editor # None => target' # None /\ ~Mutating'
  PROVE  VettedInv' /\ Careful
<1>1. CASE UNCHANGED <<viewVars, loadVars, editVars>>
  BY <1>1, EditorStays DEF editVars
<1>2. CASE Load(o, on, posts)
  BY <1>2, GoneKeeps DEF Load
<1> QED
  BY <1>1, <1>2 DEF Effects

\* The steps of the drawer that are no edits.
LEMMA DrawerStepEdits ==
  ASSUME TypeInv, VettedInv, UNCHANGED mutation,
         \/ \E o \in Objects \union {None} : Retarget(o)
         \/ Reread
         \/ HealthChanges
         \/ \E t : ShowTab(t)
         \/ Follow
         \/ CloseNested
         \/ \E r \in Requests : Answered(r) \/ Failed(r)
  PROVE  VettedInv' /\ Careful
<1>0. ~Mutating' = ~Mutating
  BY DEF Mutating
<1>1. ASSUME NEW o \in Objects \union {None}, Retarget(o)
      PROVE  VettedInv' /\ Careful
  <2>1. editor = None /\ target' = o
    BY <1>1 DEF Retarget, InDialog
  <2>2. CASE o = None
    BY <1>1, <2>1, <2>2, EditorStays DEF Retarget
  <2>3. CASE o # None
    BY <1>1, <2>1, <2>3, EffectsEdit DEF Retarget
  <2> QED
    BY <2>2, <2>3
<1>2. CASE Reread
  BY <1>0, <1>2, EffectsEdit DEF Reread, VettedInv
<1>3. CASE HealthChanges
  <2>1. target' = target
    BY <1>3 DEF HealthChanges
  <2>2. CASE UNCHANGED <<viewVars, loadVars, editVars>>
    BY <1>0, <2>1, <2>2, EditorStays DEF VettedInv, editVars
  <2>3. CASE Effects(target, online')
    BY <1>0, <2>1, <2>3, EffectsEdit DEF VettedInv
  <2> QED
    BY <1>3, <2>2, <2>3 DEF HealthChanges
<1>4. ASSUME NEW t, ShowTab(t)
      PROVE  VettedInv' /\ Careful
  <2>1. /\ UNCHANGED <<editor, vetted, target>>
        /\ posts' = Orphans(posts)
    BY <1>4 DEF ShowTab
  <2> QED
    BY <1>0, <2>1, EditorStays DEF VettedInv
<1>5. CASE Follow \/ CloseNested
  BY <1>0, <1>5, EditorStays DEF VettedInv, Follow, CloseNested, editVars
<1>6. ASSUME NEW r \in Requests, Answered(r)
      PROVE  VettedInv' /\ Careful
  <2>1. /\ r.of \in Objects
        /\ posts' = posts /\ target' = target
    BY <1>6 DEF Requests, Answered
  <2>2. CASE UNCHANGED <<editor, vetted>>
    BY <1>0, <2>1, <2>2, EditorStays DEF VettedInv
  <2>3. CASE editor # None /\ Start(Yaml(r.of))
    <3>1. editor' \in Editors /\ editor'.validated = None
      BY <2>1, <2>3 DEF Start, Editors, Yaml, Texts
    <3> QED
      BY <1>0, <2>1, <2>3, <3>1
         DEF VettedInv, Careful, EditTypeOK, Start
  <2> QED
    BY <1>6, <2>2, <2>3
       DEF Answered, DetailsAnswered, EventsAnswered, ListAnswered,
           MoreAnswered, MoreEnds, Restarts
<1>7. ASSUME NEW r \in Requests, Failed(r)
      PROVE  VettedInv' /\ Careful
  <2>1. target' = target
    BY <1>7 DEF Failed
  <2>2. CASE UNCHANGED editVars
    BY <1>0, <2>1, <2>2, EditorStays DEF VettedInv, editVars
  <2>3. CASE Gone /\ posts' = Orphans(posts)
    BY <2>3, GoneKeeps
  <2> QED
    BY <1>7, <2>2, <2>3
       DEF Failed, LoadFailed, ListFailed, MoreFailed, MoreEnds, editVars
<1> QED
  BY <1>1, <1>2, <1>3, <1>4, <1>5, <1>6, <1>7

\* What an editor's fields become.
LEMMA EditorFields ==
  ASSUME NEW e \in Editors
  PROVE  /\ [e EXCEPT !.busy = TRUE] \in Editors
         /\ [e EXCEPT !.busy = TRUE].validated = e.validated
         /\ [e EXCEPT !.busy = FALSE] \in Editors
         /\ [e EXCEPT !.busy = FALSE].validated = e.validated
         /\ [e EXCEPT !.typed = TRUE] \in Editors
         /\ [e EXCEPT !.typed = TRUE].validated = e.validated
         /\ [e EXCEPT !.text.edited = ~@] \in Editors
         /\ [e EXCEPT !.text.edited = ~@].validated = e.validated
         /\ \A t \in Texts :
              /\ [e EXCEPT !.busy = FALSE, !.validated = t] \in Editors
              /\ [e EXCEPT !.busy = FALSE, !.validated = t].validated = t
BY DEF Editors, Texts

LEMMA EditStepKeeps ==
  ASSUME TypeInv, VettedInv, EditStep, UNCHANGED mutation
  PROVE  VettedInv' /\ Careful
<1>1. target' = target
  BY DEF EditStep, StaysInDialog
<1>2. ~Mutating' = ~Mutating
  BY DEF Mutating
<1>3. CASE Editable /\ OpenEditor(Yaml(YamlOf))
  <2>1. /\ YamlOf \in Objects /\ target # None /\ ~Mutating
        /\ Start(Yaml(YamlOf)) /\ posts' = posts
    BY <1>3
       DEF Editable, Visible, YamlOf, OpenEditor, TypeInv, ViewTypeOK, Lists
  <2>2. editor' \in Editors /\ editor'.validated = None
    BY <2>1 DEF Start, Editors, Yaml, Texts
  <2> QED
    BY <1>1, <1>2, <2>1, <2>2 DEF VettedInv, Careful, EditTypeOK, Start
<1>4. CASE CloseEditor
  BY <1>1, <1>4 DEF CloseEditor, Gone, VettedInv, Careful, EditTypeOK
<1>5. CASE Type
  <2>1. editor \in Editors /\ editor # None
    BY <1>5 DEF Type, VettedInv, EditTypeOK
  <2>2. editor' \in Editors /\ editor'.validated = editor.validated
    BY <1>5, <2>1, EditorFields DEF Type
  <2> QED
    BY <1>1, <1>2, <1>5, <2>1, <2>2
       DEF Type, VettedInv, Careful, EditTypeOK
<1>6. ASSUME NEW action \in {"validate", "apply"}, Post(action, target)
      PROVE  VettedInv' /\ Careful
  <2> DEFINE p == [action |-> action, name |-> target, text |-> editor.text,
                   shown |-> TRUE]
  <2>1. editor \in Editors /\ editor # None /\ target \in Objects
    BY <1>6 DEF Post, TypeInv, WorldTypeOK, VettedInv, EditTypeOK
  <2>2. p \in Posts
    BY <2>1 DEF Posts, Editors
  <2>3. p.action = action /\ p.text = editor.text
    OBVIOUS
  <2>4. posts' = posts \union {p} /\ vetted' = vetted
    BY <1>6 DEF Post
  <2> HIDE DEF p
  <2>5. editor' \in Editors /\ editor'.validated = editor.validated
    BY <1>6, <2>1, EditorFields DEF Post
  <2>6. action = "apply" => editor.text \in vetted
    <3>1. editor.text # None
      BY <2>1, NoneAssumption DEF Editors
    <3> QED
      BY <1>6, <2>1, <3>1 DEF Post, CanApply, VettedInv
  <2>7. Careful
    BY <2>3, <2>4, <2>6 DEF Careful
  <2> QED
    BY <1>1, <1>2, <2>1, <2>2, <2>4, <2>5, <2>7 DEF VettedInv, EditTypeOK
<1>7. ASSUME NEW p \in posts, Refused(p) \/ Validated(p)
      PROVE  VettedInv' /\ Careful
  <2>1. posts' = posts \ {p} /\ p \in Posts
    BY <1>7 DEF Refused, Validated, VettedInv, EditTypeOK
  <2>2. p.text \in Texts
    BY <2>1 DEF Posts
  <2>3. CASE UNCHANGED <<editor, vetted>>
    BY <1>1, <1>2, <2>1, <2>3, EditorStays DEF VettedInv
  <2>4. CASE /\ editor # None /\ vetted' = vetted
             /\ editor' = [editor EXCEPT !.busy = FALSE]
    <3>1. /\ editor' \in Editors /\ editor'.validated = editor.validated
      BY <2>4, EditorFields DEF VettedInv, EditTypeOK
    <3> QED
      BY <1>1, <1>2, <2>1, <2>4, <3>1 DEF VettedInv, Careful, EditTypeOK
  <2>5. CASE /\ editor # None /\ vetted' = vetted \union {p.text}
             /\ editor' = [editor EXCEPT !.busy = FALSE,
                                         !.validated = p.text]
    <3>1. /\ editor' \in Editors /\ editor'.validated = p.text
      BY <2>2, <2>5, EditorFields DEF VettedInv, EditTypeOK
    <3>2. posts' \subseteq Posts /\ vetted' \subseteq Texts
      BY <2>1, <2>2, <2>5 DEF VettedInv, EditTypeOK
    <3>3. Careful
      BY <2>1 DEF Careful
    <3>4. editor'.validated \in vetted'
      BY <2>5, <3>1
    <3>5. target' # None /\ ~Mutating'
      BY <1>1, <1>2, <2>5 DEF VettedInv
    <3> QED
      BY <1>1, <3>1, <3>2, <3>3, <3>4, <3>5 DEF VettedInv, EditTypeOK
  <2> QED
    BY <1>7, <2>3, <2>4, <2>5 DEF Refused, Validated, Reaches
<1> QED
  BY <1>3, <1>4, <1>5, <1>6, <1>7 DEF EditStep

LEMMA EditAppliedEdits ==
  ASSUME VettedInv, NEW p, EditApplied(p), UNCHANGED mutation
  PROVE  VettedInv' /\ Careful
<1>1. CASE drawer.rereads /\ target # None /\ (drawer.load.waits => online)
  <2>1. Gone /\ posts' = Orphans(posts \ {p})
    BY <1>1 DEF EditApplied, Load
  <2> QED
    BY <2>1, GoneKeeps
<1>2. CASE ~(drawer.rereads /\ target # None /\ (drawer.load.waits => online))
  <2>1. /\ posts' = posts \ {p} /\ target' = target
        /\ Gone \/ UNCHANGED <<editor, vetted>>
    BY <1>2 DEF EditApplied, StaysInDialog
  <2>2. CASE Gone
    BY <2>1, <2>2 DEF Gone, VettedInv, Careful, EditTypeOK
  <2>3. CASE UNCHANGED <<editor, vetted>>
    BY <2>1, <2>3, EditorStays DEF VettedInv, Mutating
  <2> QED
    BY <2>1, <2>2, <2>3
<1> QED
  BY <1>1, <1>2

\* While an action is confirmed, sent or answered, no editor is open.
LEMMA MutationEdits ==
  ASSUME VettedInv, MutationStep \/ MutationAnswered
  PROVE  VettedInv' /\ Careful
<1>1. editor = None \/ ~Mutating'
  BY DEF MutationStep, Offered, FillIn, Execute, Retry, CloseMutation, Closed,
         MutationAnswered, MutationSucceeds, Succeed, Fail, VettedInv,
         Mutating
<1>2. CASE UNCHANGED <<editor, vetted, posts, target>>
  BY <1>1, <1>2, EditorStays DEF VettedInv
<1>3. CASE MutationSucceeds
  <2>1. editor = None
    BY <1>3 DEF MutationSucceeds, Succeed, VettedInv
  <2>2. CASE /\ target' = None /\ posts' = Orphans(posts)
             /\ UNCHANGED <<editor, vetted>>
    BY <2>1, <2>2, EditorStays DEF VettedInv
  <2>3. CASE Effects(target, online) /\ target' = target
    BY <2>1, <2>3, EffectsEdit DEF VettedInv
  <2> QED
    BY <1>2, <1>3, <2>2, <2>3
       DEF MutationSucceeds, StaysInDialog, editVars
<1> QED
  BY <1>2, <1>3
     DEF MutationStep, MutationAnswered, StaysInDialog, editVars

LEMMA VettedStep ==
  ASSUME TypeInv, VettedInv, [RDNext]_drawerVars
  PROVE  VettedInv' /\ Careful
<1>1. CASE DrawerStep /\ UNCHANGED mutation
  <2>1. ASSUME NEW p \in Posts, EditApplied(p)
        PROVE  VettedInv' /\ Careful
    BY <1>1, <2>1, EditAppliedEdits
  <2> QED
    BY <1>1, <2>1, EditStepKeeps, DrawerStepEdits
       DEF DrawerStep, SelectTab
<1>2. CASE MutationStep \/ MutationAnswered
  BY <1>2, MutationEdits
<1>3. CASE UNCHANGED drawerVars
  BY <1>3, EditorStays DEF drawerVars, editVars, VettedInv, Mutating
<1> QED
  BY <1>1, <1>2, <1>3 DEF RDNext

LEMMA VettedHolds == RDSpec => []VettedInv
<1>1. RDInit => VettedInv
  BY DEF RDInit, EditInit, VettedInv, EditTypeOK
<1> QED
  BY <1>1, VettedStep, TypesHold, PTL DEF RDSpec

\* No text is ever sent to be applied unless the server has validated this
\* very text for this dialog, however the drawer was loaded, reset or closed
\* under it and in whatever order requests were answered.
THEOREM AppliedTextsWereValidated == RDSpec => AppliedWasValidated
<1>1. ASSUME TypeInv, VettedInv, [RDNext]_drawerVars
      PROVE  [Careful]_editVars
  BY <1>1, VettedStep
<1> QED
  BY <1>1, TypesHold, VettedHolds, PTL DEF RDSpec, AppliedWasValidated, Careful

-----------------------------------------------------------------------------
(* Waiting.                                                                *)

\* The waits of WaitsHaveAnswers, by what can end them.
RequestsAwaited ==
  /\ loading =>
       \E r \in requests : r.step \in {"details", "events"} /\ r.at = moves
  /\ list.busy => \E r \in requests : r.step = "list" /\ r.at = moves
  /\ more.busy => \E r \in requests : r.step = "more" /\ r.at = moves

PostAwaited ==
  editor # None /\ editor.busy => \E p \in posts : p.shown

ActionAwaited ==
  mutation.phase = "running" /\ ~mutation.streamed => mutation.sent

WaitInv == RequestsAwaited /\ PostAwaited /\ ActionAwaited

\* The effects of a lazy tab wait for what they ask for.
LEMMA LazyAwaits ==
  ASSUME NEW t, NEW o, NEW on, NEW l, NEW m, NEW l0, NEW m0, NEW rs, NEW at,
         LazyEffects(t, o, on, l, m, l0, m0, rs, at)
  PROVE  /\ rs \subseteq requests'
         /\ list' = l0 \/ \E r \in requests' : r.step = "list" /\ r.at = at
         /\ \/ more' = m0 \/ more' = [m0 EXCEPT !.done = TRUE]
            \/ \E r \in requests' : r.step = "more" /\ r.at = at
<1>1. CASE /\ list' = Fetching(l0) /\ more' = m0
           /\ requests' = rs \union {Request("list", o, at)}
  BY <1>1, RequestFields
<1>2. CASE /\ list' = l0 /\ more' = [m0 EXCEPT !.busy = TRUE]
           /\ requests' = rs \union {Request("more", l.of, at)}
  BY <1>2, RequestFields
<1>3. CASE /\ list' = l0 /\ requests' = rs
           /\ more' = m0 \/ more' = [m0 EXCEPT !.done = TRUE]
  BY <1>3
<1> QED
  BY <1>1, <1>2, <1>3, LazyCases

\* A load leaves nothing waiting but for its own requests.
LEMMA LoadAwaits ==
  ASSUME NEW o, NEW on, NEW ps, Load(o, on, ps)
  PROVE  RequestsAwaited' /\ PostAwaited'
<1>1. /\ ~Reset(o).busy /\ ~NoList.busy
      /\ ~[NoList EXCEPT !.done = TRUE].busy
  BY DEF Reset, NoList
<1>2. LazyEffects(tab, o, on, list, more, Reset(o), NoList,
                  requests \union {Request("details", o, moves')}, moves')
  BY DEF Load
<1>3. Request("details", o, moves') \in requests'
  BY <1>2, LazyAwaits
<1>4. \E r \in requests' : r.step \in {"details", "events"} /\ r.at = moves'
  BY <1>3, RequestFields
<1>5. \/ list' = Reset(o)
      \/ \E r \in requests' : r.step = "list" /\ r.at = moves'
  BY <1>2, LazyAwaits
<1>6. \/ more' = NoList \/ more' = [NoList EXCEPT !.done = TRUE]
      \/ \E r \in requests' : r.step = "more" /\ r.at = moves'
  BY <1>2, LazyAwaits
<1>7. PostAwaited'
  BY DEF Load, Gone, PostAwaited
<1> QED
  BY <1>1, <1>4, <1>5, <1>6, <1>7 DEF RequestsAwaited

LEMMA EffectsAwait ==
  ASSUME WaitInv, NEW o, NEW on, Effects(o, on)
  PROVE  RequestsAwaited' /\ PostAwaited'
<1>1. CASE UNCHANGED <<viewVars, loadVars, editVars>>
  BY <1>1
     DEF WaitInv, RequestsAwaited, PostAwaited, viewVars, loadVars, editVars
<1>2. CASE Load(o, on, posts)
  BY <1>2, LoadAwaits
<1> QED
  BY <1>1, <1>2 DEF Effects

\* The end of request r, after which the effects of the tab run with list l.
LEMMA ListEndAwaits ==
  ASSUME TypeInv, WaitInv, NEW r \in requests, r.step = "list",
         NEW l \in Lists, l.busy = FALSE, ListEnds(l, r),
         UNCHANGED <<loading, moves>>
  PROVE  RequestsAwaited'
<1>1. LazyEffects(tab, target, online, l, more, l, more, requests \ {r}, moves)
  BY DEF ListEnds
<1>2. requests \ {r} \subseteq requests'
  BY <1>1, LazyAwaits
<1>3. list' = l \/ \E q \in requests' : q.step = "list" /\ q.at = moves
  BY <1>1, LazyAwaits
<1>4. \/ more' = more \/ more' = [more EXCEPT !.done = TRUE]
      \/ \E q \in requests' : q.step = "more" /\ q.at = moves
  BY <1>1, LazyAwaits
<1>5. [more EXCEPT !.done = TRUE].busy = more.busy
  BY ListTypes DEF TypeInv, ViewTypeOK
<1>6. loading' => \E q \in requests' : q.step \in {"details", "events"}
                                      /\ q.at = moves'
  BY <1>2 DEF WaitInv, RequestsAwaited
<1>7. more.busy => \E q \in requests' : q.step = "more" /\ q.at = moves'
  BY <1>2 DEF WaitInv, RequestsAwaited
<1>8. more'.busy => \E q \in requests' : q.step = "more" /\ q.at = moves'
  BY <1>4, <1>5, <1>7
<1> QED
  BY <1>3, <1>6, <1>8 DEF RequestsAwaited

\* The answers, and the failures, of requests.
LEMMA AnswersAwait ==
  ASSUME TypeInv, WaitInv, NEW r, Answered(r) \/ Failed(r)
  PROVE  RequestsAwaited' /\ PostAwaited'
<1>1. r \in requests /\ r \in Requests /\ moves' = moves
  BY DEF Answered, Failed, TypeInv, ViewTypeOK
<1>2. CASE Answered(r) /\ DetailsAnswered(r)
  <2>1. /\ r.step = "details" /\ UNCHANGED <<list, more>>
        /\ loading' \in {loading, FALSE}
        /\ \/ loading' = FALSE /\ requests' = requests \ {r}
           \/ /\ loading' = loading
              /\ requests' = (requests \ {r})
                               \union {Request("events", r.of, r.at)}
    BY <1>2 DEF DetailsAnswered
  <2>2. RequestsAwaited'
    <3>1. /\ list'.busy => \E q \in requests' : q.step = "list" /\ q.at = moves'
          /\ more'.busy => \E q \in requests' : q.step = "more" /\ q.at = moves'
      BY <1>1, <2>1 DEF WaitInv, RequestsAwaited
    <3>2. ASSUME loading'
          PROVE  \E q \in requests' :
                   q.step \in {"details", "events"} /\ q.at = moves'
      <4>1. PICK q \in requests :
              q.step \in {"details", "events"} /\ q.at = moves
        BY <2>1, <3>2 DEF WaitInv, RequestsAwaited
      <4>2. CASE q = r
        BY <1>1, <2>1, <3>2, <4>1, <4>2, RequestFields
      <4>3. CASE q # r
        BY <1>1, <2>1, <3>2, <4>1, <4>3
      <4> QED
        BY <4>2, <4>3
    <3> QED
      BY <3>1, <3>2 DEF RequestsAwaited
  <2>3. PostAwaited'
    <3>1. posts' = posts
      BY <1>2 DEF Answered
    <3>2. CASE UNCHANGED editor
      BY <3>1, <3>2 DEF WaitInv, PostAwaited
    <3>3. CASE Start(Yaml(r.of))
      BY <3>3 DEF Start, PostAwaited
    <3> QED
      BY <1>2, <3>2, <3>3 DEF DetailsAnswered, Restarts
  <2> QED
    BY <2>2, <2>3
<1>3. CASE Answered(r) /\ EventsAnswered(r)
  BY <1>1, <1>3
     DEF Answered, EventsAnswered, WaitInv, RequestsAwaited, PostAwaited
<1>4. CASE Answered(r) /\ ListAnswered(r)
  <2>1. PICK l : l = [Listed(list) EXCEPT !.of = r.of]
    OBVIOUS
  <2>2. r.step = "list" /\ ListEnds(l, r) /\ loading' = loading
    BY <1>4, <2>1 DEF ListAnswered
  <2>3. l \in Lists /\ l.busy = FALSE
    <3>1. r.of \in Objects /\ Listed(list) \in Lists
      BY <1>1, ListTypes DEF TypeInv, ViewTypeOK, Requests
    <3>2. Listed(list).busy = FALSE
      BY ListTypes DEF TypeInv, ViewTypeOK
    <3> QED
      BY <2>1, <3>1, <3>2 DEF Lists
  <2>4. RequestsAwaited'
    BY <1>1, <2>2, <2>3, ListEndAwaits
  <2>5. PostAwaited'
    <3>1. posts' = posts
      BY <1>4 DEF Answered
    <3>2. CASE UNCHANGED editor
      BY <3>1, <3>2 DEF WaitInv, PostAwaited
    <3>3. CASE Start(Yaml(r.of))
      BY <3>3 DEF Start, PostAwaited
    <3> QED
      BY <1>4, <3>2, <3>3 DEF ListAnswered, Restarts
  <2> QED
    BY <2>4, <2>5
<1>5. ASSUME NEW o \in Objects \union {None}, MoreEnds(r, o), UNCHANGED posts
      PROVE  RequestsAwaited' /\ PostAwaited'
  <2>1. ~more'.busy
    BY <1>5, EndTypes DEF MoreEnds, TypeInv, ViewTypeOK
  <2>2. /\ r.step = "more" /\ requests' = requests \ {r}
        /\ UNCHANGED <<loading, list, editor, posts>>
    BY <1>5 DEF MoreEnds
  <2> QED
    BY <1>1, <2>1, <2>2 DEF WaitInv, RequestsAwaited, PostAwaited
<1>6. CASE Answered(r) /\ MoreAnswered(r)
  <2>1. r.of \in Objects /\ posts' = posts
    BY <1>1, <1>6 DEF Answered, Requests
  <2> QED
    BY <1>5, <1>6, <2>1 DEF MoreAnswered
<1>7. CASE Failed(r) /\ LoadFailed(r)
  <2>1. PostAwaited'
    BY <1>7 DEF LoadFailed, Gone, WaitInv, PostAwaited, editVars
  <2> QED
    BY <1>1, <1>7, <2>1 DEF Failed, LoadFailed, WaitInv, RequestsAwaited
<1>8. CASE Failed(r) /\ ListFailed(r)
  <2>1. PICK l : l = [Listed(list) EXCEPT !.bad = @ \/ ~Kept("list", r.of)]
    OBVIOUS
  <2>2. r.step = "list" /\ ListEnds(l, r) /\ loading' = loading
    BY <1>8, <2>1 DEF ListFailed
  <2>3. l \in Lists /\ l.busy = FALSE
    <3>1. Kept("list", r.of) \in BOOLEAN
      BY DrawerTypes DEF Kept, TypeInv
    <3>2. Listed(list) \in Lists /\ Listed(list).busy = FALSE
      BY ListTypes DEF TypeInv, ViewTypeOK
    <3> QED
      BY <2>1, <3>1, <3>2 DEF Lists
  <2>4. RequestsAwaited'
    BY <1>1, <2>2, <2>3, ListEndAwaits
  <2>5. PostAwaited'
    BY <1>8 DEF ListFailed, Gone, WaitInv, PostAwaited, editVars
  <2> QED
    BY <2>4, <2>5
<1>9. CASE Failed(r) /\ MoreFailed(r)
  BY <1>5, <1>9 DEF MoreFailed
<1> QED
  BY <1>2, <1>3, <1>4, <1>6, <1>7, <1>8, <1>9 DEF Answered, Failed

LEMMA DrawerStepAwaits ==
  ASSUME TypeInv, WaitInv, UNCHANGED mutation,
         \/ \E o \in Objects \union {None} : Retarget(o)
         \/ Reread
         \/ HealthChanges
         \/ \E t : ShowTab(t)
         \/ Follow
         \/ CloseNested
  PROVE  RequestsAwaited' /\ PostAwaited'
<1>1. ASSUME NEW o \in Objects \union {None}, Retarget(o)
      PROVE  RequestsAwaited' /\ PostAwaited'
  <2>1. CASE o = None
    BY <1>1, <2>1
       DEF Retarget, InDialog, viewVars, loadVars, WaitInv, RequestsAwaited,
           PostAwaited
  <2>2. CASE o # None
    BY <1>1, <2>2, EffectsAwait DEF Retarget
  <2> QED
    BY <2>1, <2>2
<1>2. CASE Reread
  BY <1>2, EffectsAwait DEF Reread
<1>3. CASE HealthChanges
  <2>1. CASE UNCHANGED <<viewVars, loadVars, editVars>>
    BY <2>1
       DEF WaitInv, RequestsAwaited, PostAwaited, viewVars, loadVars, editVars
  <2>2. CASE Effects(target, online')
    BY <2>2, EffectsAwait
  <2> QED
    BY <1>3, <2>1, <2>2 DEF HealthChanges
<1>4. ASSUME NEW t, ShowTab(t)
      PROVE  RequestsAwaited' /\ PostAwaited'
  <2>1. /\ LazyEffects(t, target, online, list, more, list, more, requests,
                       moves)
        /\ editor = None
        /\ UNCHANGED <<loading, moves, editor>>
    BY <1>4 DEF ShowTab, InDialog
  <2>2. requests \subseteq requests'
    BY <2>1, LazyAwaits
  <2>3. list' = list \/ \E q \in requests' : q.step = "list" /\ q.at = moves
    BY <2>1, LazyAwaits
  <2>4. \/ more' = more \/ more' = [more EXCEPT !.done = TRUE]
        \/ \E q \in requests' : q.step = "more" /\ q.at = moves
    BY <2>1, LazyAwaits
  <2>5. [more EXCEPT !.done = TRUE].busy = more.busy
    BY ListTypes DEF TypeInv, ViewTypeOK
  <2>6. RequestsAwaited'
    BY <2>1, <2>2, <2>3, <2>4, <2>5 DEF WaitInv, RequestsAwaited
  <2> QED
    BY <2>1, <2>6 DEF PostAwaited
<1>5. CASE Follow \/ CloseNested
  BY <1>5
     DEF Follow, CloseNested, loadVars, editVars, WaitInv, RequestsAwaited,
         PostAwaited
<1> QED
  BY <1>1, <1>2, <1>3, <1>4, <1>5

LEMMA EditStepAwaits ==
  ASSUME WaitInv, VettedInv, EditStep
  PROVE  RequestsAwaited' /\ PostAwaited'
<1>1. RequestsAwaited'
  BY DEF EditStep, StaysInDialog, viewVars, loadVars, WaitInv, RequestsAwaited
<1>2. CASE \E y : OpenEditor(y)
  BY <1>1, <1>2 DEF OpenEditor, Start, PostAwaited
<1>3. CASE CloseEditor
  BY <1>1, <1>3 DEF CloseEditor, Gone, PostAwaited
<1>4. CASE Type
  <2>1. editor \in Editors /\ editor # None
    BY <1>4 DEF Type, VettedInv, EditTypeOK
  <2>2. editor'.busy = editor.busy /\ posts' = posts
    BY <1>4, <2>1 DEF Type, Editors
  <2> QED
    BY <1>1, <2>1, <2>2 DEF WaitInv, PostAwaited
<1>5. ASSUME NEW action \in {"validate", "apply"}, Post(action, target)
      PROVE  PostAwaited'
  <2> DEFINE q == [action |-> action, name |-> target, text |-> editor.text,
                   shown |-> TRUE]
  <2>1. q.shown = TRUE
    OBVIOUS
  <2>2. posts' = posts \union {q}
    BY <1>5 DEF Post
  <2> HIDE DEF q
  <2> QED
    BY <2>1, <2>2 DEF PostAwaited
<1>6. ASSUME NEW p \in posts, Refused(p) \/ Validated(p)
      PROVE  PostAwaited'
  <2>1. posts' = posts \ {p}
    BY <1>6 DEF Refused, Validated
  <2>2. CASE Reaches(p)
    <3>1. editor \in Editors
      BY <2>2 DEF Reaches, VettedInv, EditTypeOK
    <3>2. editor'.busy = FALSE
      BY <1>6, <2>2, <3>1 DEF Refused, Validated, Editors
    <3> QED
      BY <3>2 DEF PostAwaited
  <2>3. CASE ~Reaches(p)
    <3>1. editor' = editor
      BY <1>6, <2>3 DEF Refused, Validated
    <3> QED
      BY <2>1, <2>3, <3>1 DEF Reaches, WaitInv, PostAwaited
  <2> QED
    BY <2>2, <2>3
<1> QED
  BY <1>1, <1>2, <1>3, <1>4, <1>5, <1>6 DEF EditStep

LEMMA EditAppliedAwaits ==
  ASSUME WaitInv, NEW p, EditApplied(p)
  PROVE  RequestsAwaited' /\ PostAwaited'
<1>1. CASE Load(target, online, posts \ {p})
  BY <1>1, LoadAwaits
<1>2. CASE /\ IF Reaches(p) THEN Gone ELSE UNCHANGED <<editor, vetted>>
           /\ posts' = posts \ {p}
           /\ StaysInDialog
  <2>1. RequestsAwaited'
    BY <1>2 DEF StaysInDialog, viewVars, loadVars, WaitInv, RequestsAwaited
  <2>2. PostAwaited'
    BY <1>2 DEF Reaches, Gone, WaitInv, PostAwaited
  <2> QED
    BY <2>1, <2>2
<1> QED
  BY <1>1, <1>2 DEF EditApplied

\* The fields of an action's dialog, and what the user makes of them.
ADialog(m) ==
  {"phase", "action", "confirmed", "valid", "streamed", "sent"} \subseteq DOMAIN m

\* The types of the dialog of an action.
DialogInv == mutation = Closed \/ ADialog(mutation)

LEMMA MutationAwaits ==
  ASSUME ActionAwaited, DialogInv,
         \/ \E a, o : OpenMutation(a, o)
         \/ \E on : FillIn(on) \/ Execute(on)
         \/ Retry \/ CloseMutation \/ Succeed \/ Fail
         \/ UNCHANGED mutation
  PROVE  ActionAwaited' /\ DialogInv'
<1>1. ASSUME NEW a, NEW o, OpenMutation(a, o)
      PROVE  ActionAwaited' /\ DialogInv'
  BY <1>1 DEF OpenMutation, ActionAwaited, DialogInv, ADialog
<1>2. ASSUME NEW on, FillIn(on)
      PROVE  ActionAwaited' /\ DialogInv'
  BY <1>2 DEF FillIn, Closed, ActionAwaited, DialogInv, ADialog
<1>3. ASSUME NEW on, Execute(on)
      PROVE  ActionAwaited' /\ DialogInv'
  BY <1>3 DEF Execute, Closed, ActionAwaited, DialogInv, ADialog
<1>4. CASE Retry
  BY <1>4 DEF Retry, Closed, ActionAwaited, DialogInv, ADialog
<1>5. CASE CloseMutation
  BY <1>5 DEF CloseMutation, Closed, ActionAwaited, DialogInv
<1>6. CASE Succeed
  BY <1>6
     DEF Succeed, Mutating, Closed, ActionAwaited, DialogInv, ADialog
<1>7. CASE Fail
  BY <1>7 DEF Fail, Mutating, Closed, ActionAwaited, DialogInv, ADialog
<1>8. CASE UNCHANGED mutation
  BY <1>8 DEF ActionAwaited, DialogInv
<1> QED
  BY <1>1, <1>2, <1>3, <1>4, <1>5, <1>6, <1>7, <1>8

LEMMA WaitsHold == RDSpec => [](WaitInv /\ DialogInv)
<1>1. RDInit => WaitInv /\ DialogInv
  BY DEF RDInit, EditInit, MutationInit, Closed, NoList, WaitInv, DialogInv,
         RequestsAwaited, PostAwaited, ActionAwaited
<1>2. ASSUME TypeInv, WaitInv, DialogInv, VettedInv, [RDNext]_drawerVars
      PROVE  WaitInv' /\ DialogInv'
  <2>1. ActionAwaited' /\ DialogInv'
    <3>1. \/ \E a, o : OpenMutation(a, o)
          \/ \E on : FillIn(on) \/ Execute(on)
          \/ Retry \/ CloseMutation \/ Succeed \/ Fail
          \/ UNCHANGED mutation
      BY <1>2
         DEF RDNext, MutationStep, MutationAnswered, MutationSucceeds,
             drawerVars
    <3> QED
      BY <1>2, <3>1, MutationAwaits DEF WaitInv
  <2>2. CASE DrawerStep /\ UNCHANGED mutation
    BY <1>2, <2>1, <2>2, DrawerStepAwaits, AnswersAwait, EditStepAwaits,
       EditAppliedAwaits
       DEF DrawerStep, SelectTab, WaitInv
  <2>3. CASE StaysInDialog /\ UNCHANGED editVars
    BY <1>2, <2>1, <2>3
       DEF StaysInDialog, viewVars, loadVars, editVars, WaitInv,
           RequestsAwaited, PostAwaited
  <2>4. CASE MutationSucceeds
    <3>1. editor = None
      BY <1>2, <2>4 DEF MutationSucceeds, Succeed, VettedInv
    <3>2. CASE UNCHANGED <<viewVars, loadVars, editor>>
      BY <1>2, <2>1, <3>1, <3>2
         DEF viewVars, loadVars, WaitInv, RequestsAwaited, PostAwaited
    <3>3. CASE Effects(target, online)
      BY <1>2, <2>1, <3>3, EffectsAwait DEF WaitInv
    <3> QED
      BY <2>3, <2>4, <3>2, <3>3 DEF MutationSucceeds
  <2>5. CASE UNCHANGED drawerVars
    BY <2>3, <2>5 DEF drawerVars, StaysInDialog
  <2> QED
    BY <1>2, <2>2, <2>3, <2>4, <2>5 DEF RDNext, MutationStep, MutationAnswered
<1> QED
  BY <1>1, <1>2, TypesHold, VettedHolds, PTL DEF RDSpec

\* Nothing in a drawer waits without a request of its own under way to end
\* the wait, whatever loads overtook, however many requests failed, and
\* whichever dialogs went away under theirs.
THEOREM WaitsAreAnswered == RDSpec => []WaitsHaveAnswers
<1>1. WaitInv => WaitsHaveAnswers
  BY DEF WaitInv, RequestsAwaited, PostAwaited, ActionAwaited,
         WaitsHaveAnswers
<1> QED
  BY <1>1, WaitsHold, PTL

-----------------------------------------------------------------------------
(* The dialogs' types.                                                     *)

\* The dialog is closed, or one of an action of the drawer.
DialogTypeOK ==
  mutation \in Dialogs(Actions(drawer.name), Objects) \union {Closed}

LEMMA OpenDialogTypes ==
  ASSUME NEW A, mutation \in Dialogs(A, Objects) \union {Closed},
         \/ \E a \in A, o \in Objects : OpenMutation(a, o)
         \/ \E on : FillIn(on) \/ Execute(on)
         \/ Retry \/ CloseMutation \/ Succeed \/ Fail
         \/ UNCHANGED mutation
  PROVE  mutation' \in Dialogs(A, Objects) \union {Closed}
<1> USE DEF Dialogs, Phases
<1>1. ASSUME NEW a \in A, NEW o \in Objects, OpenMutation(a, o)
      PROVE  mutation' \in Dialogs(A, Objects)
  BY <1>1 DEF OpenMutation
<1>2. mutation # Closed => mutation \in Dialogs(A, Objects)
  OBVIOUS
<1>3. mutation.phase # "closed" => mutation # Closed
  BY DEF Closed
<1>4. ASSUME NEW on, FillIn(on) \/ Execute(on)
      PROVE  mutation' \in Dialogs(A, Objects)
  BY <1>2, <1>3, <1>4 DEF FillIn, Execute
<1>5. CASE Retry
  BY <1>2, <1>3, <1>5 DEF Retry
<1>6. CASE Fail
  BY <1>2, <1>3, <1>6 DEF Fail, Mutating
<1>7. CASE Succeed
  BY <1>2, <1>3, <1>7 DEF Succeed, Mutating
<1> QED
  BY <1>1, <1>4, <1>5, <1>6, <1>7 DEF CloseMutation

LEMMA DialogTypesHold == RDSpec => []DialogTypeOK
<1>1. RDInit => DialogTypeOK
  BY DEF RDInit, MutationInit, DialogTypeOK
<1>2. ASSUME TypeInv, DialogTypeOK, [RDNext]_drawerVars
      PROVE  DialogTypeOK'
  <2>1. drawer' = drawer
    BY <1>2
       DEF RDNext, DrawerStep, Retarget, Reread, HealthChanges, SelectTab,
           ShowTab, Follow, CloseNested, Answered, Failed, EditStep,
           EditApplied, MutationStep, MutationAnswered, MutationSucceeds,
           StaysInDialog, drawerVars, worldVars
  <2>2. \/ \E a \in Actions(drawer.name), o \in Objects : OpenMutation(a, o)
        \/ \E on : FillIn(on) \/ Execute(on)
        \/ Retry \/ CloseMutation \/ Succeed \/ Fail
        \/ UNCHANGED mutation
    BY <1>2
       DEF RDNext, MutationStep, Offered, Visible, MutationAnswered,
           MutationSucceeds, drawerVars, TypeInv, WorldTypeOK
  <2> DEFINE A == Actions(drawer.name)
  <2>3. mutation \in Dialogs(A, Objects) \union {Closed}
    BY <1>2 DEF DialogTypeOK
  <2>4. \/ \E a \in A, o \in Objects : OpenMutation(a, o)
        \/ \E on : FillIn(on) \/ Execute(on)
        \/ Retry \/ CloseMutation \/ Succeed \/ Fail
        \/ UNCHANGED mutation
    BY <2>2
  <2> HIDE DEF A
  <2>5. mutation' \in Dialogs(A, Objects) \union {Closed}
    BY <2>3, <2>4, OpenDialogTypes
  <2> QED
    BY <2>1, <2>5 DEF A, DialogTypeOK
<1> QED
  BY <1>1, <1>2, TypesHold, PTL DEF RDSpec

\* Every variable of a drawer, of its YAML dialog and of its actions' dialog
\* keeps its type, for every drawer of the catalog: in particular, the tab
\* that is shown is one of its tabs, and the action one it offers.
THEOREM DrawerTypeCorrect == RDSpec => []RDTypeOK
<1>1. TypeInv /\ VettedInv /\ DialogTypeOK => RDTypeOK
  BY DEF DialogTypeOK, TypeInv, ViewTypeOK, WorldTypeOK, VettedInv, RDTypeOK
<1> QED
  BY <1>1, TypesHold, VettedHolds, DialogTypesHold, PTL

=============================================================================
