--------------------------- MODULE WorkspaceProofs ---------------------------
(***************************************************************************)
(* Theorems about Workspace and the Connection it EXTENDS, for every set   *)
(* of contexts, namespaces and sections, and for every value of the bounds.*)
(*                                                                         *)
(* OfflineHasReason is inductive by itself.  OneContext is not: while a    *)
(* task is under way nothing has to agree, so that the invariant below     *)
(* says what each phase of a task has already made agree.  What is said of *)
(* the recent namespaces rests on what Without leaves of a list, which is  *)
(* proved by induction along the list.                                     *)
(***************************************************************************)
EXTENDS Workspace, SequenceTheorems, WellFoundedInduction, TLAPS

-----------------------------------------------------------------------------
(* The health of the connection.                                           *)

LEMMA ApiEndKeepsReason ==
  ASSUME OfflineHasReason, NEW how, ApiEnd(how)
  PROVE  OfflineHasReason'
<1> USE ConnectionBoundsAssumption DEF IssueKinds
<1>1. CASE NotifyApiSuccess
  BY <1>1 DEF NotifyApiSuccess, RecomputeHealth, OfflineHasReason
<1>2. CASE UNCHANGED healthVars
  BY <1>2 DEF healthVars, OfflineHasReason
<1>3. ASSUME NEW kind \in {"request", "backend"}, NotifyApiFailure(kind)
      PROVE  OfflineHasReason'
  BY <1>3 DEF NotifyApiFailure, OfflineHasReason
<1> QED
  BY <1>1, <1>2, <1>3 DEF ApiEnd

LEMMA StatusAnswerKeepsReason ==
  ASSUME OfflineHasReason, StatusAnswered
  PROVE  OfflineHasReason'
<1> USE ConnectionBoundsAssumption DEF IssueKinds
<1>1. ASSUME NEW status, NotifyStatus(status)
      PROVE  OfflineHasReason'
  BY <1>1 DEF NotifyStatus, RecomputeHealth, OfflineHasReason
<1>2. ASSUME NEW kind \in {"request", "backend"}, NotifyApiFailure(kind)
      PROVE  OfflineHasReason'
  BY <1>2 DEF NotifyApiFailure, OfflineHasReason
<1> QED
  BY <1>1, <1>2 DEF StatusAnswered

\* Whatever calls and polls report, in whatever order: the interface is
\* offline exactly when the backend or the cluster is believed lost, and the
\* banner has the right one to blame.
THEOREM OfflineReason == WSSpec => []OfflineHasReason
<1>1. WSInit => OfflineHasReason
  BY ConnectionBoundsAssumption
     DEF WSInit, ConnectionInit, OfflineHasReason, IssueKinds
<1>2. ASSUME OfflineHasReason, [WSNext]_workspaceVars
      PROVE  OfflineHasReason'
  <2> SUFFICES ASSUME UNCHANGED healthVars
               PROVE  OfflineHasReason'
    <3>1. CASE TaskStep
      BY <1>2, <3>1, ApiEndKeepsReason
         DEF TaskStep, ContextsRead, ContextSelected, ContextsRefreshed,
             NamespacesRead, NamespacesDenied, TaskFails, CallEnds,
             connectionVars
    <3>2. CASE Reload
      BY <3>2, ConnectionBoundsAssumption
         DEF Reload, OfflineHasReason, IssueKinds
    <3>3. CASE ConnectionStep
      BY <1>2, <3>3, ApiEndKeepsReason, StatusAnswerKeepsReason
         DEF ConnectionStep, Watch, RequestConnectionRetry, IntervalPasses,
             StatusTaken, OtherCallEnds, BackendChanges, ClusterChanges
    <3>4. CASE UserStep
      BY <3>4 DEF UserStep
    <3>5. CASE UNCHANGED workspaceVars
      BY <3>5 DEF workspaceVars, connectionVars
    <3> QED
      BY <1>2, <3>1, <3>2, <3>3, <3>4, <3>5
         DEF WSNext, SelectContext, SelectNamespace, SelectSection, Navigate,
             ToggleFavourite, Retry
  <2> QED
    BY <1>2 DEF healthVars, OfflineHasReason
<1> QED
  BY <1>1, <1>2, PTL DEF WSSpec

-----------------------------------------------------------------------------
(* One context.                                                            *)

\* appState is a record of its five fields, a task of its four.
AppState(s) ==
  s = [context |-> s.context, namespace |-> s.namespace,
       section |-> s.section, favourites |-> s.favourites,
       recent |-> s.recent]

ATask(t) ==
  /\ t = [op |-> t.op, context |-> t.context, preferred |-> t.preferred,
          left |-> t.left]
  /\ t.op \in {"bootstrap", "switch"}

Starting == {"contexts", "context", "migration", "namespaces"}

\* What each phase of a task has made agree: the context from the selection
\* on; and a switch leaves the section as it was stored.
AgreementInv ==
  /\ AppState(stored)
  /\ phase \in Starting => ATask(task)
  /\ phase \in {"migration", "namespaces"} =>
       /\ task.context \in configured
       /\ selected = task.context
       /\ activeContext = task.context
  /\ phase \in Starting /\ task.op = "switch" => stored.section = section
  /\ OneContext

\* A namespace that is recorded changes the recent ones only.
LEMMA RecordKeeps ==
  ASSUME NEW s, AppState(s), NEW c, NEW n
  PROVE  LET r == RecordRecentNamespace(s, c, n)
         IN  /\ AppState(r)
             /\ r.context = s.context /\ r.namespace = s.namespace
             /\ r.section = s.section /\ r.favourites = s.favourites
BY DEF RecordRecentNamespace, AppState

LEMMA WithNamespaceKeeps ==
  ASSUME NEW s, AppState(s), NEW n
  PROVE  LET r == WithNamespace(s, n)
         IN  /\ AppState(r)
             /\ r.context = s.context /\ r.namespace = n
             /\ r.section = s.section /\ r.favourites = s.favourites
<1> DEFINE t == [s EXCEPT !.namespace = n]
<1>1. /\ AppState(t) /\ t.context = s.context /\ t.namespace = n
      /\ t.section = s.section /\ t.favourites = s.favourites
  BY DEF AppState
<1>2. WithNamespace(s, n) = RecordRecentNamespace(t, activeContext, n)
  BY DEF WithNamespace
<1> HIDE DEF t
<1> QED
  BY <1>1, <1>2, RecordKeeps

Updated(s, c, n, x) ==
  [s EXCEPT !.context = c, !.namespace = n, !.section = x]

LEMMA UpdateKeeps ==
  ASSUME NEW s, AppState(s), NEW c, NEW n, NEW x
  PROVE  LET r == Updated(s, c, n, x)
         IN  /\ AppState(r)
             /\ r.context = c /\ r.namespace = n
             /\ r.section = x /\ r.favourites = s.favourites
<1> DEFINE r == Updated(s, c, n, x)
           f == [context |-> c, namespace |-> n, section |-> x,
                 favourites |-> s.favourites, recent |-> s.recent]
           fields == {"context", "namespace", "section", "favourites", "recent"}
<1>1. DOMAIN s = fields
  BY DEF AppState
<1>2. r = [i \in fields |-> r[i]]
  BY <1>1 DEF Updated
<1>3. /\ r.context = c /\ r.namespace = n /\ r.section = x
      /\ r.favourites = s.favourites /\ r.recent = s.recent
  BY <1>1 DEF Updated
<1> HIDE DEF r
<1>4. r = f
  BY <1>2, <1>3
<1>5. AppState(r)
  BY <1>3, <1>4 DEF AppState
<1> QED
  BY <1>3, <1>5 DEF r

LEMMA FinishAgrees ==
  ASSUME AgreementInv, phase = "namespaces", NEW list,
         list.of = task.context, Finish(list),
         UNCHANGED <<configured, selected>>
  PROVE  AgreementInv'
<1> PICK n \in PickNamespace(list, task.preferred) :
      /\ namespaces' = list
      /\ namespace' = n
      /\ favourites' = stored.favourites[task.context]
      /\ stored' = RecordRecentNamespace(
           [stored EXCEPT
              !.context = task.context,
              !.namespace = IF task.op = "bootstrap"
                            THEN Or(n, stored.namespace) ELSE n,
              !.section = IF task.op = "bootstrap"
                          THEN Or(stored.section, HomeSection)
                          ELSE stored.section],
           task.context, n)
      /\ section' = IF task.op = "bootstrap"
                    THEN Or(stored.section, HomeSection) ELSE section
      /\ phase' = "ready" /\ task' = None
      /\ UNCHANGED activeContext
  BY DEF Finish
<1> DEFINE m == IF task.op = "bootstrap" THEN Or(n, stored.namespace) ELSE n
           x == IF task.op = "bootstrap" THEN Or(stored.section, HomeSection)
                ELSE stored.section
           t == Updated(stored, task.context, m, x)
<1>1. AppState(stored)
  BY DEF AgreementInv
<1> HIDE DEF m, x
<1>2. /\ AppState(t)
      /\ t.context = task.context /\ t.namespace = m /\ t.section = x
      /\ t.favourites = stored.favourites
  BY <1>1, UpdateKeeps
<1>3. stored' = RecordRecentNamespace(t, task.context, n)
  BY DEF Updated, m, x
<1> HIDE DEF t
<1>4. /\ AppState(stored')
      /\ stored'.context = task.context
      /\ stored'.namespace = m
      /\ stored'.section = x
      /\ stored'.favourites = stored.favourites
  BY <1>3, <1>2, RecordKeeps
<1>5. ATask(task)
  BY DEF AgreementInv, Starting
<1>6. section' = stored'.section
  BY <1>4, <1>5 DEF ATask, AgreementInv, Starting, x
<1>7. stored'.namespace = namespace' \/ namespace' = None
  BY <1>4 DEF Or, m
<1>8. OneContext'
  BY <1>4, <1>6, <1>7 DEF AgreementInv, OneContext
<1> QED
  BY <1>4, <1>8 DEF AgreementInv, Starting

LEMMA TaskStepAgrees ==
  ASSUME AgreementInv, TaskStep
  PROVE  AgreementInv'
<1>1. CASE ContextsRead
  <2>1. CASE configured = {}
    BY <1>1, <2>1 DEF ContextsRead, NoContext, AgreementInv, Starting,
                      OneContext
  <2>2. CASE configured # {}
    BY <1>1, <2>2 DEF ContextsRead, AgreementInv, Starting, OneContext,
                      viewVars, ATask
  <2> QED
    BY <2>1, <2>2
<1>2. CASE ContextSelected
  BY <1>2 DEF ContextSelected, AgreementInv, Starting, OneContext, ATask
<1>3. CASE ContextsRefreshed
  BY <1>3 DEF ContextsRefreshed, AgreementInv, Starting, OneContext, viewVars
<1>4. CASE NamespacesRead
  <2> PICK items \in SUBSET Namespaces :
        LET list == [of |-> task.context, items |-> items, limited |-> FALSE]
        IN  \/ items = {} /\ WarmUp
            \/ (items # {} \/ task.left = 0) /\ Finish(list)
    BY <1>4 DEF NamespacesRead
  <2>1. phase = "namespaces" /\ UNCHANGED <<configured, selected>>
    BY <1>4 DEF NamespacesRead
  <2>2. ATask(task)
    BY <2>1 DEF AgreementInv, Starting
  <2>3. CASE WarmUp
    BY <2>1, <2>2, <2>3
       DEF WarmUp, AgreementInv, Starting, OneContext, viewVars, ATask
  <2>4. CASE Finish([of |-> task.context, items |-> items, limited |-> FALSE])
    BY <2>1, <2>2, <2>4, FinishAgrees
  <2> QED
    BY <2>3, <2>4
<1>5. CASE NamespacesDenied
  <2>1. /\ phase = "namespaces" /\ UNCHANGED <<configured, selected>>
        /\ Finish([of |-> task.context, items |-> {}, limited |-> TRUE])
    BY <1>5 DEF NamespacesDenied
  <2>2. ATask(task)
    BY <2>1 DEF AgreementInv, Starting
  <2> QED
    BY <2>1, <2>2, FinishAgrees
<1>6. CASE TaskFails
  BY <1>6 DEF TaskFails, AgreementInv, Starting, OneContext, viewVars
<1> QED
  BY <1>1, <1>2, <1>3, <1>4, <1>5, <1>6 DEF TaskStep

LEMMA UserStepAgrees ==
  ASSUME AgreementInv, phase = "ready", UserStep,
         \/ \E c \in Contexts : SelectContext(c)
         \/ \E n \in MaybeNamespace : SelectNamespace(n)
         \/ \E s \in Sections : SelectSection(s)
         \/ \E n \in Namespaces, s \in Sections : Navigate(n, s)
         \/ \E n \in Namespaces : ToggleFavourite(n)
  PROVE  AgreementInv'
<1>1. /\ AppState(stored)
      /\ OneContext
      /\ activeContext \in configured /\ selected = activeContext
      /\ stored.context = activeContext /\ namespaces.of = activeContext
      /\ favourites = stored.favourites[activeContext]
      /\ stored.section = section
      /\ stored.namespace = namespace \/ namespace = None
  BY DEF AgreementInv, OneContext
<1>2. UNCHANGED <<configured, selected>>
  BY DEF UserStep
<1>3. ASSUME NEW c \in Contexts, SelectContext(c)
      PROVE  AgreementInv'
  BY <1>1, <1>2, <1>3
     DEF SelectContext, AgreementInv, Starting, ATask, OneContext, viewVars
<1>4. ASSUME NEW n \in MaybeNamespace, SelectNamespace(n)
      PROVE  AgreementInv'
  <2>1. /\ AppState(stored') /\ stored'.context = stored.context
        /\ stored'.namespace = n /\ stored'.section = stored.section
        /\ stored'.favourites = stored.favourites
    BY <1>1, <1>4, WithNamespaceKeeps DEF SelectNamespace
  <2> QED
    BY <1>1, <1>2, <1>4, <2>1
       DEF SelectNamespace, AgreementInv, Starting, OneContext
<1>5. ASSUME NEW s \in Sections, SelectSection(s)
      PROVE  AgreementInv'
  <2>1. /\ AppState(stored') /\ stored'.context = stored.context
        /\ stored'.namespace = stored.namespace /\ stored'.section = s
        /\ stored'.favourites = stored.favourites
    BY <1>1, <1>5 DEF SelectSection, AppState
  <2> QED
    BY <1>1, <1>2, <1>5, <2>1
       DEF SelectSection, AgreementInv, Starting, OneContext
<1>6. ASSUME NEW n \in Namespaces, NEW s \in Sections, Navigate(n, s)
      PROVE  AgreementInv'
  <2> DEFINE r == WithNamespace(stored, n)
  <2>1. /\ AppState(r) /\ r.context = stored.context
        /\ r.namespace = n /\ r.favourites = stored.favourites
    BY <1>1, WithNamespaceKeeps
  <2>2. stored' = [r EXCEPT !.section = s]
    BY <1>6 DEF Navigate
  <2> HIDE DEF r
  <2>3. /\ AppState(stored') /\ stored'.context = stored.context
        /\ stored'.namespace = n /\ stored'.section = s
        /\ stored'.favourites = stored.favourites
    BY <2>1, <2>2 DEF AppState
  <2> QED
    BY <1>1, <1>2, <1>6, <2>3
       DEF Navigate, AgreementInv, Starting, OneContext
<1>7. ASSUME NEW n \in Namespaces, ToggleFavourite(n)
      PROVE  AgreementInv'
  <2>1. /\ AppState(stored') /\ stored'.context = stored.context
        /\ stored'.namespace = stored.namespace
        /\ stored'.section = stored.section
    BY <1>1, <1>7
       DEF ToggleFavourite, ToggleFavouriteNamespace, AppState
  <2> QED
    BY <1>1, <1>2, <1>7, <2>1
       DEF ToggleFavourite, AgreementInv, Starting, OneContext
<1> QED
  BY <1>3, <1>4, <1>5, <1>6, <1>7

LEMMA AgreementHolds == WSSpec => []AgreementInv
<1>1. WSInit => AgreementInv
  <2> SUFFICES ASSUME WSInit PROVE AgreementInv
    OBVIOUS
  <2>1. AppState(NothingStored)
    BY DEF AppState, NothingStored
  <2>2. \A s \in LeftBehind : AppState(s)
    BY DEF LeftBehind, AppState
  <2> QED
    BY <2>1, <2>2
       DEF WSInit, AgreementInv, Starting, ATask, Bootstrap, OneContext
<1>2. ASSUME AgreementInv, [WSNext]_workspaceVars
      PROVE  AgreementInv'
  <2>1. CASE TaskStep
    BY <1>2, <2>1, TaskStepAgrees
  <2>2. CASE \/ \E c \in Contexts : SelectContext(c)
             \/ \E n \in MaybeNamespace : SelectNamespace(n)
             \/ \E s \in Sections : SelectSection(s)
             \/ \E n \in Namespaces, s \in Sections : Navigate(n, s)
             \/ \E n \in Namespaces : ToggleFavourite(n)
    <3>1. Usable /\ UserStep
      BY <2>2 DEF SelectContext, SelectNamespace, SelectSection, Navigate,
                  ToggleFavourite
    <3> QED
      BY <1>2, <2>2, <3>1, UserStepAgrees DEF Usable
  <2>3. CASE Retry
    BY <1>2, <2>3
       DEF Retry, UserStep, viewVars, AgreementInv, Starting, ATask,
           Bootstrap, OneContext
  <2>4. CASE Reload
    BY <1>2, <2>4
       DEF Reload, AgreementInv, Starting, ATask, Bootstrap, OneContext
  <2>5. CASE UNCHANGED workVars
    BY <1>2, <2>5
       DEF workVars, viewVars, AgreementInv, Starting, OneContext
  <2> QED
    BY <1>2, <2>1, <2>2, <2>3, <2>4, <2>5
       DEF WSNext, ConnectionStep, workspaceVars
<1> QED
  BY <1>1, <1>2, PTL DEF WSSpec

\* Whenever the user can work, the context of the requests, of the server, of
\* the stored state, of the namespaces and of the favourites is one, however
\* switches failed half-way and whatever was retried or loaded again.
THEOREM OneContextAtATime == WSSpec => []OneContext
<1>1. AgreementInv => OneContext
  BY DEF AgreementInv
<1> QED
  BY <1>1, AgreementHolds, PTL

\* No task, of any number of warming-up attempts, ends in a namespace that
\* the context is known not to have.
THEOREM KnownNamespace == WSSpec => EndsInKnownNamespace
<1>1. ASSUME [WSNext]_workspaceVars, phase # "ready", phase' = "ready"
      PROVE  \/ namespaces'.limited
             \/ namespace' \in namespaces'.items
             \/ namespaces'.items = {} /\ namespace' = None
  <2>1. ASSUME NEW items, NEW limited,
               Finish([of |-> task.context, items |-> items,
                       limited |-> limited])
        PROVE  \/ namespaces'.limited
               \/ namespace' \in namespaces'.items
               \/ namespaces'.items = {} /\ namespace' = None
    BY <2>1 DEF Finish, PickNamespace
  <2>2. NamespacesRead \/ NamespacesDenied
    BY <1>1
       DEF WSNext, TaskStep, ContextsRead, NoContext, ContextSelected,
           ContextsRefreshed, TaskFails, SelectContext, SelectNamespace,
           SelectSection, Navigate, ToggleFavourite, Retry, Reload, Usable,
           ConnectionStep, workspaceVars, workVars
  <2>3. ~WarmUp
    BY <1>1 DEF WarmUp
  <2> QED
    BY <2>1, <2>2, <2>3 DEF NamespacesRead, NamespacesDenied
<1> QED
  BY <1>1, PTL DEF WSSpec, EndsInKnownNamespace
-----------------------------------------------------------------------------
(* The recent namespaces.                                                  *)

\* A set of numbers with 0, and with the successor of each up to k.  (The
\* library's induction theorems take a predicate, of which no backend knows
\* what to do; the least counterexample serves as well.)
LEMMA Induction ==
  ASSUME NEW k \in Nat, NEW T, 0 \in T,
         \A i \in 1..k : i - 1 \in T => i \in T
  PROVE  0..k \subseteq T
<1> DEFINE M == {i \in 0..k : i \notin T}
<1> SUFFICES ASSUME M # {} PROVE FALSE
  OBVIOUS
<1>1. M \subseteq Nat
  OBVIOUS
<1>2. PICK x \in M : \A y \in M : ~(<<y, x>> \in OpToRel(<, Nat))
  BY <1>1, NatLessThanWellFounded, WFMin
<1>3. x \in 1..k /\ x - 1 \in 0..k
  OBVIOUS
<1>4. <<x - 1, x>> \in OpToRel(<, Nat)
  BY <1>3 DEF OpToRel
<1> QED
  BY <1>2, <1>3, <1>4

\* One step along the list, and a function that makes the first k of them.
Kept(ns, n, i, w) == IF ns[i] = n THEN w ELSE Append(w, ns[i])
Filters(f, ns, n, k) ==
  f = [i \in 0..k |-> IF i = 0 THEN << >> ELSE Kept(ns, n, i, f[i - 1])]

LEMMA FilterExists ==
  ASSUME NEW ns, NEW n, NEW k \in Nat
  PROVE  \E f : Filters(f, ns, n, k)
<1> DEFINE T == {j \in 0..k : \E f : Filters(f, ns, n, j)}
<1>1. 0 \in T
  <2>1. Filters([i \in 0..0 |-> << >>], ns, n, 0)
    BY DEF Filters
  <2> QED
    BY <2>1
<1>2. ASSUME NEW j \in 1..k, j - 1 \in T
      PROVE  j \in T
  <2>1. PICK f : Filters(f, ns, n, j - 1)
    BY <1>2
  <2> DEFINE g == [i \in 0..j |->
                     IF i = 0 THEN << >> ELSE Kept(ns, n, i, f[i - 1])]
  <2>2. \A i \in 0..(j - 1) : f[i] = g[i]
    BY <2>1 DEF Filters
  <2>3. \A i \in 1..j : f[i - 1] = g[i - 1]
    <3> TAKE i \in 1..j
    <3>1. i - 1 \in 0..(j - 1)
      OBVIOUS
    <3> HIDE DEF g
    <3> QED
      BY <3>1, <2>2
  <2>4. Filters(g, ns, n, j)
    <3> DEFINE F(i) == IF i = 0 THEN << >> ELSE Kept(ns, n, i, f[i - 1])
               G(i) == IF i = 0 THEN << >> ELSE Kept(ns, n, i, g[i - 1])
    <3>1. \A i \in 0..j : F(i) = G(i)
      <4> TAKE i \in 0..j
      <4>1. CASE i = 0
        BY <4>1
      <4>2. CASE i \in 1..j
        <5> HIDE DEF g
        <5> QED
          BY <4>2, <2>3
      <4> QED
        BY <4>1, <4>2
    <3>2. g = [i \in 0..j |-> F(i)]
      OBVIOUS
    <3> HIDE DEF g, F, G
    <3>3. g = [i \in 0..j |-> G(i)]
      BY <3>1, <3>2
    <3> QED
      BY <3>3 DEF Filters, G
  <2> QED
    BY <2>4
<1>3. 0..k \subseteq T
  BY <1>1, <1>2, Induction
<1> QED
  BY <1>3

\* So that Without, which chooses a function, has one to choose.
LEMMA WithoutFilters ==
  ASSUME NEW S, NEW ns \in Seq(S), NEW n
  PROVE  \E f : Filters(f, ns, n, Len(ns)) /\ Without(ns, n) = f[Len(ns)]
<1> DEFINE f == CHOOSE f : f = [i \in 0..Len(ns) |->
                  IF i = 0 THEN << >>
                  ELSE IF ns[i] = n THEN f[i - 1]
                  ELSE Append(f[i - 1], ns[i])]
<1>1. Without(ns, n) = f[Len(ns)]
  BY DEF Without
<1>2. \E g : Filters(g, ns, n, Len(ns))
  <2>1. Len(ns) \in Nat
    BY LenProperties
  <2> QED
    BY <2>1, FilterExists
<1>3. Filters(f, ns, n, Len(ns))
  BY <1>2 DEF Filters, Kept
<1> QED
  BY <1>1, <1>3

\* Of the first k elements of ns, w is what Without should leave.
Leaves(S, ns, n, k, w) ==
  /\ w \in Seq(S) /\ Len(w) =< k
  /\ \A i \in 1..Len(w) : w[i] # n /\ \E j \in 1..k : w[i] = ns[j]
  /\ Distinct(ns) => \A i, j \in 1..Len(w) : w[i] = w[j] => i = j

\* The element after them is dropped, or is one more.
LEMMA LeavesNext ==
  ASSUME NEW S, NEW ns \in Seq(S), NEW n, NEW k \in 1..Len(ns),
         NEW v, Leaves(S, ns, n, k - 1, v)
  PROVE  Leaves(S, ns, n, k, Kept(ns, n, k, v))
<1>1. /\ Len(ns) \in Nat /\ DOMAIN ns = 1..Len(ns)
      /\ \A i \in 1..Len(ns) : ns[i] \in S
  BY LenProperties, ElementOfSeq
<1> DEFINE w == Kept(ns, n, k, v)
<1>2. CASE ns[k] = n
  <2>1. w = v
    BY <1>2 DEF Kept
  <2> HIDE DEF w
  <2> QED
    BY <2>1, <1>1 DEF Leaves, w
<1>3. CASE ns[k] # n
  <2>1. w = Append(v, ns[k])
    BY <1>3 DEF Kept
  <2> HIDE DEF w
  <2>2. /\ w \in Seq(S) /\ Len(w) = Len(v) + 1
        /\ \A i \in 1..Len(v) : w[i] = v[i]
        /\ w[Len(v) + 1] = ns[k]
    BY <2>1, <1>1, AppendProperties DEF Leaves
  <2>3. Len(v) \in Nat
    BY LenProperties DEF Leaves
  <2>4. Len(w) =< k
    BY <2>2, <2>3, <1>1 DEF Leaves
  <2>5. \A i \in 1..Len(w) : w[i] # n /\ \E j \in 1..k : w[i] = ns[j]
    BY <2>2, <2>3, <1>3, <1>1 DEF Leaves
  <2>6. ASSUME Distinct(ns), NEW i \in 1..Len(w), NEW j \in 1..Len(w),
               w[i] = w[j]
        PROVE  i = j
    <3>1. ASSUME NEW h \in 1..Len(v)
          PROVE  v[h] # ns[k]
      <4>1. PICK m \in 1..(k - 1) : v[h] = ns[m]
        BY <3>1 DEF Leaves
      <4> QED
        BY <4>1, <2>6, <1>1 DEF Distinct
    <3> QED
      BY <2>2, <2>3, <2>6, <3>1 DEF Leaves
  <2> QED
    BY <2>2, <2>4, <2>5, <2>6 DEF Leaves, w
<1> QED
  BY <1>2, <1>3

\* What filter leaves: elements of the list in a list that is not longer,
\* n not among them, and none twice if none was.
LEMMA WithoutLeaves ==
  ASSUME NEW S, NEW ns \in Seq(S), NEW n
  PROVE  Leaves(S, ns, n, Len(ns), Without(ns, n))
<1>1. PICK f : Filters(f, ns, n, Len(ns)) /\ Without(ns, n) = f[Len(ns)]
  BY WithoutFilters
<1>2. Len(ns) \in Nat
  BY LenProperties
<1> DEFINE T == {k \in 0..Len(ns) : Leaves(S, ns, n, k, f[k])}
<1>3. \A k \in 0..Len(ns) :
        f[k] = IF k = 0 THEN << >> ELSE Kept(ns, n, k, f[k - 1])
  BY <1>1 DEF Filters
<1>4. 0 \in T
  <2>1. Leaves(S, ns, n, 0, << >>)
    BY DEF Leaves
  <2>2. f[0] = << >>
    BY <1>2, <1>3
  <2> QED
    BY <2>1, <2>2, <1>2
<1>5. ASSUME NEW k \in 1..Len(ns), k - 1 \in T
      PROVE  k \in T
  <2>1. f[k] = Kept(ns, n, k, f[k - 1])
    BY <1>2, <1>3
  <2>2. Leaves(S, ns, n, k, Kept(ns, n, k, f[k - 1]))
    BY <1>5, LeavesNext
  <2> QED
    BY <2>1, <2>2, <1>2
<1> HIDE DEF T
<1>6. 0..Len(ns) \subseteq T
  BY <1>2, <1>4, <1>5, Induction
<1>7. Len(ns) \in T
  BY <1>2, <1>6
<1> QED
  BY <1>1, <1>7 DEF T

\* The lists that appState may hold are those of at most MaxRecent names.
LEMMA RecentLists ==
  UNION {[1..k -> Namespaces] : k \in 0..MaxRecent}
    = {q \in Seq(Namespaces) : Len(q) =< MaxRecent}
<1> USE WorkspaceAssumption
<1>1. ASSUME NEW k \in 0..MaxRecent, NEW q \in [1..k -> Namespaces]
      PROVE  q \in Seq(Namespaces) /\ Len(q) =< MaxRecent
  <2>1. q \in Seq(Namespaces) /\ Len(q) = k
    OBVIOUS
  <2> QED
    BY <2>1
<1>2. ASSUME NEW q \in Seq(Namespaces), Len(q) =< MaxRecent
      PROVE  \E k \in 0..MaxRecent : q \in [1..k -> Namespaces]
  <2>1. Len(q) \in 0..MaxRecent /\ q \in [1..Len(q) -> Namespaces]
    BY <1>2, LenProperties
  <2> QED
    BY <2>1
<1> QED
  BY <1>1, <1>2

\* The new list of a context: n, the others, and the end cut off.
Recorded(ns, n) ==
  LET all == <<n>> \o Without(ns, n)
  IN  IF Len(all) > MaxRecent THEN SubSeq(all, 1, MaxRecent) ELSE all

LEMMA RecordedLists ==
  ASSUME NEW ns \in Seq(Namespaces), NEW n \in Namespaces
  PROVE  LET r == Recorded(ns, n)
         IN  /\ r \in Seq(Namespaces) /\ Len(r) =< MaxRecent
             /\ r # << >> /\ Head(r) = n
             /\ Distinct(ns) => Distinct(r)
<1> DEFINE w == Without(ns, n)
           all == <<n>> \o w
           r == Recorded(ns, n)
<1>1. /\ w \in Seq(Namespaces) /\ Len(w) \in Nat
      /\ \A i \in 1..Len(w) : w[i] # n
      /\ Distinct(ns) => \A i, j \in 1..Len(w) : w[i] = w[j] => i = j
  BY WithoutLeaves, LenProperties DEF Leaves
<1> HIDE DEF w
<1>2. /\ all \in Seq(Namespaces) /\ Len(all) = Len(w) + 1
      /\ all[1] = n /\ \A i \in 2..Len(all) : all[i] = w[i - 1]
  BY <1>1
<1>3. Distinct(ns) => \A i, j \in 1..Len(all) : all[i] = all[j] => i = j
  <2> SUFFICES ASSUME Distinct(ns), NEW i \in 1..Len(all),
                      NEW j \in 1..Len(all), all[i] = all[j]
               PROVE  i = j
    OBVIOUS
  <2>1. CASE i = 1 \/ j = 1
    BY <2>1, <1>1, <1>2
  <2>2. CASE i # 1 /\ j # 1
    <3>1. i - 1 \in 1..Len(w) /\ j - 1 \in 1..Len(w)
      BY <2>2, <1>1, <1>2
    <3>2. w[i - 1] = w[j - 1]
      BY <2>2, <1>1, <1>2
    <3> QED
      BY <3>1, <3>2, <1>1
  <2> QED
    BY <2>1, <2>2
<1> DEFINE m == IF Len(all) > MaxRecent THEN MaxRecent ELSE Len(all)
<1>4. r = IF Len(all) > MaxRecent THEN SubSeq(all, 1, MaxRecent) ELSE all
  BY DEF Recorded, w
<1> HIDE DEF all, r
<1>5. /\ m \in 1..Len(all) /\ m =< MaxRecent
      /\ r \in Seq(Namespaces) /\ Len(r) = m
      /\ \A i \in 1..m : r[i] = all[i]
  BY <1>1, <1>2, <1>4, WorkspaceAssumption
<1> HIDE DEF m
<1>6. r # << >> /\ Head(r) = n
  BY <1>2, <1>5
<1>7. Distinct(ns) => Distinct(r)
  <2>1. DOMAIN r = 1..m
    BY <1>5
  <2> QED
    BY <2>1, <1>3, <1>5 DEF Distinct
<1> QED
  BY <1>5, <1>6, <1>7, WorkspaceAssumption DEF r

\* RecordRecentNamespace keeps what appState may be and repeats no name, and
\* then the context's list is headed by the namespace.
LEMMA RecordHeads ==
  ASSUME NEW s \in AppStates, NEW c \in Contexts \union {None},
         NEW n \in MaybeNamespace
  PROVE  LET r == RecordRecentNamespace(s, c, n)
         IN  /\ r \in AppStates
             /\ (\A d \in Contexts : Distinct(s.recent[d]))
                  => \A d \in Contexts : Distinct(r.recent[d])
             /\ c # None /\ n # None =>
                  r.recent[c] # << >> /\ Head(r.recent[c]) = n
<1> DEFINE r == RecordRecentNamespace(s, c, n)
<1>1. CASE c = None \/ n = None
  BY <1>1 DEF RecordRecentNamespace
<1>2. CASE c # None /\ n # None
  <2> DEFINE q == Recorded(s.recent[c], n)
             R == {p \in Seq(Namespaces) : Len(p) =< MaxRecent}
  <2>1. s.recent \in [Contexts -> R]
    BY RecentLists DEF AppStates
  <2>2. s.recent[c] \in Seq(Namespaces) /\ c \in Contexts /\ n \in Namespaces
    BY <1>2, <2>1 DEF MaybeNamespace
  <2>3. /\ q \in R /\ q # << >> /\ Head(q) = n
        /\ Distinct(s.recent[c]) => Distinct(q)
    BY <2>2, RecordedLists
  <2>4. r = [s EXCEPT !.recent = [s.recent EXCEPT ![c] = q]]
    BY <1>2 DEF RecordRecentNamespace, Recorded
  <2> HIDE DEF q, r, R
  <2>5. [s.recent EXCEPT ![c] = q] \in [Contexts -> R]
    BY <2>1, <2>3
  <2>6. r \in AppStates /\ r.recent = [s.recent EXCEPT ![c] = q]
    BY <2>4, <2>5, RecentLists DEF AppStates, R
  <2>7. \A d \in Contexts : r.recent[d] = IF d = c THEN q ELSE s.recent[d]
    BY <2>1, <2>6
  <2> QED
    BY <2>2, <2>3, <2>6, <2>7 DEF r
<1> QED
  BY <1>1, <1>2

-----------------------------------------------------------------------------
(* The types of the workspace, and its recent namespaces.                  *)

\* The types of what is not the connection's; and the recent namespaces.
WorkTypeOK ==
  /\ configured \subseteq Contexts
  /\ selected \in Contexts \union {None}
  /\ stored \in AppStates
  /\ phase \in Phases
  /\ task \in Tasks \union {None}
  /\ activeContext \in Contexts \union {None}
  /\ namespaces \in Lists
  /\ namespace \in MaybeNamespace
  /\ section \in Sections
  /\ favourites \subseteq Namespaces

RecentInv ==
  /\ WorkTypeOK
  /\ phase \in Starting => task \in Tasks
  /\ RecentFirst
  /\ RecentDistinct

LEMMA FinishRecords ==
  ASSUME AgreementInv, RecentInv, phase = "namespaces", NEW list \in Lists,
         list.of = task.context, Finish(list),
         UNCHANGED <<configured, selected>>
  PROVE  RecentInv'
<1>0. PICK n \in PickNamespace(list, task.preferred) :
      /\ namespaces' = list
      /\ namespace' = n
      /\ favourites' = stored.favourites[task.context]
      /\ stored' = RecordRecentNamespace(
           [stored EXCEPT
              !.context = task.context,
              !.namespace = IF task.op = "bootstrap"
                            THEN Or(n, stored.namespace) ELSE n,
              !.section = IF task.op = "bootstrap"
                          THEN Or(stored.section, HomeSection)
                          ELSE stored.section],
           task.context, n)
      /\ section' = IF task.op = "bootstrap"
                    THEN Or(stored.section, HomeSection) ELSE section
      /\ phase' = "ready" /\ task' = None
      /\ UNCHANGED activeContext
  BY DEF Finish
<1>1. task \in Tasks /\ WorkTypeOK
  BY DEF RecentInv, Starting
<1>2. /\ task.context \in configured /\ activeContext = task.context
      /\ task.context \in Contexts
  BY <1>1 DEF AgreementInv, WorkTypeOK
<1>3. n \in MaybeNamespace
  BY <1>0, <1>1 DEF PickNamespace, Tasks, Lists, MaybeNamespace
<1> DEFINE t == [stored EXCEPT
              !.context = task.context,
              !.namespace = IF task.op = "bootstrap"
                            THEN Or(n, stored.namespace) ELSE n,
              !.section = IF task.op = "bootstrap"
                          THEN Or(stored.section, HomeSection)
                          ELSE stored.section]
<1>4. t \in AppStates /\ t.recent = stored.recent
  BY <1>1, <1>2, <1>3, WorkspaceAssumption
     DEF WorkTypeOK, AppStates, MaybeNamespace, Or
<1>5. stored' = RecordRecentNamespace(t, task.context, n)
  BY <1>0
<1> HIDE DEF t
<1>6. /\ stored' \in AppStates
      /\ (\A d \in Contexts : Distinct(t.recent[d]))
           => \A d \in Contexts : Distinct(stored'.recent[d])
      /\ task.context # None /\ n # None =>
           /\ stored'.recent[task.context] # << >>
           /\ Head(stored'.recent[task.context]) = n
  BY <1>2, <1>3, <1>4, <1>5, RecordHeads
<1>7. task.context # None
  BY <1>2, ConnectionBoundsAssumption
<1>8. RecentFirst'
  BY <1>0, <1>2, <1>6, <1>7 DEF RecentFirst
<1>9. RecentDistinct'
  BY <1>4, <1>6 DEF RecentInv, RecentDistinct
<1>10. favourites' \subseteq Namespaces
  BY <1>0, <1>1, <1>2 DEF WorkTypeOK, AppStates
<1>11. section' \in Sections
  BY <1>0, <1>1, WorkspaceAssumption DEF WorkTypeOK, AppStates, Or
<1>12. WorkTypeOK'
  BY <1>0, <1>1, <1>3, <1>6, <1>10, <1>11 DEF WorkTypeOK, Phases
<1> QED
  BY <1>0, <1>8, <1>9, <1>12 DEF RecentInv, Starting

LEMMA TaskStepRecords ==
  ASSUME AgreementInv, RecentInv, TaskStep
  PROVE  RecentInv'
<1>1. WorkTypeOK /\ (phase \in Starting => task \in Tasks)
  BY DEF RecentInv
<1>2. CASE ContextsRead
  <2>1. CASE configured = {}
    <3>1. NoContext /\ UNCHANGED <<configured, selected, stored>>
      BY <1>2, <2>1 DEF ContextsRead
    <3>2. NoNamespaces \in Lists
      BY DEF NoNamespaces, Lists
    <3> QED
      BY <1>1, <3>1, <3>2
         DEF NoContext, RecentInv, WorkTypeOK, Starting, Phases,
             MaybeNamespace, RecentFirst, RecentDistinct
  <2>2. CASE configured # {}
    <3>1. PICK c \in ChooseContext :
            task' = [task EXCEPT !.context = c,
              !.preferred = Or(stored.namespace,
                               Or(ConfigNamespace[c], DefaultNamespace))]
      BY <1>2, <2>2 DEF ContextsRead
    <3>2. c \in Contexts
      BY <1>1 DEF ChooseContext, WorkTypeOK
    <3>3. /\ stored.namespace \in MaybeNamespace
          /\ ConfigNamespace[c] \in MaybeNamespace
          /\ DefaultNamespace \in MaybeNamespace
      BY <1>1, <3>2, WorkspaceAssumption
         DEF WorkTypeOK, AppStates, MaybeNamespace
    <3>4. task \in Tasks
      BY <1>1, <1>2 DEF ContextsRead, Starting
    <3>5. task' \in Tasks
      BY <3>1, <3>2, <3>3, <3>4 DEF Tasks, Or
    <3> QED
      BY <1>1, <1>2, <2>2, <3>5
         DEF ContextsRead, RecentInv, WorkTypeOK, Starting, Phases, viewVars,
             RecentFirst, RecentDistinct
  <2> QED
    BY <2>1, <2>2
<1>3. CASE ContextSelected
  <2>1. /\ task \in Tasks
        /\ task.context \in Contexts \union {None}
        /\ task.preferred \in MaybeNamespace
    BY <1>1, <1>3 DEF ContextSelected, Starting, Tasks
  <2>2. section' \in Sections
    BY <1>1, <1>3, WorkspaceAssumption
       DEF ContextSelected, WorkTypeOK, AppStates, Or
  <2> QED
    BY <1>1, <1>3, <2>1, <2>2
       DEF ContextSelected, RecentInv, WorkTypeOK, Starting, Phases,
           RecentFirst, RecentDistinct
<1>4. CASE ContextsRefreshed
  BY <1>1, <1>4
     DEF ContextsRefreshed, RecentInv, WorkTypeOK, Starting, Phases, viewVars,
         RecentFirst, RecentDistinct
<1>5. CASE NamespacesRead
  <2> PICK items \in SUBSET Namespaces :
        LET list == [of |-> task.context, items |-> items, limited |-> FALSE]
        IN  \/ items = {} /\ WarmUp
            \/ (items # {} \/ task.left = 0) /\ Finish(list)
    BY <1>5 DEF NamespacesRead
  <2>1. phase = "namespaces" /\ UNCHANGED <<configured, selected>>
    BY <1>5 DEF NamespacesRead
  <2>2. task \in Tasks
    BY <1>1, <2>1 DEF Starting
  <2>3. CASE WarmUp
    <3>1. task.left \in 0..WarmUps /\ task.left - 1 \in 0..WarmUps
      BY <2>2, <2>3, WorkspaceAssumption DEF WarmUp, Tasks
    <3>2. task' \in Tasks
      BY <2>2, <2>3, <3>1 DEF WarmUp, Tasks
    <3> QED
      BY <1>1, <2>1, <2>3, <3>2
         DEF WarmUp, RecentInv, WorkTypeOK, Starting, viewVars, RecentFirst,
             RecentDistinct
  <2>4. CASE Finish([of |-> task.context, items |-> items, limited |-> FALSE])
    <3>1. [of |-> task.context, items |-> items, limited |-> FALSE] \in Lists
      BY <2>2 DEF Lists, Tasks
    <3> QED
      BY <2>1, <2>4, <3>1, FinishRecords
  <2> QED
    BY <2>3, <2>4
<1>6. CASE NamespacesDenied
  <2>1. /\ phase = "namespaces" /\ UNCHANGED <<configured, selected>>
        /\ Finish([of |-> task.context, items |-> {}, limited |-> TRUE])
    BY <1>6 DEF NamespacesDenied
  <2>2. [of |-> task.context, items |-> {}, limited |-> TRUE] \in Lists
    BY <1>1, <2>1 DEF Starting, Lists, Tasks
  <2> QED
    BY <2>1, <2>2, FinishRecords
<1>7. CASE TaskFails
  <2>1. selected' \in Contexts \union {None}
    BY <1>1, <1>7 DEF TaskFails, WorkTypeOK
  <2> QED
    BY <1>1, <1>7, <2>1
       DEF TaskFails, RecentInv, WorkTypeOK, Starting, Phases, viewVars,
           RecentFirst, RecentDistinct
<1> QED
  BY <1>2, <1>3, <1>4, <1>5, <1>6, <1>7 DEF TaskStep

LEMMA UserStepRecords ==
  ASSUME AgreementInv, RecentInv, phase = "ready", UserStep,
         \/ \E c \in Contexts : SelectContext(c)
         \/ \E n \in MaybeNamespace : SelectNamespace(n)
         \/ \E s \in Sections : SelectSection(s)
         \/ \E n \in Namespaces, s \in Sections : Navigate(n, s)
         \/ \E n \in Namespaces : ToggleFavourite(n)
  PROVE  RecentInv'
<1>1. /\ WorkTypeOK /\ stored \in AppStates
      /\ activeContext \in configured /\ activeContext \in Contexts
      /\ activeContext # None
  BY ConnectionBoundsAssumption
     DEF AgreementInv, OneContext, RecentInv, WorkTypeOK
<1>2. UNCHANGED <<configured, selected>>
  BY DEF UserStep
<1>3. ASSUME NEW n \in MaybeNamespace
      PROVE  LET r == WithNamespace(stored, n)
             IN  /\ r \in AppStates
                 /\ \A d \in Contexts : Distinct(r.recent[d])
                 /\ n # None => /\ r.recent[activeContext] # << >>
                                /\ Head(r.recent[activeContext]) = n
  <2> DEFINE s == [stored EXCEPT !.namespace = n]
  <2>1. s \in AppStates /\ s.recent = stored.recent
    BY <1>1 DEF AppStates
  <2>2. WithNamespace(stored, n) = RecordRecentNamespace(s, activeContext, n)
    BY DEF WithNamespace
  <2> HIDE DEF s
  <2>3. \A d \in Contexts : Distinct(s.recent[d])
    BY <2>1 DEF RecentInv, RecentDistinct
  <2> QED
    BY <1>1, <2>1, <2>2, <2>3, RecordHeads
<1>4. ASSUME NEW c \in Contexts, SelectContext(c)
      PROVE  RecentInv'
  <2>1. /\ stored.namespace \in MaybeNamespace
        /\ ConfigNamespace[c] \in MaybeNamespace
        /\ DefaultNamespace \in MaybeNamespace /\ None \in MaybeNamespace
    BY <1>1, WorkspaceAssumption DEF AppStates, MaybeNamespace
  <2>2. task' \in Tasks
    BY <1>4, <2>1, WorkspaceAssumption DEF SelectContext, Tasks, Or
  <2> QED
    BY <1>1, <1>2, <1>4, <2>2
       DEF SelectContext, RecentInv, WorkTypeOK, Starting, Phases, viewVars,
           RecentFirst, RecentDistinct
<1>5. ASSUME NEW n \in MaybeNamespace, SelectNamespace(n)
      PROVE  RecentInv'
  <2>1. /\ stored' \in AppStates
        /\ \A d \in Contexts : Distinct(stored'.recent[d])
        /\ n # None => /\ stored'.recent[activeContext] # << >>
                       /\ Head(stored'.recent[activeContext]) = n
    BY <1>3, <1>5 DEF SelectNamespace
  <2> QED
    BY <1>1, <1>2, <1>5, <2>1
       DEF SelectNamespace, RecentInv, WorkTypeOK, Starting, RecentFirst,
           RecentDistinct
<1>6. ASSUME NEW s \in Sections, SelectSection(s)
      PROVE  RecentInv'
  <2>1. stored' \in AppStates /\ stored'.recent = stored.recent
    BY <1>1, <1>6 DEF SelectSection, AppStates
  <2> QED
    BY <1>1, <1>2, <1>6, <2>1
       DEF SelectSection, RecentInv, WorkTypeOK, Starting, RecentFirst,
           RecentDistinct
<1>7. ASSUME NEW n \in Namespaces, NEW s \in Sections, Navigate(n, s)
      PROVE  RecentInv'
  <2> DEFINE r == WithNamespace(stored, n)
  <2>1. n \in MaybeNamespace
    BY DEF MaybeNamespace
  <2>2. /\ r \in AppStates
        /\ \A d \in Contexts : Distinct(r.recent[d])
        /\ n # None => /\ r.recent[activeContext] # << >>
                       /\ Head(r.recent[activeContext]) = n
    BY <1>3, <2>1
  <2>3. stored' = [r EXCEPT !.section = s]
    BY <1>7 DEF Navigate
  <2> HIDE DEF r
  <2>4. stored' \in AppStates /\ stored'.recent = r.recent
    BY <2>2, <2>3 DEF AppStates
  <2>5. /\ namespace' = n /\ section' = s
        /\ UNCHANGED <<phase, task, activeContext, namespaces, favourites>>
    BY <1>7 DEF Navigate
  <2> QED
    BY <1>1, <1>2, <2>1, <2>2, <2>4, <2>5
       DEF RecentInv, WorkTypeOK, Starting, RecentFirst, RecentDistinct
<1>8. ASSUME NEW n \in Namespaces, ToggleFavourite(n)
      PROVE  RecentInv'
  <2>1. stored.favourites \in [Contexts -> SUBSET Namespaces]
    BY <1>1 DEF AppStates
  <2> DEFINE f == [stored.favourites EXCEPT ![activeContext] =
                     IF n \in @ THEN @ \ {n} ELSE @ \union {n}]
  <2>2. f \in [Contexts -> SUBSET Namespaces]
    BY <1>1, <2>1
  <2>3. stored' = [stored EXCEPT !.favourites = f]
    BY <1>8 DEF ToggleFavourite, ToggleFavouriteNamespace
  <2> HIDE DEF f
  <2>4. /\ stored' \in AppStates /\ stored'.recent = stored.recent
        /\ stored'.favourites = f
    BY <1>1, <2>2, <2>3 DEF AppStates
  <2>5. favourites' \subseteq Namespaces
    BY <1>1, <1>8, <2>2, <2>4 DEF ToggleFavourite
  <2> QED
    BY <1>1, <1>2, <1>8, <2>4, <2>5
       DEF ToggleFavourite, RecentInv, WorkTypeOK, Starting, RecentFirst,
           RecentDistinct
<1> QED
  BY <1>4, <1>5, <1>6, <1>7, <1>8

LEMMA RecentHolds == WSSpec => []RecentInv
<1>1. WSInit => RecentInv
  <2> SUFFICES ASSUME WSInit PROVE RecentInv
    OBVIOUS
  <2> USE WorkspaceAssumption
  <2> DEFINE R == {q \in Seq(Namespaces) : Len(q) =< MaxRecent}
  <2>1. << >> \in R /\ Distinct(<< >>)
    BY DEF Distinct
  <2>2. \A n \in Namespaces : <<n>> \in R /\ Distinct(<<n>>)
    BY DEF Distinct
  <2> HIDE DEF R
  <2>3. /\ NothingStored.recent \in [Contexts -> R]
        /\ NothingStored.favourites \in [Contexts -> SUBSET Namespaces]
        /\ \A c \in Contexts : NothingStored.recent[c] = << >>
    BY <2>1 DEF NothingStored
  <2>4. NothingStored \in AppStates
    BY <2>3, RecentLists DEF NothingStored, AppStates, MaybeNamespace, R
  <2>5. ASSUME NEW s \in LeftBehind
        PROVE  s \in AppStates /\ \A d \in Contexts : Distinct(s.recent[d])
    <3>1. PICK c \in Contexts, n \in Namespaces :
            s = [context |-> c, namespace |-> n, section |-> HomeSection,
                 favourites |-> NothingStored.favourites,
                 recent |-> [NothingStored.recent EXCEPT ![c] = <<n>>]]
      BY <2>5 DEF LeftBehind
    <3> DEFINE q == [NothingStored.recent EXCEPT ![c] = <<n>>]
    <3>2. /\ q \in [Contexts -> R]
          /\ \A d \in Contexts :
               q[d] = IF d = c THEN <<n>> ELSE NothingStored.recent[d]
      BY <2>2, <2>3
    <3> HIDE DEF q
    <3>3. s = [context |-> c, namespace |-> n, section |-> HomeSection,
               favourites |-> NothingStored.favourites, recent |-> q]
      BY <3>1 DEF q
    <3>4. s \in AppStates /\ s.recent = q
      BY <2>3, <3>2, <3>3, RecentLists DEF AppStates, MaybeNamespace, R
    <3> QED
      BY <2>1, <2>2, <2>3, <3>2, <3>4
  <2>6. stored \in AppStates /\ \A d \in Contexts : Distinct(stored.recent[d])
    BY <2>1, <2>3, <2>4, <2>5 DEF WSInit
  <2>7. task \in Tasks
    BY DEF WSInit, Bootstrap, Tasks, MaybeNamespace
  <2>8. NoNamespaces \in Lists
    BY DEF NoNamespaces, Lists
  <2> QED
    BY <2>6, <2>7, <2>8
       DEF WSInit, RecentInv, WorkTypeOK, Phases, MaybeNamespace,
           RecentFirst, RecentDistinct
<1>2. ASSUME AgreementInv, RecentInv, [WSNext]_workspaceVars
      PROVE  RecentInv'
  <2>1. CASE TaskStep
    BY <1>2, <2>1, TaskStepRecords
  <2>2. CASE \/ \E c \in Contexts : SelectContext(c)
             \/ \E n \in MaybeNamespace : SelectNamespace(n)
             \/ \E s \in Sections : SelectSection(s)
             \/ \E n \in Namespaces, s \in Sections : Navigate(n, s)
             \/ \E n \in Namespaces : ToggleFavourite(n)
    <3>1. Usable /\ UserStep
      BY <2>2 DEF SelectContext, SelectNamespace, SelectSection, Navigate,
                  ToggleFavourite
    <3> QED
      BY <1>2, <2>2, <3>1, UserStepRecords DEF Usable
  <2>3. Bootstrap \in Tasks /\ NoNamespaces \in Lists
    BY WorkspaceAssumption
       DEF Bootstrap, Tasks, MaybeNamespace, NoNamespaces, Lists
  <2>4. CASE Retry
    BY <1>2, <2>3, <2>4
       DEF Retry, UserStep, viewVars, RecentInv, WorkTypeOK, Starting, Phases,
           RecentFirst, RecentDistinct
  <2>5. CASE Reload
    BY <1>2, <2>3, <2>5, WorkspaceAssumption
       DEF Reload, RecentInv, WorkTypeOK, Starting, Phases, MaybeNamespace,
           RecentFirst, RecentDistinct
  <2>6. CASE UNCHANGED workVars
    BY <1>2, <2>6
       DEF workVars, viewVars, RecentInv, WorkTypeOK, Starting, RecentFirst,
           RecentDistinct
  <2> QED
    BY <1>2, <2>1, <2>2, <2>4, <2>5, <2>6
       DEF WSNext, ConnectionStep, workspaceVars
<1> QED
  BY <1>1, <1>2, AgreementHolds, PTL DEF WSSpec

\* The namespace the user works in heads the recent ones of its context, for
\* every length of the list: after every task, choice and link.
THEOREM RecentHeadsList == WSSpec => []RecentFirst
<1>1. RecentInv => RecentFirst
  BY DEF RecentInv
<1> QED
  BY <1>1, RecentHolds, PTL

\* No list of recent namespaces names one twice, whatever was recorded in
\* whatever order, and wherever the list was cut off.
THEOREM RecentNeverRepeats == WSSpec => []RecentDistinct
<1>1. RecentInv => RecentDistinct
  BY DEF RecentInv
<1> QED
  BY <1>1, RecentHolds, PTL

-----------------------------------------------------------------------------
(* The types of the connection, and all of them.                           *)

LEMMA SpendType ==
  ASSUME ConnectionTypeOK, NEW what \in {"user", "calls", "world"},
         Spend(what)
  PROVE  budget' \in [{"user", "calls", "world"} -> Nat]
<1>1. budget[what] \in Nat /\ budget[what] - 1 \in Nat
  BY DEF ConnectionTypeOK, Spend
<1> QED
  BY <1>1 DEF ConnectionTypeOK, Spend

HealthTypeOK ==
  /\ backendHealth \in Healths /\ clusterHealth \in Healths
  /\ health \in Healths
  /\ issue \in IssueKinds \union {None}

LEMMA ApiEndTypes ==
  ASSUME ConnectionTypeOK, NEW how, ApiEnd(how)
  PROVE  HealthTypeOK' /\ budget' \in [{"user", "calls", "world"} -> Nat]
<1>1. HealthTypeOK'
  BY DEF ApiEnd, NotifyApiSuccess, NotifyApiFailure, RecomputeHealth,
         healthVars, HealthTypeOK, ConnectionTypeOK, Healths, IssueKinds
<1>2. budget' \in [{"user", "calls", "world"} -> Nat]
  BY SpendType DEF ApiEnd, ConnectionTypeOK
<1> QED
  BY <1>1, <1>2

LEMMA StatusTypes ==
  ASSUME ConnectionTypeOK, StatusAnswered
  PROVE  ConnectionTypeOK'
<1>1. HealthTypeOK'
  BY DEF StatusAnswered, NotifyStatus, NotifyApiFailure, RecomputeHealth,
         HealthTypeOK, ConnectionTypeOK, Healths, IssueKinds
<1>2. polls' \subseteq polls /\ UNCHANGED <<watched, worldVars, budget>>
  BY DEF StatusAnswered
<1> QED
  BY <1>1, <1>2 DEF HealthTypeOK, ConnectionTypeOK, worldVars

LEMMA ConnectionTypes == WSSpec => []ConnectionTypeOK
<1>1. WSInit => ConnectionTypeOK
  BY ConnectionBoundsAssumption
     DEF WSInit, ConnectionInit, ConnectionTypeOK, Healths, IssueKinds
<1>2. ASSUME ConnectionTypeOK, WorkTypeOK, [WSNext]_workspaceVars
      PROVE  ConnectionTypeOK'
  <2>1. ASSUME NEW how, ApiEnd(how), UNCHANGED <<pollVars, worldVars>>
        PROVE  ConnectionTypeOK'
    BY <1>2, <2>1, ApiEndTypes
       DEF HealthTypeOK, ConnectionTypeOK, pollVars, worldVars
  <2>2. ASSUME NEW what \in {"user", "calls", "world"}, Spend(what)
        PROVE  budget' \in [{"user", "calls", "world"} -> Nat]
    BY <1>2, <2>2, SpendType
  <2>3. CASE UNCHANGED connectionVars
    BY <1>2, <2>3
       DEF ConnectionTypeOK, connectionVars, healthVars, pollVars, worldVars
  <2>4. CASE TaskStep
    BY <2>1, <2>3, <2>4
       DEF TaskStep, ContextsRead, ContextSelected, ContextsRefreshed,
           NamespacesRead, NamespacesDenied, TaskFails, CallEnds
  <2>5. CASE UserStep
    <3>1. budget' \in [{"user", "calls", "world"} -> Nat]
      BY <2>2, <2>5 DEF UserStep
    <3> QED
      BY <1>2, <2>5, <3>1
         DEF UserStep, ConnectionTypeOK, healthVars, pollVars, worldVars
  <2>6. CASE Reload
    <3>1. budget' \in [{"user", "calls", "world"} -> Nat]
      BY <2>2, <2>6 DEF Reload
    <3> QED
      BY <1>2, <2>6, <3>1
         DEF Reload, ConnectionTypeOK, Healths, worldVars
  <2>7. CASE ConnectionStep
    <3>1. CASE Watch(activeContext)
      BY <1>2, <3>1
         DEF Watch, ConnectionTypeOK, WorkTypeOK, healthVars, worldVars
    <3>2. CASE RequestConnectionRetry
      <4>1. budget' \in [{"user", "calls", "world"} -> Nat]
        BY <2>2, <3>2 DEF RequestConnectionRetry
      <4> QED
        BY <1>2, <3>2, <4>1
           DEF RequestConnectionRetry, ConnectionTypeOK, healthVars, worldVars
    <3>3. CASE IntervalPasses
      BY <1>2, <3>3
         DEF IntervalPasses, ConnectionTypeOK, healthVars, worldVars
    <3>4. CASE StatusTaken(selected)
      <4>1. budget' \in [{"user", "calls", "world"} -> Nat]
        BY <1>2, <2>2, <3>4 DEF StatusTaken, ConnectionTypeOK
      <4>2. polls' \subseteq Statuses \union {"asked"}
        BY <1>2, <3>4 DEF StatusTaken, ConnectionTypeOK, Statuses
      <4>3. UNCHANGED <<healthVars, watched, worldVars>>
        BY <3>4 DEF StatusTaken
      <4> QED
        BY <1>2, <4>1, <4>2, <4>3
           DEF ConnectionTypeOK, healthVars, worldVars
    <3>5. CASE StatusAnswered
      BY <1>2, <3>5, StatusTypes
    <3>6. CASE OtherCallEnds
      BY <2>1, <3>6 DEF OtherCallEnds
    <3>7. CASE BackendChanges
      <4>1. budget' \in [{"user", "calls", "world"} -> Nat]
        BY <1>2, <2>2, <3>7 DEF BackendChanges, ConnectionTypeOK
      <4> QED
        BY <1>2, <3>7, <4>1
           DEF BackendChanges, ConnectionTypeOK, healthVars, pollVars
    <3>8. ASSUME NEW c \in Contexts, ClusterChanges(c)
          PROVE  ConnectionTypeOK'
      <4>1. budget' \in [{"user", "calls", "world"} -> Nat]
        BY <1>2, <2>2, <3>8 DEF ClusterChanges, ConnectionTypeOK
      <4> QED
        BY <1>2, <3>8, <4>1
           DEF ClusterChanges, ConnectionTypeOK, healthVars, pollVars
    <3> QED
      BY <2>7, <3>1, <3>2, <3>3, <3>4, <3>5, <3>6, <3>7, <3>8
         DEF ConnectionStep
  <2>8. WSNext \/ UNCHANGED workspaceVars
    BY <1>2
  <2> QED
    BY <2>3, <2>4, <2>5, <2>6, <2>7, <2>8
       DEF WSNext, workspaceVars, SelectContext, SelectNamespace,
           SelectSection, Navigate, ToggleFavourite, Retry
<1>3. RecentInv => WorkTypeOK
  BY DEF RecentInv
<1> QED
  BY <1>1, <1>2, <1>3, RecentHolds, PTL DEF WSSpec

\* Every variable of the workspace and of the connection keeps its type; no
\* list of recent namespaces grows beyond its bound.
THEOREM WorkspaceTypes == WSSpec => []WSTypeOK
<1>1. RecentInv /\ ConnectionTypeOK => WSTypeOK
  BY DEF RecentInv, WorkTypeOK, WSTypeOK
<1> QED
  BY <1>1, RecentHolds, ConnectionTypes, PTL

=============================================================================
