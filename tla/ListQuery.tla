----------------------------- MODULE ListQuery -----------------------------
(***************************************************************************)
(* useListQuery.ts: how a list page gets and keeps its rows.               *)
(*                                                                         *)
(* A page asks for the rows of its key (context, namespace, identity of    *)
(* fetchRows).  Four kinds of asynchronous calls write the rows: the load  *)
(* of a new key (also run by refetch), the interval chosen in the toolbar, *)
(* the revision poll and the dataplane interval.  Each captures the        *)
(* generation when it starts, and drops its answer when a new key has      *)
(* bumped the generation since.  Answers come back in any order.           *)
(*                                                                         *)
(* A new key reaches the hook in two steps: React commits the render, and  *)
(* runs the passive effects later; a timer or an answer can come between.  *)
(* An answer carries a version the server had at some moment between the   *)
(* request and its answer.                                                 *)
(***************************************************************************)
EXTENDS ResourceLists

CONSTANTS
  Calls,          \* asynchronous executions that can be under way at a time
  Contexts,       \* Kubernetes contexts
  Namespaces,     \* namespaces of a context
  None,           \* no rows, no revision, no namespace
  MaxVersion,     \* bound: how often what the server holds changes
  MaxSwitches,    \* bound: how often the page gets a new key
  MaxFailures,    \* bound: requests that fail
  MaxOutages      \* bound: how often the connection becomes unhealthy

ASSUME BoundsAssumption ==
  /\ MaxVersion \in Nat
  /\ MaxSwitches \in Nat
  /\ MaxFailures \in Nat
  /\ MaxOutages \in Nat

VARIABLES
  shape,      \* what of the page's record matters to its query
  key,        \* the key of the last committed render
  fetchKey,   \* the key whose fetchers are in fetchItemsRef, fetchRevisionRef
  since,      \* history: what the server held for fetchKey when its effects ran
  pending,    \* the effects of the last committed render have not run
  gen,        \* generationRef
  rows,       \* fetchedRows: None, or a version of a key's rows
  revision,   \* lastRevisionRef
  error,      \* an error is set
  loading,
  refreshOn,  \* refreshSec > 0
  health,
  source,     \* what the server holds for a context and namespace
  calls,
  failures, outages

queryVars ==
  <<fetchKey, since, pending, gen, rows, revision, error, loading>>
pageVars  == <<shape, key, refreshOn>>
envVars   == <<health, source, failures, outages>>
lqVars    == <<queryVars, pageVars, envVars, calls>>

\* The differences between pages that useListQuery sees.
ShapeOf(t) ==
  [scope |-> t.scope, polled |-> t.polled # NotPolled, ticks |-> t.ticks,
   refetches |-> t.refetches, hinted |-> t.kind = "namespaces"]

\* The namespace of a page's key: null for cluster-wide objects.
KeyNamespaces == IF shape.scope = "namespace" THEN Namespaces ELSE {None}

\* The namespaces page also gets a new fetchRows, hence a new key, whenever
\* its hints change: a favourite, the recent namespaces, the list's path.
Keys ==
  [context : Contexts, namespace : Namespaces \union {None}, hints : BOOLEAN]

PageKeys ==
  {k \in Keys : k.namespace \in KeyNamespaces /\ (k.hints => shape.hinted)}

\* What the server holds does not depend on the hints.
Backing(k) == <<k.context, k.namespace>>
Served(k) == source[Backing(k)]

Ops == {"load", "interval", "revision", "dataplane"}

\* A call waits for rows, or for a revision ("mark" after the rows, "poll"
\* before them).
Idle == [op |-> None]
Waiting ==
  [op : Ops, step : {"rows", "mark", "poll"}, gen : 0..(MaxSwitches + 1),
   key : Keys, from : 0..MaxVersion]

Started(op, step) ==
  [op |-> op, step |-> step, gen |-> gen, key |-> fetchKey,
   from |-> Served(fetchKey)]

LQTypeOK ==
  /\ shape \in {ShapeOf(t) : t \in AllTables}
  /\ key \in PageKeys /\ fetchKey \in PageKeys
  /\ pending \in BOOLEAN /\ error \in BOOLEAN /\ loading \in BOOLEAN
  /\ refreshOn \in BOOLEAN
  /\ gen \in 0..(MaxSwitches + 1) /\ since \in 0..MaxVersion
  /\ rows = None \/ rows \in [key : Keys, version : 0..MaxVersion]
  /\ revision \in {None} \union 0..MaxVersion
  /\ health \in {"healthy", "unhealthy"}
  /\ source \in [Contexts \X (Namespaces \union {None}) -> 0..MaxVersion]
  /\ calls \in [Calls -> {Idle} \union Waiting]
  /\ failures \in 0..MaxFailures
  /\ outages \in 0..MaxOutages

\* The first render of a page: nothing fetched, its effects about to run.
LQInit ==
  /\ shape \in {ShapeOf(t) : t \in AllTables}
  /\ key \in PageKeys
  /\ fetchKey = key
  /\ pending = TRUE
  /\ gen = 0 /\ since = 0
  /\ rows = None /\ revision = None
  /\ error = FALSE /\ loading = FALSE /\ refreshOn = FALSE
  /\ health = "healthy"
  /\ source = [b \in Contexts \X (Namespaces \union {None}) |-> 0]
  /\ calls = [c \in Calls |-> Idle]
  /\ failures = 0 /\ outages = 0

-----------------------------------------------------------------------------
(* The page and its environment.                                           *)

\* A render with another context, namespace or fetchRows is committed.
ChangeKey ==
  /\ ~pending
  /\ gen <= MaxSwitches
  /\ key' \in PageKeys \ {key}
  /\ pending' = TRUE
  /\ UNCHANGED <<fetchKey, since, gen, rows, revision, error, loading, shape,
                 refreshOn, envVars, calls>>

\* The toolbar offers an interval only where no revision is polled.
SetRefresh ==
  /\ ~shape.polled
  /\ refreshOn' = ~refreshOn
  /\ UNCHANGED <<queryVars, shape, key, envVars, calls>>

SourceChanges ==
  /\ \E b \in DOMAIN source :
       /\ source[b] < MaxVersion
       /\ source' = [source EXCEPT ![b] = @ + 1]
  /\ UNCHANGED <<queryVars, pageVars, health, failures, outages, calls>>

HealthChanges ==
  /\ \/ /\ health = "healthy"
        /\ outages < MaxOutages
        /\ health' = "unhealthy"
        /\ outages' = outages + 1
     \/ /\ health = "unhealthy"
        /\ health' = "healthy"
        /\ UNCHANGED outages
  /\ UNCHANGED <<queryVars, pageVars, source, failures, calls>>

-----------------------------------------------------------------------------
(* Starting calls.                                                         *)

\* Mutant: the rows of the former key stay until there are others.
RunEffects_KeepsRows(c) ==
  /\ pending /\ calls[c] = Idle
  /\ fetchKey' = key /\ since' = Served(key)
  /\ gen' = gen + 1
  /\ revision' = None /\ error' = FALSE /\ loading' = TRUE
  /\ calls' = [calls EXCEPT ![c] =
       [op |-> "load", step |-> "rows", gen |-> gen', key |-> fetchKey',
        from |-> Served(fetchKey')]]
  /\ pending' = FALSE
  /\ UNCHANGED <<rows, pageVars, envVars>>

\* The effects of a committed render, in their order: the refs of the
\* fetchers first, then the effect of the key, which starts the load.
RunEffects(c) ==
  /\ pending /\ calls[c] = Idle
  /\ fetchKey' = key /\ since' = Served(key)
  /\ gen' = gen + 1
  /\ rows' = None /\ revision' = None /\ error' = FALSE /\ loading' = TRUE
  /\ calls' = [calls EXCEPT ![c] =
       [op |-> "load", step |-> "rows", gen |-> gen', key |-> fetchKey',
        from |-> Served(fetchKey')]]
  /\ pending' = FALSE
  /\ UNCHANGED <<pageVars, envVars>>

\* refetch: the load of the same generation, with the rows kept.
Refetch(c) ==
  /\ shape.refetches /\ ~pending /\ calls[c] = Idle
  /\ error' = FALSE /\ loading' = TRUE
  /\ calls' = [calls EXCEPT ![c] = Started("load", "rows")]
  /\ UNCHANGED <<fetchKey, since, pending, gen, rows, revision, pageVars,
                 envVars>>

\* An interval fires and starts its call.
Fires(c, op, step) ==
  /\ calls[c] = Idle /\ gen > 0
  /\ health # "unhealthy"
  /\ calls' = [calls EXCEPT ![c] = Started(op, step)]
  /\ UNCHANGED <<queryVars, pageVars, envVars>>

IntervalTick(c) == refreshOn /\ Fires(c, "interval", "rows")

RevisionTick(c) ==
  ~loading /\ ~refreshOn /\ shape.polled /\ Fires(c, "revision", "poll")

\* Mutant: a page that shows an error waits for refetch.
DataplaneTick_NoError(c) ==
  ~error /\ ~loading /\ ~refreshOn /\ shape.polled /\ shape.ticks
    /\ Fires(c, "dataplane", "rows")

DataplaneTick(c) ==
  ~loading /\ ~refreshOn /\ shape.polled /\ shape.ticks
    /\ Fires(c, "dataplane", "rows")

-----------------------------------------------------------------------------
(* Answers.                                                                *)

\* Mutant: no check.
Current_Unchecked(c) == calls[c] # Idle

\* The generation check after each await.
Current(c) == calls[c].gen = gen

Finish(c) == calls' = [calls EXCEPT ![c] = Idle]

\* The versions an answer can carry.
Answers(c) == calls[c].from .. Served(calls[c].key)

\* An answer of a former generation changes nothing.
Dropped(c) ==
  /\ calls[c] # Idle /\ ~Current(c)
  /\ Finish(c)
  /\ UNCHANGED <<queryVars, pageVars, envVars>>

\* Mutant: the rows without what they belong to.
ShowRows_Bare(c, v) == rows' = [version |-> v]

ShowRows(c, v) == rows' = [key |-> calls[c].key, version |-> v]

\* Then the revision is fetched, where one is polled; only then is a load
\* over.
LoadAnswered(c, v) ==
  /\ calls[c].op = "load" /\ calls[c].step = "rows" /\ Current(c)
  /\ ShowRows(c, v)
  /\ IF shape.polled
     THEN /\ calls' = [calls EXCEPT ![c] = Started("load", "mark")]
          /\ UNCHANGED <<revision, loading>>
     ELSE /\ revision' = None /\ loading' = FALSE
          /\ Finish(c)
  /\ UNCHANGED <<fetchKey, since, pending, gen, error, pageVars, envVars>>

LoadMarked(c, v) ==
  /\ calls[c].op = "load" /\ calls[c].step = "mark" /\ Current(c)
  /\ revision' = v /\ loading' = FALSE
  /\ Finish(c)
  /\ UNCHANGED <<fetchKey, since, pending, gen, rows, error, pageVars,
                 envVars>>

\* An interval's rows; the dataplane interval then fetches the revision.
TickAnswered(c, v) ==
  /\ calls[c].op \in {"interval", "revision", "dataplane"}
  /\ calls[c].step = "rows" /\ Current(c)
  /\ ShowRows(c, v)
  /\ error' = FALSE
  /\ IF calls[c].op = "dataplane"
     THEN calls' = [calls EXCEPT ![c] = Started("dataplane", "mark")]
     ELSE Finish(c)
  /\ UNCHANGED <<fetchKey, since, pending, gen, revision, loading, pageVars,
                 envVars>>

TickMarked(c, v) ==
  /\ calls[c].op = "dataplane" /\ calls[c].step = "mark" /\ Current(c)
  /\ revision' = v
  /\ Finish(c)
  /\ UNCHANGED <<fetchKey, since, pending, gen, rows, error, loading, pageVars,
                 envVars>>

\* A polled revision is stored before the rows it stands for are fetched,
\* and they are fetched only if another revision was known.
RevisionAnswered(c, v) ==
  /\ calls[c].step = "poll" /\ Current(c)
  /\ revision' = v
  /\ IF revision \notin {None, v}
     THEN calls' = [calls EXCEPT ![c] = Started("revision", "rows")]
     ELSE Finish(c)
  /\ UNCHANGED <<fetchKey, since, pending, gen, rows, error, loading, pageVars,
                 envVars>>

Answered(c) ==
  /\ calls[c] # Idle
  /\ \E v \in Answers(c) :
       \/ LoadAnswered(c, v)
       \/ LoadMarked(c, v)
       \/ TickAnswered(c, v)
       \/ TickMarked(c, v)
       \/ RevisionAnswered(c, v)

\* Mutant: only an answer ends a load.
Failed_KeepsLoading(c) ==
  /\ calls[c] # Idle /\ Current(c)
  /\ failures < MaxFailures
  /\ failures' = failures + 1
  /\ error' = (calls[c].op = "load")
  /\ Finish(c)
  /\ UNCHANGED <<fetchKey, since, pending, gen, rows, revision, loading,
                 pageVars, health, source, outages>>

\* A failed request: a load shows the error, or forgets the revision; ticks
\* keep what they have.
Failed(c) ==
  /\ calls[c] # Idle /\ Current(c)
  /\ failures < MaxFailures
  /\ failures' = failures + 1
  /\ IF calls[c].op = "load"
     THEN /\ loading' = FALSE
          /\ IF calls[c].step = "rows"
             THEN error' = TRUE /\ UNCHANGED revision
             ELSE revision' = None /\ UNCHANGED error
     ELSE UNCHANGED <<loading, error, revision>>
  /\ Finish(c)
  /\ UNCHANGED <<fetchKey, since, pending, gen, rows, pageVars, health, source,
                 outages>>

Environment == ChangeKey \/ SetRefresh \/ SourceChanges \/ HealthChanges

CallStep(c) ==
  \/ RunEffects(c) \/ Refetch(c)
  \/ IntervalTick(c) \/ RevisionTick(c) \/ DataplaneTick(c)
  \/ Answered(c) \/ Failed(c) \/ Dropped(c)

LQNext == Environment \/ \E c \in Calls : CallStep(c)

\* Requests are answered; effects run and intervals fire again and again,
\* whatever is under way (SF: in the model they may find all of Calls busy).
\* Nobody has to change a key, and no request has to fail.
Fairness ==
  /\ SF_lqVars(\E c \in Calls : RunEffects(c))
  /\ \A c \in Calls : WF_lqVars(Answered(c) \/ Dropped(c) \/ Failed(c))
  /\ SF_lqVars(\E c \in Calls : DataplaneTick(c))
  /\ SF_lqVars(\E c \in Calls : RevisionTick(c))

LQSpec == LQInit /\ [][LQNext]_lqVars
LQFairSpec == LQSpec /\ Fairness

-----------------------------------------------------------------------------
(* Properties.                                                             *)

\* Once the effects of a render have run, the rows shown are those of its
\* key, whatever calls of earlier keys are still to be answered ("changes
\* trigger a fresh load and discard stale in-flight results").
RowsOfCurrentKey == ~pending /\ rows # None => rows.key = key

\* useListQuery implements what PageRows promises: from the moment the effects
\* of a key ran, only rows of this key are shown, and only as the server held
\* them since; whatever calls, failures and answers of former keys there are.
Pages == INSTANCE PageRows WITH
  held <- source, viewKey <- fetchKey,
  Sources <- Contexts \X (Namespaces \union {None}),
  Origin <- [k \in Keys |-> Backing(k)]

ImplementsPageRows == Pages!PRSpec

\* The spinner never outlives its cause: while it is shown, a load of this
\* generation is under way that will take it away.
LoadingHasLoad ==
  loading => \E c \in Calls :
               calls[c] # Idle /\ calls[c].op = "load" /\ Current(c)

\* With the connection healthy for good, a page whose rows are fetched on
\* the dataplane interval ends up showing what the server holds for its key,
\* however answers overtook each other and requests failed before.
Shown ==
  /\ ~pending
  /\ rows # None /\ rows.key = key /\ rows.version = Served(key)
Converges ==
  shape.ticks /\ <>[](health = "healthy") => <>[]Shown
=============================================================================
