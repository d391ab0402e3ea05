# kview: a TLA+ model of the dataplane and of the user interface's state

kview is a local web application for Kubernetes clusters: a Go backend
(`src/cmd/kview`, `src/internal`) and a React front end (`src/ui`).  The core of
the backend is the *dataplane*: lists are read from the API server through a
scheduler with few slots per cluster, kept in memory with a short TTL, persisted
on disk as a fallback, and watched by the front end through revisions.  The front
end has no store: each list page, drawer, dialog and the application itself keeps
its own state, changed by effects, timers and the answers of requests that nobody
cancels.  The modules here model the concurrency of both.

    Scheduler ──implements──> SingleFlight <──extends── SnapshotExec
        ^                                                    ^
        │ extends                                            │ extends
    MCScheduler, SchedulerProofs            MCSnapshotExec, SnapshotExecProofs
                      ^
                      │ extends
    SchedulerPriority, SchedulerRefinement, SchedulerWaiting

    ResourceLists <── ListQuery <── MCListQuery, ListQueryProofs
    PageRows <──implements── ListQuery

    ActionCatalog <── MutationDialog <─┐
    DrawerCatalog <────────────────────┼── ResourceDrawer <── MCResourceDrawer,
    YamlEdit      <────────────────────┘                      ResourceDrawerProofs

    Connection <── Workspace <── MCWorkspace, WorkspaceProofs

## 1. The system

| component | state | operations | correct when | modelled |
|---|---|---|---|---|
| work scheduler (`dataplane/scheduler.go`) | `inFlight` map; per cluster a list of runners, a heap of waiters, a counter; the slot limit; one condition variable | `Run`, `acquireSlot`, `releaseSlot`, `grantNextWaitersLocked`, `findPreemptVictim`, `setMaxPerCluster` | one fetch per key at a time; everybody is told the flight's outcome; slots within the limit, none idle, given by priority and arrival; every call returns | `Scheduler`, `SingleFlight` |
| live work view, statistics (`live_work.go`, `scheduler_stats.go`, `activity_longrun.go`) | counters | snapshots under the scheduler's lock | a row for each execution | rows: `Scheduler` |
| snapshot execution (`snapshot_exec.go`, `snapshot_store.go`, `list_revision.go`) | a cell and a revision per list | cache look-up, fetch through `Run`, fallback, store, save | no old data passed off as new; each write moves the revision | `SnapshotExec` |
| invalidation (`server/handlers_misc.go`, `manager.go`) | cell and persisted copy | an action, then clear and delete, which may fail | what was invalidated does not pass as current again | `SnapshotExec` |
| persistence (`persistence.go`, `signal_history.go`) | a bbolt file: snapshots, search index, schema version | load, save, delete, prune, migrate, hydrate, close | only successes are saved; hydration fills empty cells only | partly: `SnapshotExec` |
| manager, planes, policy (`manager.go`, `policy.go`) | planes, policy bundle, persistence handle | create a plane, set policies, switch persistence | one plane per cluster; scheduler, bundle and persistence agree | the slot limit: `Scheduler`; hydration: `SnapshotExec` |
| list queries (`ui/src/utils/useListQuery.ts`, `ResourceListPage.tsx`, the 26 tables) | rows, revision, generation, timers | load, refetch, interval, revision poll, dataplane interval | rows are those of the page's key; the spinner goes; rows converge | `ListQuery`, `ResourceLists` |
| drawers and YAML editing (`ui/src/components/resources/*/*Drawer.tsx`, `YamlEditDialog.tsx`, `server/resource_yaml_actions.go`) | details, events, the lists of a lazy tab, tab, nested drawer; text, validation | load, reload, lazy loads, open a nested drawer, validate, apply | what is shown under a name was loaded for it, or brought by a late answer that says so; what is applied was validated; whatever waits is answered | `ResourceDrawer`, `DrawerCatalog`, `YamlEdit` |
| actions and mutations (`ui/src/components/mutations`, `ui/src/lib/actions`) | one dialog: phase, parameters | confirm, execute, retry, close | an execution ends with a result | `MutationDialog`, `ActionCatalog` |
| connection state (`ui/src/connectionState.ts`, `api.ts`, the status poll of `App.tsx`) | health of backend and cluster, the active issue | notify, recompute, poll, retry | health follows what can be reached; being offline has a reason | `Connection` |
| application state (`ui/src/App.tsx`, `state.ts`) | context, namespace, section, favourites, recent namespaces, local storage | start up, switch the context, choose, reload the page | all of it belongs to one context, the server's | `Workspace` |
| observers, progressive namespace list, all-context enrichment, capability registry, dashboard, search | sessions, budgets, verdicts, statuses | ticks, batches, look-ups | pollers see growing rows of one revision; budgets hold | no, see section 5 |
| session manager, port-forward and terminal, runtime registry, job debug, cluster manager | sessions, bridges, activities, events, clients | create, stop, stream, clean up | no bridge outlives its session; events once, in order | no, see section 5 |
| Kubernetes actions and readers, HTTP routing, launcher, vendored web view; dashboard, settings and activity views | none, or preferences | | | no, see section 5 |

How they interact: an HTTP handler asks a plane for a list; the plane executes a
snapshot; the execution uses the scheduler, the store and the persistence
handle.  Policy updates change the scheduler's limit while requests are served.
Actions change the cluster and then invalidate lists.  A list page polls
revisions and loads its rows again when they moved; a row opens a drawer; the
drawer's actions and its YAML dialog post to the server.  Every call of the API
tells the connection state how it ended; every page, drawer and dialog reads the
health, and `App.tsx` gives them context and namespace.

What is hard here.  In the backend: several requests join one fetch; a request
may be cancelled between any two steps; a run is cancelled in favour of a more
urgent one; what was read in one critical section is old in the next; memory and
disk are updated in separate steps.  In the front end: answers come in any order,
after the page, the object or the context they were asked for has gone; two-step
loads fail between their steps; what one effect marks another one resets; a task
of several calls stops half-way with the server ahead of the interface.
`PROJECT.json` lists each hazard with its line.

## 2. The modules

### Scheduler

One element of `Calls` is one invocation of `Run`.  `pc` says where its goroutine
is; each action is one critical section under `workScheduler.mu`, or one step
taken without it.

| model | code |
|---|---|
| `inFlight`, `leaderOf`, `effPrio`, `flightErr`, `flightDone` | the map and the `inFlight` records; a record is named by the call that made it |
| `runners`, `place` | the `laneRunner` entries of all lanes, each named by the call it was made for, and its index in its lane's list |
| `holders` | calls that were given a slot and did not call `releaseSlot` yet (`ready` is closed for the queued ones) |
| `preempted`, `ctxDone` | entries whose `cancel` was called; done request contexts |
| `waiters`, `seq`, `laneSeq` | the heaps and their numbering |
| `maxSlots`, `updates`, `notifying` | `maxPerCluster`, and updates between unlock and `Broadcast` |

`Popped(l, R, W, n)` is the set of waiters that `grantNextWaitersLocked` pops: the
loop pops while the list is shorter than the limit, and only live waiters make it
longer, so a waiter is popped exactly when fewer live waiters precede it than
slots are free.  Each critical section that calls it (`TakeFreeSlot`, `Preempt`,
`Enqueue`, `Release`, `SetMaxPerCluster`) does so in the same step.

*Tickets.*  `slotTicket` is `struct{}`.  The gc toolchain places every zero-size
heap object at `runtime.zerobase`, and tickets escape to the heap (they are stored
in a list), so `r.ticket == ticket` holds for all runners and a release removes
the first entry of its lane.  `RemovedEntry` and `place` model this; `holders` is kept
apart from `runners` for the same reason.  The theorems show what survives: the
*number* of entries stays that of the slots given out.

*Abstractions.*  `findPreemptVictim` takes the first of several equally bad runners;
the model leaves ties open.  Backoff durations, statistics and the long-run
notice are left out.  The error classes are the three that the retry loop tells
apart, success, an error that is not retried, and one that is.  `parentCtx` of a
call is done from `CancelContext` on.

`SingleFlight` is what `Run` promises: one leader per key, everybody who joins is
told the outcome, unless the own context ends first.  The refinement mapping is
at the end of `Scheduler`.

### SnapshotExec

One element of `Calls` is one `executeClusterSnapshot` or `executeNamespacedSnapshot`.
It extends `SingleFlight`, its steps in `Run` being those of that module.  The
content of a list is the version of the source it was read from.  `store`, `rev`
and `fresh` are the cell, its revision, and whether it is within its TTL; `copy` is
the persisted snapshot; `persisted`, `reading` and `out` are the locals of an
execution.  A mutation is three steps: the action, `clearNamespacedSnapshot`, and
`Delete`; hydration lists the copies once and then peeks and sets cell by cell.

The errors of `Delete` and `Save` are dropped (`manager.go:1365`, `snapshot_exec.go:159`):
`DeleteCopy` and `SaveCopy` may each leave the copy as it was.  A delete that fails
leaves the invalidated copy on disk, and the next fallback or hydration brings it
back.  That is why the promise has two parts, each with a history variable:
`fence[k]` is the version of the list when it was cleared while nobody held a
reading of it, and `buried[k]` the version when its copy was deleted by an
invalidation that nobody overlapped.  In memory, what is older than the fence is
always marked stale; what is older than `buried` is neither in memory nor on disk.
`began` and `candidate` are history variables too: the version when an execution
missed the cache, and the one an invalidation under way will bury.

Left out: a nil clients provider, capability learning, the exact age of
snapshots, pruning, switching persistence.

### ListQuery

`ResourceLists` has one record for each of the 26 tables: scope, the kind whose
revision is polled, whether rows are fetched on an interval, whether `refetch` is
used, and the fields of its columns in order.  `ListQuery` is the hook they share.
One element of `Calls` is one asynchronous execution that is under way; `Started` is
what its closure captures.

| model | code |
|---|---|
| `key`, `pending` | the render committed last, and whether its passive effects still have to run |
| `fetchKey`, `gen`, `rows`, `revision`, `error`, `loading` | `fetchItemsRef`, `generationRef`, `fetchedRows`, `lastRevisionRef`, `error`, `loading` |
| `RunEffects`, `Refetch`, `IntervalTick`, `RevisionTick`, `DataplaneTick` | the effect of the key, `refetch`, and the three intervals |
| `LoadAnswered`, `LoadMarked`, `TickAnswered`, `TickMarked`, `RevisionAnswered`, `Failed`, `Dropped` | what follows each `await`, its `catch`, and the generation check |

A new key reaches the hook in two steps, and a timer can fire between them, which
is why `RowsOfCurrentKey` is stated of states without pending effects.  An answer
carries any version the server had between request and answer.  A page of a shape
(`ShapeOf`) stands for all with that shape.

`PageRows` is what the hook promises a page, without its calls, generations,
intervals and revisions: it is turned to a key, and from then on shows nothing, or
rows that the server held for that key since.  It may show an older version after
a newer one, as the hook does when answers of one generation overtake each other.
`Pages`, in `ListQuery`, is the refinement mapping; `viewKey` is `fetchKey`, because the
hook turns to a key when its effects run.  The history variable `since`, the
version held at that moment, is the only addition to the hook's state.

### ResourceDrawer

`DrawerCatalog` has a record for each of the 25 drawers: the requests of its load,
its tabs, the lazy ones, whether it waits for the connection, keeps what was
loaded, has a second list that follows the first, or reads again after an edit.
`ActionCatalog` has the actions of each drawer with what distinguishes them.
`ResourceDrawer` is the life of one of them; `Effects` is what React runs after a
render whose object, health or nonce changed, in the step that caused the render.
`requests` is the set of requests under way: nothing cancels one, and the answer of
a request for a former object is taken for one of the object shown now.

`list` and `more` are the lists of a lazy tab with their loading and loaded flags.
`LazyEffects` is their effects, in the order React runs them: it takes the lists of
the rendering (`l`, `m`) and the ones the load has just set (`l0`, `m0`) apart, because the
effects of one rendering all see its values.  In the Networking tab of a pod the
ingresses are asked for when the services are there, of the object the services
are of, and take over their error (`PodDrawer.tsx:923-990`).  The Namespace drawer
has no events; its list is the details of its last tabs, and its YAML panel, which
can be edited, shows what came with them (`YamlOf`).  It does not ask for its list
while it has one, whatever it is of (`NamespaceDrawer.tsx:266`): a late list of the
former namespace stands in for the right one until the next load, and `Settles`
has to accept that.

The history variables `loaded` and `left` are the object of the last load, and the
requests for other objects that were under way when it began.  `ShowsItsObject`
uses them to say what late answers can do, and that nothing else brings another
object in: each of details, events, the two lists and the nested drawer is of the
object of the last load, or of one whose request for just that piece (or for the
piece it follows) was left behind and has ended since.  The links of the summary
of signals (`onJumpToEvents` and its like) are not modelled: `AttentionSummary.tsx:29-34`
ignores them.

`YamlEdit` is the YAML dialog with the identity check of the server; `vetted` is the
history of the texts validated for the dialog that is open.  `MutationDialog` is
the single dialog of the actions.  A streamed job run is executed without
`executeAction`, and `handleExecute` (`MutationDialog.tsx:152`) awaits it without a
`catch`: when its request fails the dialog stays in "running", which cannot be
left.  `types.ts` says that a result "Never throws"; `ExecutionEnds` excepts these
runs, and `Fail` shows what happens to them.

### Workspace

A task, the start-up or the switch of the context, is a sequence of calls, one
phase each; every call can fail, the selection also after the server has carried
it out.  `stored` is what local storage holds, which `Reload` and another session's
`LeftBehind` start from.  `Connection` adds what every call reports and the polls of
the status: `polls` are those of the running effect, the others' answers being
dropped.  `Spend` takes from a budget that bounds how often the user acts, calls
fail, and the backend or a cluster goes away.

Abstractions: which of a list's items comes first is left open; texts, identifiers
and times of issues are left out.

## 3. The runs

| run | instance | shows |
|---|---|---|
| `SchedulerSlots` | 3 calls, 4 keys in 2 lanes, priorities 0-2, limits 1-2, one policy update, one cancellable call | de-duplication; slots per key; executions within entries; no idle slot; nobody waits only for others who wait; effective priority; the limit; queue order; preemption of strictly worse only |
| `SchedulerCancellation` | 3 calls, 2 keys, 1 slot, 2 attempts, two cancellable calls | types and the bound on attempts; a slot is lost only by cancellation; who shares a flight returns what its leader returns; `SingleFlight` is implemented |
| `SchedulerProgress` | 3 calls, 3 keys, limits 1-2, no cancellation, fairness | every call returns |
| `SnapshotInvalidation` | 2 executions, 1 key, 3 versions, 1 hydration; deletes and saves may fail | what is stored and saved where; invalidated data comes back marked stale at most, and not at all once its copy was deleted; revisions move with each write; no silent staleness with joiners and fallbacks |
| `ListPage` | every shape of page; 2 calls, 1 context, 2 namespaces, one change of the key, of the source, of the connection, one failure | rows of the current key; no spinner without a load; `PageRows` is implemented; rows converge |
| `ResourceDrawer` | the drawers of service accounts, deployments, cron jobs, pods and namespaces; 2 objects, 2 loads, 2 posts, one failure, one outage | what is shown belongs to its object or came with a late answer for it; whatever waits has a request under way; applied texts were validated; loads, lists and executions end |
| `Workspace` | 2 contexts, 2 namespaces, 2 sections, budgets (3,0,0), (2,1,0), (0,1,1) for user, calls, world | one context everywhere; recent namespaces, newest first and none twice; reasons for being offline; start-up ends; health converges |

Five further runs exhibit a disagreement between the code and what it says of itself:

| run | property | what the code says, and what happens |
|---|---|---|
| `SchedulerSlotLeak` | `NoRowsWithoutExecutions` | rows describe "one running or queued snapshot execution" (`live_work.go:15`); a call granted a slot while it is cancelled never gives it back, and its row stays |
| `SchedulerTickets` | `ReleaseRemovesOwnEntry` | a ticket "identifies a granted cluster slot" (`scheduler.go:130`); all tickets are equal |
| `SchedulerInversion` | `SlotsGoToMostUrgent` | "priority ordering" (`scheduler.go:188`); the slot cleared by an urgent call goes to the queue first |
| `SnapshotJoinersShareResult` | `JoinersShareResult` | "Equivalent in-flight shares one result" (`scheduler.go:401`); only the error is shared, a joiner returns, stores and persists an empty snapshot |
| `SnapshotHydrationKeepsLoaded` | `HydrationKeepsLoaded` | hydrated snapshots "do not overwrite already-loaded in-memory snapshots" (`docs/DATAPLANE.md:32`); the check and the write are two critical sections |

*Bounds.*  Three calls are the least that show a runner, a waiter and a preempting or
overtaking call, or a leader, a joiner and a later flight; two of them fill a
lane with limit 2.  Three priorities tell the worst runner from one that is merely
worse.  One policy update covers raising and lowering.  Two attempts cover a
first, a repeated and a last failure.  Three versions let a list be changed,
invalidated, and changed again.  `MaxUpdates`, `MaxVersion` and `MaxHydrations` are the
only bounds on counters; they appear in the guards of `SetMaxPerCluster`,
`ExecuteAction`, `SourceChanges` and `HydrateList`.

In the front end: two calls let an answer overtake another one, and two
namespaces with one switch let it belong to another key; what a third call could
add is a third answer of one of the same two generations.  The drawers of
`MCKinds` differ in the number of requests, lazy tab and its lists, waiting for the
connection, keeping, and streamed or parametrised actions; the others combine these
differently or have other tabs, links and actions, and the theorems cover all.  Two loads let a load
reset what a former one asked for; two posts let a validation and an
application be under way together.  The tabs selected are those of `Visited`: the
first one, the lazy ones and the YAML tab, all that the steps distinguish.  In
`Workspace` three acts of the user reach a failed switch, a retry and another
choice.  Two namespaces with `MaxRecent = 2` fill the list of recent namespaces but
never make it longer, so that its cut is checked by the proofs only (`WorkspaceTypes`,
`RecentHeadsList`): a third namespace takes the run past its time.  `MaxVersion`, `MaxSwitches`,
`MaxFailures`, `MaxOutages`, `MaxMoves`, `MaxPosts`, `Visited`, `MaxPolls` and `Budgets` are the bounds; they
appear in the guards of the steps they name.

*Deadlock* is checked except where calls are cancelled in `SchedulerSlots`,
`SchedulerCancellation` and `SchedulerSlotLeak`: a lost slot leaves the calls that
wait for it waiting for ever, which is the finding of the last one, and except in
the three runs of the front end, where the system rests when the user does nothing
and the bounds are used up.

*Fairness* (`FairSpec`): the goroutine of a call that has begun is scheduled (Go's
scheduler is preemptive and fair), `fn` and the backoff timer end (a fetch has its
request's context and the client's timeouts), and a `Broadcast` that is due is
made.  Weak fairness suffices: no step a call waits for is disabled again before
it is taken, a granted waiter keeping its slot.  Nothing is assumed of callers:
`Join`, `Lead`, `CancelContext` and `SetMaxPerCluster` are not fair.  With
cancellation the property fails, for the lost slot.

In the front end fairness is: requests are answered or fail (the
code sets no timeout of its own; the browser or the network ends each; in
`ResourceDrawer` one weak fairness for all of them is enough, because the bound on the
loads bounds the requests), React runs the effects of a committed render, and
intervals fire.  In `ListQuery` the effects and timers are strongly fair, because a
step of the model needs a free element of `Calls`, which the code does not.
Nothing is assumed of the user, and no failure has to happen.

## 4. The proofs

TLAPS checks, for every value of the constants that satisfies
`SchedulerAssumption` (finitely many calls, the clusters of the keys, limits and
retries at least 1, as `newWorkScheduler`, `setMaxPerCluster` and `configureRetries` enforce):

- `TypeCorrect`: `TypeOK`.
- `SchedulerInvariant`: the inductive invariant
  `SchedulerInv == TypeOK /\ FlightInv /\ SlotInv /\ CountInv /\ SeqInv`.
  `FlightInv`: a key is led by exactly the call between `Lead` and `DropFlight`.
  `SlotInv`: a slot belongs to a call that runs, or is queued and granted, or was
  cancelled while queued.  `CountInv`: a lane has as many entries as slots given
  out; it needs that a release finds *some* entry of its lane to remove
  (`EntryOfLane`), which is `CountInv` itself before the step.  `SeqInv`: waiters of a lane
  are numbered apart, so that the queue order is total.
- `ExclusiveExecution`, `SlotPerKey`, `SlotLossIsCancellation`, `EntriesBoundRuns`
  follow from it.
- `GrantsStayWithinLimit` and `WorkConservation` are about the length of queues: the
  live waiters granted are those of rank below the number of free slots
  (`GrantedRank`); ranks of distinct waiters differ, so by the pigeonhole principle
  there are no more of them than slots (`GrantedBound`), and if one live waiter is
  left there are as many (`GrantedEnough`, by the least rank left).
- `SingleFlightRefinement` (`SchedulerRefinement`): every step is one of `SingleFlight` or
  changes nothing it sees, with the extra invariant `LeaderInv` that a call between
  `Lead` and its return leads its own flight and tells its caller what it tells the
  others.
- `SharersAreToldAlike` adds that a leader that returned told its caller the error
  that the waiters read (`ToldInv`).
- `ConcurrencyBound`: no lane executes more fetches at a time than the largest limit
  ever configured, from `GrantsStayWithinLimit` and `EntriesBoundRuns`.
- `EffectivePriority` and `PreemptionOfWorse` (`SchedulerPriority`) need that whoever joined a
  flight joined a call that leads its own (`PartyInv`).
- `QueueOrder`: a granted waiter has a smaller rank than one that is passed over
  (`GrantOrder`).  For `acquireSlot` it rests on `WorkConservation`: a lane whose queue was
  served by the step that changed it has nobody left to grant a slot
  (`NothingToGrant`), so that the new arrival either finds an empty queue or no slot.
- `WaitsAreGrounded` (`SchedulerWaiting`): the safety half of `EveryCallReturns`, and with
  cancellations, for which the liveness fails.  It combines `SchedulerInv` and
  `WorkConservation` with `WaitingInv`, which says what each wait can end with.  A
  parked call has in its lane a slot given out or a broadcast to come
  (`ParkedInv`): it parks behind an entry, and by `CountInv` an entry means a slot,
  though perhaps not its victim's.  A queued call is on the heap, has a slot, or is
  cancelled (`QueuedInv`); on the heap it finds the lane full, and the limit is not
  zero.  A joined call waits for a leader of its own key, hence of its lane
  (`KeyInv`), that has not returned without closing the flight (`JoinedInv`).

For every value of the constants that satisfies `SingleFlightAssumption` and
`SnapshotExecAssumption` (any number of executions, keys, versions, hydrations):

- `SnapshotInvariant`: the inductive invariant
  `SEInv == SETypeOK /\ SFTypeOK /\ ExecInv /\ NoSilentStaleness /\ FenceInv`.
  `ExecInv`: an execution has nothing to write before its miss, reads the source only
  while it leads an unsettled flight, and saves what it returned if that was a
  success.  `FenceInv`: what a local of an execution, a response under way or a
  hydration can still write to a cell is marked stale or not older than the key's
  fence; what they can write to a cell or a copy is not older than `buried`; and an
  invalidation between its two steps that nobody overlapped has left nothing to
  write back, which is what lets a delete that succeeds raise `buried`.
- `SnapshotTypes`, `InvalidationStays` and `StalenessIsReported` follow; `WritesRaiseRevisions`
  uses the types only.
- `RunsAreFlights`: executions are a behaviour of `SingleFlight`, so that the two models
  compose: what they need of `Run` is what the scheduler was shown to implement.

For every value of the constants that satisfies the assumptions of `ListQuery`,
`ResourceDrawer`, `YamlEdit`, `Connection` and `Workspace` (any number of calls, contexts,
namespaces, objects, loads and failures, and any drawers of the catalog):

- `QueryType`, `CurrentRows`, `SpinnerHasLoad` (`ListQueryProofs`), from `QueryInv`: a call under
  way carries a generation that is not a future one, and if it is this one, the
  fetchers' key; rows shown are of that key, which is the page's once no effects
  are pending; a generation that shows a spinner has its load among the calls.  The
  last part is inductive only with the first: a load that ends takes the spinner
  with it exactly when it is of this generation.
- `PageRowsRefinement`: every step of the hook is a step of `PageRows` or changes nothing
  it sees.  `FreshInv` adds to `QueryInv` that what a call of this generation can bring
  is not older than `since`, and neither is what the server holds.
- `ShownUnderItsName` (`ResourceDrawerProofs`), from `ShownInv`, without a condition on the
  behaviour.  `Shown` is the property's own part about the pieces; for it to be
  inductive, every request under way must be one that was left behind or come from
  an object the piece it will replace may come from (`Backed`), and a request
  that was left behind must not be sent again, or its end would prove nothing
  (`Fresh`): the events that follow the details, and the second list, carry the
  number of a load that has not sent them yet.  `TargetLoaded`: an open drawer that
  does not wait has loaded its object.
- `AppliedTextsWereValidated`, from `VettedInv`: what the dialog holds as validated is among the
  texts the server validated for it.
- `WaitsAreAnswered`, from `WaitInv` and `DialogInv`: the waits by what ends them
  (`RequestsAwaited`, `PostAwaited`, `ActionAwaited`), with the shape of the list and of the
  action's dialog.  They are inductive because a load numbers its requests and
  resets what a former one waited for, because a spinner goes with the last
  request of its load, and because a dialog that waits cannot be left.
- `DrawerTypeCorrect`, from `TypeInv`: beside the types, that an open drawer which does not
  wait for the connection was loaded (`Loaded`), as the numbers of its requests need.
  That the tab is one of the drawer's rests on a fact of each drawer (`CatalogTabs`).
- `OneContextAtATime`, `KnownNamespace` (`WorkspaceProofs`), from `AgreementInv`: what each phase of a
  task has already made agree.
- `OfflineReason`: `OfflineHasReason` is inductive by itself.
- `RecentHeadsList` and `RecentNeverRepeats`, from `RecentInv`: the two with the types of what
  is stored, of the task and of the view.  `Without`, the `filter` of
  `recordRecentNamespace`, is a recursive function on the length of the list.  What
  it leaves out, and that it repeats nothing, is proved by the least length at
  which it would fail, from the well-foundedness of the naturals (`Induction`).
- `WorkspaceTypes`, from the same invariant and the types of the connection.

Only model-checked: liveness, which is out of the prover's reach (`EveryCallReturns`,
`Converges`, `Settles`, `ExecutionEnds`, `StartupEnds`, `HealthConverges`).  Every invariant and
every action property of the passing runs is proved.

## 5. Not modelled

- *Persistence* beyond load, save, delete and hydration: migration of the schema,
  pruning by age, the search index, switching persistence off.  Copies here have
  no age, and the handle is one for the whole run; the crash of a bbolt
  transaction is the library's.
- *Observers, progressive namespace list, all-context enrichment, capability
  registry*: each keeps state of its own that no modelled component reads; what
  they hide is among the hazards.
- *Session manager, port-forward, terminal, job debug*: the lifetime of bridges
  and event streams, independent of the dataplane; see the hazards.
- *Cluster manager*: only the selected context, in `Workspace`.
- *Runtime registry, dashboard and signals, search*: bounded buffers and pure
  aggregation.
- *Kubernetes actions and readers, HTTP routing, launcher, vendored web view*: no
  state of kview's own.
- *Rendering*: dashboard, settings and activity views; grid, filters and selection
  of the list pages; the content of tabs; permissions to use an action.
- The YAML panel of an object whose YAML is empty or not loaded: its Edit button
  opens the dialog on an empty text, to be filled with a whole manifest.
- The drawers of custom resources (which first resolve their kind) and of Helm
  charts (which request nothing) are in the catalog only.

Seen while reading, and covered by no property:

- The context can be switched while a drawer is open; the drawer stays, and its
  YAML dialog posts to the context of the moment (`YamlEditDialog.tsx:151`).
  `ResourceDrawer` has one context and `Workspace` has no drawers.
- A page is not loaded again when the connection comes back, although the comment
  at `useListQuery.ts:21` says so; `Converges` is therefore stated of the pages with a
  dataplane interval only.
- A delete of a persisted copy that fails is reported to nobody (`manager.go:1365`);
  the list comes back from it, marked stale, until it is fetched again.
- A late answer for another namespace keeps the Namespace drawer from asking for
  its own details (`NamespaceDrawer.tsx:266`), and is then shown, and edited, under the
  wrong name; the identity check of the server refuses the edit.
- `mutations/useResourceCapabilities.ts:44-61` can show the capabilities of a former object.
- The install dialog of Helm charts can be dismissed while it installs
  (`HelmActions.tsx:282`); its late success closes the next one.
- "Retry now" drops the poll that is under way (`App.tsx:205`), so that a slow
  status answer can be postponed again and again.
- `ResourceDrawerShell.tsx:143` registers a drawer's keys again on each render, on top
  of those of a drawer nested in it.
- The order of tabs in some drawers is not that of `UI_UX_GUIDE.md:75-80`.
- The order of columns looks for "age" within the field's name
  (`ResourceListPage.tsx:135`), which `storageClassName`, `requestedStorage` and
  `imagePullSecretsCount` contain; `OrderedColumns` shows where they end up.
