---------------------------- MODULE SnapshotExec ----------------------------
(***************************************************************************)
(* Reading a list through the dataplane: executeClusterSnapshot and        *)
(* executeNamespacedSnapshot of src/internal/dataplane/snapshot_exec.go,   *)
(* the in-memory stores they fill, the persisted copies they fall back to, *)
(* the invalidation of a list by a mutation, and the hydration of empty    *)
(* stores from the persisted copies.                                       *)
(*                                                                         *)
(* One element of Calls is one execution.  The scheduler is used through   *)
(* SingleFlight, which Scheduler implements: the module adds to each of    *)
(* its steps what the execution does before, during and after Run.         *)
(*                                                                         *)
(* The content of a list is the version of the source it was read from; 0  *)
(* stands for no items.  Time is abstracted to whether a cell is within    *)
(* its TTL, and to whether a persisted copy is found too old.              *)
(***************************************************************************)
EXTENDS SingleFlight, Integers

CONSTANTS
    PersistedKeys,  \* the keys of kinds without skipPersistence
    MaxVersion,     \* bound on the versions of the source
    MaxHydrations   \* bound on the number of hydrations

ASSUME SnapshotExecAssumption ==
    /\ Outcomes = {"ok", "failed", "canceled"}
    /\ Canceled = "canceled"
    /\ None \notin Keys
    /\ PersistedKeys \subseteq Keys
    /\ MaxVersion \in Nat \ {0}
    /\ MaxHydrations \in Nat

VARIABLES
    version,    \* the current version of each list at the API server
    store,      \* the in-memory cell of each key, or None
    rev,        \* the revision of the cell
    fresh,      \* the keys whose cell is within its TTL
    copy,       \* the persisted copy of each key, or None
    step,       \* where each execution is
    persisted,  \* what an execution loaded before Run, or None
    reading,    \* the version in the response a fetch waits for, or 0
    out,        \* the snapshot an execution builds
    result,     \* the snapshot an execution returned
    began,      \* history: the version when an execution missed the cache
    action,     \* the progress of a mutation of each key's list
    candidate,  \* history: the version an invalidation under way establishes
    fence,      \* history: the oldest version still allowed to pass as current
    buried,     \* history: the oldest version still allowed to be seen at all
    hydrations, \* the number of hydrations so far
    payload,    \* the persisted copies a hydration has yet to look at
    hydrating   \* the key a hydration found empty and is about to set

cellVars  == <<store, rev, fresh>>
execVars  == <<step, persisted, reading, out, result, began>>
actVars   == <<version, action, candidate, fence, buried>>
hydVars   == <<hydrations, payload, hydrating>>
seVars    == <<sfVars, cellVars, copy, execVars, actVars, hydVars>>

-----------------------------------------------------------------------------
(* Snapshots: the items, what the metadata says of them, and the error. *)

Zero    == [class |-> "zero", data |-> 0, err |-> FALSE]
Hot(v)  == [class |-> "hot", data |-> v, err |-> FALSE]
Failed  == [class |-> "failed", data |-> 0, err |-> TRUE]

\* markPersistedSnapshot, and persistedSnapshotFallback.
Stale(s)            == [s EXCEPT !.class = "stale"]
Fallback_Silent(s)  == [s EXCEPT !.class = "stale"]
Fallback(s)         == [s EXCEPT !.class = "stale", !.err = TRUE]

\* ObservedAt is set: peek, getFresh and markPersistedSnapshot require it.
Observed(s) == s # None /\ s # Zero

Set(f, k, v) == f' = [f EXCEPT ![k] = v]

\* setClusterSnapshot, setNamespacedSnapshot.  A snapshot that was fetched is
\* within its TTL, an older one may be.
Store(k, s) ==
    /\ Set(store, k, s)
    /\ Set(rev, k, rev[k] + 1)
    /\ \/ s.class # "zero" /\ fresh' = fresh \cup {k}
       \/ s.class \in {"zero", "stale"} /\ fresh' = fresh \ {k}

Active(k) == {c \in Calls : keyOf[c] = k /\ step[c] \notin {"start", "done"}}

\* Nobody has a list that it read at the API server and has yet to store.
Unread(k) == \A c \in Active(k) : reading[c] = 0 /\ out[c].data = 0

\* Nobody is about to write something it read earlier.
Quiet(k) == Active(k) = {} /\ payload[k] = None

\* Somebody starts reading the persisted copies of K: what an invalidation of
\* these keys under way establishes is undone.
Overlaps(K) == candidate' = [k \in Keys |-> IF k \in K THEN 0 ELSE candidate[k]]

-----------------------------------------------------------------------------
SEInit ==
    /\ SFInit
    /\ version = [k \in Keys |-> 1]
    /\ store = [k \in Keys |-> None]
    /\ rev = [k \in Keys |-> 0]
    /\ fresh = {}
    /\ copy \in [Keys -> {None, Hot(1)}]
    /\ \A k \in Keys \ PersistedKeys : copy[k] = None
    /\ step = [c \in Calls |-> "start"]
    /\ persisted = [c \in Calls |-> None]
    /\ reading = [c \in Calls |-> 0]
    /\ out = [c \in Calls |-> Zero]
    /\ result = [c \in Calls |-> None]
    /\ began = [c \in Calls |-> 0]
    /\ action = [k \in Keys |-> "none"]
    /\ candidate = [k \in Keys |-> 0]
    /\ fence = [k \in Keys |-> 0]
    /\ buried = [k \in Keys |-> 0]
    /\ hydrations = 0
    /\ payload = [k \in Keys |-> None]
    /\ hydrating = None

-----------------------------------------------------------------------------
(* Before Run *)

\* getFresh
Cached(k) == Observed(store[k]) /\ k \in fresh

Hit(c) ==
    /\ step[c] = "start"
    /\ Cached(keyOf[c])
    /\ Set(result, c, store[keyOf[c]])
    /\ Set(step, c, "done")
    /\ UNCHANGED <<sfVars, cellVars, copy, persisted, reading, out, began,
                   actVars, hydVars>>

Miss(c) ==
    /\ step[c] = "start"
    /\ ~Cached(keyOf[c])
    /\ Set(began, c, version[keyOf[c]])
    /\ Set(step, c, "load")
    /\ Overlaps({keyOf[c]})
    /\ UNCHANGED <<sfVars, cellVars, copy, persisted, reading, out, result,
                   version, action, fence, buried, hydVars>>

\* sp.Load, and markPersistedSnapshot, which may find the copy too old.
LoadPersisted(c) ==
    LET s == copy[keyOf[c]] IN
    /\ step[c] = "load"
    /\ \/ Set(persisted, c, None)
       \/ Observed(s) /\ Set(persisted, c, Stale(s))
    /\ Set(step, c, "run")
    /\ UNCHANGED <<sfVars, cellVars, copy, reading, out, result, began,
                   actVars, hydVars>>

-----------------------------------------------------------------------------
(* In Run.  Only the leader's function is called, and only it sets its out. *)

JoinOrLead(c) ==
    /\ step[c] = "run"
    /\ StartFlight(c) \/ JoinFlight(c)
    /\ UNCHANGED <<cellVars, copy, execVars, actVars, hydVars>>

Fetching(c) == stage[c] = "leading" /\ outcome[c] = None

\* The API server answers the list request.
SourceRead(c) ==
    /\ Fetching(c)
    /\ reading[c] = 0
    /\ Set(reading, c, version[keyOf[c]])
    /\ UNCHANGED <<sfVars, cellVars, copy, step, persisted, out, result, began,
                   actVars, hydVars>>

FetchSucceeds(c) ==
    /\ reading[c] # 0
    /\ SettleFlight(c, "ok")
    /\ Set(out, c, Hot(reading[c]))
    /\ Set(reading, c, 0)
    /\ UNCHANGED <<cellVars, copy, step, persisted, result, began, actVars, hydVars>>

\* No clients, or no list.  The scheduler retries or gives up.
FetchFails(c) ==
    /\ Fetching(c)
    /\ Set(out, c, Failed)
    /\ Set(reading, c, 0)
    /\ \/ UNCHANGED sfVars
       \/ \E o \in {"failed", "canceled"} : SettleFlight(c, o)
    /\ UNCHANGED <<cellVars, copy, step, persisted, result, began, actVars, hydVars>>

\* The request is cancelled in the lane's queue, or between two attempts.
RunCanceled(c) ==
    /\ reading[c] = 0
    /\ SettleFlight(c, "canceled")
    /\ UNCHANGED <<cellVars, copy, execVars, actVars, hydVars>>

RunReturns(c) ==
    /\ RetireFlight(c) \/ EndFlight(c) \/ LeaveFlight(c)
    /\ UNCHANGED <<cellVars, copy, execVars, actVars, hydVars>>

-----------------------------------------------------------------------------
(* After Run.  What was loaded before it is of no use once the result is known. *)

HasFallback(c) ==
    answer[c] # "ok" /\ out[c].data = 0 /\ persisted[c] # None

StoreFallback(c) ==
    /\ step[c] = "run" /\ stage[c] = "returned"
    /\ HasFallback(c)
    /\ Store(keyOf[c], Fallback(persisted[c]))
    /\ Set(result, c, Fallback(persisted[c]))
    /\ Set(step, c, "done")
    /\ Set(persisted, c, None)
    /\ UNCHANGED <<sfVars, copy, reading, out, began, actVars, hydVars>>

Saves_Always(c) == keyOf[c] \in PersistedKeys
Saves(c) == answer[c] = "ok" /\ ~out[c].err /\ keyOf[c] \in PersistedKeys

StoreOut(c) ==
    /\ step[c] = "run" /\ stage[c] = "returned"
    /\ ~HasFallback(c)
    /\ Store(keyOf[c], out[c])
    /\ Set(result, c, out[c])
    /\ Set(step, c, IF Saves(c) THEN "save" ELSE "done")
    /\ Set(persisted, c, None)
    /\ UNCHANGED <<sfVars, copy, reading, out, began, actVars, hydVars>>

\* sp.Save, whose error is dropped.
SaveCopy(c) ==
    /\ step[c] = "save"
    /\ Set(copy, keyOf[c], out[c]) \/ UNCHANGED copy
    /\ Set(step, c, "done")
    /\ UNCHANGED <<sfVars, cellVars, persisted, reading, out, result, began,
                   actVars, hydVars>>

-----------------------------------------------------------------------------
(* A mutation through kview: the action, then Invalidate...Snapshot. *)

ExecuteAction(k) ==
    /\ k \in PersistedKeys
    /\ action[k] = "none"
    /\ version[k] < MaxVersion
    /\ Set(version, k, version[k] + 1)
    /\ Set(action, k, "executed")
    /\ UNCHANGED <<sfVars, cellVars, copy, execVars, candidate, fence, buried, hydVars>>

\* clearNamespacedSnapshot.  From here on an older list is no longer current,
\* unless somebody read it before.
Clears(k) ==
    /\ action[k] = "executed"
    /\ Set(store, k, None)
    /\ fresh' = fresh \ {k}
    /\ Set(action, k, "cleared")
    /\ Set(fence, k, IF Unread(k) THEN version[k] ELSE fence[k])
    /\ Set(candidate, k, IF Quiet(k) THEN version[k] ELSE 0)
    /\ UNCHANGED <<sfVars, copy, execVars, version, buried, hydVars>>

ClearCell_KeepsRevision(k) == Clears(k) /\ UNCHANGED rev

ClearCell(k) == Clears(k) /\ Set(rev, k, rev[k] + 1)

\* sp.Delete, whose error is dropped: a delete that fails keeps the copy.
DeleteCopy(k) ==
    /\ action[k] = "cleared"
    /\ \/ /\ Set(copy, k, None)
          /\ Set(buried, k, IF candidate[k] # 0 THEN candidate[k] ELSE buried[k])
       \/ UNCHANGED <<copy, buried>>
    /\ Set(action, k, "none")
    /\ Set(candidate, k, 0)
    /\ UNCHANGED <<sfVars, cellVars, execVars, version, fence, hydVars>>

\* Somebody else changes the cluster.
SourceChanges(k) ==
    /\ version[k] < MaxVersion
    /\ Set(version, k, version[k] + 1)
    /\ UNCHANGED <<sfVars, cellVars, copy, execVars, action, candidate, fence, buried,
                   hydVars>>

TTLExpires(k) ==
    /\ k \in fresh
    /\ fresh' = fresh \ {k}
    /\ UNCHANGED <<sfVars, store, rev, copy, execVars, actVars, hydVars>>

-----------------------------------------------------------------------------
(* hydratePersistedSnapshots: lists the copies once, then looks at each cell *)
(* and sets it in two critical sections.                                     *)

HydrateList ==
    /\ \A k \in Keys : payload[k] = None
    /\ hydrations < MaxHydrations
    /\ hydrations' = hydrations + 1
    /\ payload' = copy
    /\ Overlaps(Keys)
    /\ UNCHANGED <<sfVars, cellVars, copy, execVars, version, action, fence, buried,
                   hydrating>>

\* The cell is loaded already, or the copy is of no use.
HydrateSkip(k) ==
    /\ hydrating = None
    /\ payload[k] # None
    /\ Set(payload, k, None)
    /\ UNCHANGED <<sfVars, cellVars, copy, execVars, actVars, hydrations, hydrating>>

HydratePeek(k) ==
    /\ hydrating = None
    /\ Observed(payload[k])
    /\ ~Observed(store[k])
    /\ hydrating' = k
    /\ UNCHANGED <<sfVars, cellVars, copy, execVars, actVars, hydrations, payload>>

HydrateStore_Unmarked(k) ==
    /\ hydrating = k
    /\ Store(k, payload[k])
    /\ Set(payload, k, None)
    /\ hydrating' = None
    /\ UNCHANGED <<sfVars, copy, execVars, actVars, hydrations>>

HydrateStore(k) ==
    /\ hydrating = k
    /\ Store(k, Stale(payload[k]))
    /\ Set(payload, k, None)
    /\ hydrating' = None
    /\ UNCHANGED <<sfVars, copy, execVars, actVars, hydrations>>

-----------------------------------------------------------------------------
BeforeRun(c) == Hit(c) \/ Miss(c) \/ LoadPersisted(c)

InRun(c) ==
    \/ JoinOrLead(c)
    \/ SourceRead(c)
    \/ FetchSucceeds(c)
    \/ FetchFails(c)
    \/ RunCanceled(c)
    \/ RunReturns(c)

AfterRun(c) == StoreFallback(c) \/ StoreOut(c) \/ SaveCopy(c)

Mutate(k) ==
    \/ ExecuteAction(k)
    \/ ClearCell(k)
    \/ DeleteCopy(k)
    \/ SourceChanges(k)

Hydrate(k) == HydrateSkip(k) \/ HydratePeek(k) \/ HydrateStore(k)

AllDone ==
    /\ \A c \in Calls : step[c] = "done"
    /\ UNCHANGED seVars

SENext ==
    \/ \E c \in Calls : BeforeRun(c) \/ InRun(c) \/ AfterRun(c)
    \/ \E k \in Keys : Mutate(k) \/ TTLExpires(k) \/ Hydrate(k)
    \/ HydrateList
    \/ AllDone

SESpec == SEInit /\ [][SENext]_seVars

-----------------------------------------------------------------------------
(* Properties *)

Versions == 1 .. MaxVersion
Listings == {Hot(v) : v \in Versions}
Staled   == [class : {"stale"}, data : Versions, err : BOOLEAN]
Built    == Listings \cup {Zero, Failed}

\* Types, with what the snapshots in each place can be: what is persisted was
\* a success for whoever saved it.
SETypeOK ==
    /\ version \in [Keys -> Versions]
    /\ store \in [Keys -> Built \cup Staled \cup {None}]
    /\ rev \in [Keys -> Nat]
    /\ fresh \subseteq Keys
    /\ copy \in [Keys -> Listings \cup {Zero, None}]
    /\ step \in [Calls -> {"start", "load", "run", "save", "done"}]
    /\ persisted \in [Calls -> Staled \cup {None}]
    /\ reading \in [Calls -> 0 .. MaxVersion]
    /\ out \in [Calls -> Built]
    /\ result \in [Calls -> Built \cup Staled \cup {None}]
    /\ began \in [Calls -> 0 .. MaxVersion]
    /\ action \in [Keys -> {"none", "executed", "cleared"}]
    /\ candidate \in [Keys -> 0 .. MaxVersion]
    /\ fence \in [Keys -> 0 .. MaxVersion]
    /\ buried \in [Keys -> 0 .. MaxVersion]
    /\ hydrations \in 0 .. MaxHydrations
    /\ payload \in [Keys -> Listings \cup {Zero, None}]
    /\ hydrating \in Keys \cup {None}

\* What there is of key k in memory, in its cell and in the executions under
\* way, and on disk, or just read from there by a hydration.
InMemory(k) ==
    {store[k]} \cup UNION {{persisted[c], out[c]} : c \in Active(k)}
OnDisk(k) == {copy[k], payload[k]}

\* Snapshot s lists the items of a version before n.
Older(s, n) == s # None /\ s.data # 0 /\ s.data < n

\* Invalidation: once a list was cleared while nobody held a reading of it, an
\* older version is not passed off as current again.  Only a copy whose delete
\* failed brings one back, marked stale; when the delete succeeded and nobody
\* overlapped the invalidation, nothing older is left in memory or on disk.
InvalidationHolds ==
    \A k \in Keys :
        /\ \A s \in InMemory(k) : Older(s, fence[k]) => s.class = "stale"
        /\ \A s \in InMemory(k) \cup OnDisk(k) : ~Older(s, buried[k])

\* An execution that does not report an error does not pass off old data as
\* refreshed: unless it was a cache hit, the items it returns were read after
\* it missed the cache.
NoSilentStaleness ==
    \A c \in Calls :
        step[c] = "done" /\ leader[c] # None /\ ~result[c].err
            => result[c].data = 0 \/ result[c].data >= began[c]

\* Pollers compare revisions only: a cell never changes under one revision.
RevisionCountsWrites ==
    [][\A k \in Keys : store'[k] # store[k] => rev'[k] > rev[k]]_seVars

\* scheduler.go:401 says that "Equivalent in-flight shares one result": a call
\* that joined a flight and was told of its success returns what it fetched.
JoinersShareResult ==
    \A c, l \in Calls :
        /\ step[c] = "done" /\ leader[c] = l
        /\ answer[c] = "ok" /\ stage[l] = "returned"
        => result[c].data = out[l].data

\* DATAPLANE.md:32 says that hydrated snapshots "do not overwrite
\* already-loaded in-memory snapshots".
HydrationKeepsLoaded ==
    [][\A k \in Keys : hydrating = k /\ hydrating' = None => ~Observed(store[k])]_seVars
=============================================================================
