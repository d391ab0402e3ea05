----------------------------- MODULE Scheduler -----------------------------
(***************************************************************************)
(* The dataplane work scheduler, src/internal/dataplane/scheduler.go.      *)
(*                                                                         *)
(* One element of Calls is one invocation of workScheduler.Run: a request  *)
(* for a list snapshot of one key with one priority.  Calls for a key that *)
(* is already in flight join the call that leads it; a leader needs one of *)
(* the maxSlots slots of its cluster's lane, which it takes, waits for in  *)
(* the lane's priority queue, or obtains by cancelling a run of worse      *)
(* priority.  The leader then tries its fetch function up to Retries times.*)
(*                                                                         *)
(* Every action is one critical section under workScheduler.mu, or one     *)
(* step a goroutine takes without the lock.  Cancellation of a request's   *)
(* context and changes of the slot limit interleave with all of them.      *)
(***************************************************************************)
EXTENDS Integers, FiniteSets

CONSTANTS
    Calls,        \* the invocations of Run, each made at most once
    Keys,         \* the work keys (cluster, class, kind, namespace)
    Clusters,     \* the clusters, one lane each
    ClusterOf,    \* workKey.Cluster
    Priorities,   \* WorkPriority values, smaller is more urgent
    Requests,     \* the requests made: a key and a priority each
    Retries,      \* workScheduler.retries
    Limits,       \* the values maxPerCluster is configured with
    MaxUpdates,   \* bound on the number of policy updates
    Cancellable,  \* the calls whose context may be cancelled by the caller
    FetchResults, \* how fn may end by itself: "ok", "fatal", "transient"
    NoCall

ASSUME SchedulerAssumption ==
    /\ IsFiniteSet(Calls)
    /\ NoCall \notin Calls \cup {"ok", "fatal", "canceled", "exhausted"}
    /\ ClusterOf \in [Keys -> Clusters]
    /\ Priorities \subseteq Nat
    /\ Requests \subseteq [key : Keys, prio : Priorities]
    /\ Retries \in Nat \ {0}
    /\ Limits \subseteq Nat \ {0}
    /\ MaxUpdates \in Nat
    /\ Cancellable \subseteq Calls
    /\ FetchResults \subseteq {"ok", "fatal", "transient"}

VARIABLES
    req,          \* the key and the priority each call asks for
    pc,           \* where the goroutine of each call is
    ctxDone,      \* the calls whose context is done
    inFlight,     \* workScheduler.inFlight: the call that leads each key
    leaderOf,     \* the leader whose inFlight record a call waits on
    effPrio,      \* inFlight.effectivePriority of the record a call leads
    flightErr,    \* inFlight.err of the record a call leads
    flightDone,   \* the calls whose inFlight.done is closed
    runners,      \* the calls whose entry is on the lanes' runner lists
    place,        \* the place of each entry in its lane's list
    holders,      \* the calls given a slot that did not release it yet
    preempted,    \* the runners whose cancel function was called
    waiters,      \* the calls on the lanes' waiter heaps
    seq,          \* waiterNode.seq
    laneSeq,      \* clusterLane.seq
    attempts,     \* the number of failed attempts of a run
    maxSlots,     \* workScheduler.maxPerCluster
    updates,      \* the number of policy updates so far
    notifying,    \* calls of setMaxPerCluster between unlock and Broadcast
    ret           \* what Run returned, or is about to return

callVars   == <<req, ctxDone>>
flightVars == <<inFlight, leaderOf, effPrio, flightDone>>
laneVars   == <<runners, place, holders, preempted, waiters, seq, laneSeq>>
limitVars  == <<maxSlots, updates, notifying>>
vars == <<callVars, flightVars, laneVars, limitVars, pc, flightErr, attempts, ret>>

-----------------------------------------------------------------------------
(* Where a call can be, and what Run can return. *)

Stages == { "idle",       \* Run not called yet
            "check",      \* at the head of acquireSlot's loop
            "lock",       \* context was alive; about to take the lock
            "parked",     \* in cond.Wait after cancelling a victim
            "queued",     \* in the select on ctx.Done and ready
            "attempt",    \* fn is running
            "backoff",    \* between two attempts
            "release",    \* the run is over, the slot not given back yet
            "broadcast",  \* slot given back, cond.Broadcast not called yet
            "drop",       \* the key is about to leave the inFlight map
            "close",      \* inFlight.done is about to be closed
            "joined",     \* waits for another call's flight
            "returned" }

Outcomes == { "ok", "fatal", "canceled", "exhausted" }

KeyOf(c)     == req[c].key
PrioOf(c)    == req[c].prio
LaneOf(c)    == ClusterOf[KeyOf(c)]
OnLane(S, l) == {c \in S : LaneOf(c) = l}

\* runCtx is derived from the caller's context and cancelled by preemption.
RunCtxDone(c) == c \in ctxDone \/ c \in preempted

-----------------------------------------------------------------------------
(* grantNextWaitersLocked *)

Before_LatestFirst(v, w) ==
    \/ PrioOf(v) < PrioOf(w)
    \/ PrioOf(v) = PrioOf(w) /\ seq[v] > seq[w]

\* waiterHeap.Less: by priority, then by arrival.
Before(v, w) ==
    \/ PrioOf(v) < PrioOf(w)
    \/ PrioOf(v) = PrioOf(w) /\ seq[v] < seq[w]

\* A waiter whose context is done (which abandonment implies) is popped
\* without being granted a slot.
Live(S) == S \ ctxDone

\* The waiters popped from lane l when the runner list is R and the limit n:
\* the heap is popped while a slot is free, and only live waiters use one up.
Popped(l, R, W, n) ==
    {w \in OnLane(W, l) :
        Cardinality({v \in OnLane(Live(W), l) : Before(v, w)})
            < n - Cardinality(OnLane(R, l))}

Victims_EqualToo(l, R, need) ==
    {v \in OnLane(R, l) :
        /\ effPrio[v] >= need
        /\ \A r \in OnLane(R, l) : effPrio[r] =< effPrio[v]}

\* findPreemptVictim: a runner of the lane of the worst effective priority,
\* provided that it is strictly worse than need.  Ties are left open.
Victims(l, R, need) ==
    {v \in OnLane(R, l) :
        /\ effPrio[v] > need
        /\ \A r \in OnLane(R, l) : effPrio[r] =< effPrio[v]}

-----------------------------------------------------------------------------
Init ==
    /\ req \in [Calls -> Requests]
    /\ pc = [c \in Calls |-> "idle"]
    /\ ctxDone = {}
    /\ inFlight = [k \in Keys |-> NoCall]
    /\ leaderOf = [c \in Calls |-> NoCall]
    /\ effPrio = [c \in Calls |-> PrioOf(c)]
    /\ flightErr = [c \in Calls |-> "ok"]
    /\ flightDone = {}
    /\ runners = {}
    /\ place = [c \in Calls |-> 0]
    /\ holders = {}
    /\ preempted = {}
    /\ waiters = {}
    /\ seq = [c \in Calls |-> 0]
    /\ laneSeq = [l \in Clusters |-> 0]
    /\ attempts = [c \in Calls |-> 0]
    /\ maxSlots \in Limits
    /\ updates = 0
    /\ notifying = 0
    /\ ret = [c \in Calls |-> "ok"]

-----------------------------------------------------------------------------
(* Run: joining a flight, or leading one. *)

Goto(c, stage) == pc' = [pc EXCEPT ![c] = stage]

\* inf.err = e; return e
Settle(c, e) ==
    /\ flightErr' = [flightErr EXCEPT ![c] = e]
    /\ ret' = [ret EXCEPT ![c] = e]

\* existing.effectivePriority when a call of priority p joins.
BestPriority_Latest(p, q) == p
BestPriority(p, q) == IF p < q THEN p ELSE q

Join(c) ==
    LET l == inFlight[KeyOf(c)] IN
    /\ pc[c] = "idle"
    /\ l # NoCall
    /\ effPrio' = [effPrio EXCEPT ![l] = BestPriority(PrioOf(c), @)]
    /\ leaderOf' = [leaderOf EXCEPT ![c] = l]
    /\ Goto(c, "joined")
    /\ UNCHANGED <<callVars, laneVars, limitVars, inFlight, flightDone,
                   flightErr, attempts, ret>>

NotInFlight_Unchecked(k) == TRUE
NotInFlight(k) == inFlight[k] = NoCall

Lead(c) ==
    /\ pc[c] = "idle"
    /\ NotInFlight(KeyOf(c))
    /\ inFlight' = [inFlight EXCEPT ![KeyOf(c)] = c]
    /\ leaderOf' = [leaderOf EXCEPT ![c] = c]
    /\ effPrio' = [effPrio EXCEPT ![c] = PrioOf(c)]
    /\ Goto(c, "check")
    /\ UNCHANGED <<callVars, laneVars, limitVars, flightDone, flightErr,
                   attempts, ret>>

\* case <-done: return existing.err
JoinerReturns(c) ==
    /\ pc[c] = "joined"
    /\ leaderOf[c] \in flightDone
    /\ ret' = [ret EXCEPT ![c] = flightErr[leaderOf[c]]]
    /\ Goto(c, "returned")
    /\ UNCHANGED <<callVars, flightVars, laneVars, limitVars, flightErr, attempts>>

\* case <-ctx.Done(): return ctx.Err()
JoinerGivesUp(c) ==
    /\ pc[c] = "joined"
    /\ c \in ctxDone
    /\ ret' = [ret EXCEPT ![c] = "canceled"]
    /\ Goto(c, "returned")
    /\ UNCHANGED <<callVars, flightVars, laneVars, limitVars, flightErr, attempts>>

-----------------------------------------------------------------------------
(* acquireSlot *)

\* The context is looked at before the lock is taken, so it may be cancelled
\* between the two.
CheckContext(c) ==
    /\ pc[c] = "check"
    /\ c \notin ctxDone
    /\ Goto(c, "lock")
    /\ UNCHANGED <<callVars, flightVars, laneVars, limitVars, flightErr,
                   attempts, ret>>

RefuseContext(c) ==
    /\ pc[c] = "check"
    /\ c \in ctxDone
    /\ Settle(c, "canceled")
    /\ Goto(c, "drop")
    /\ UNCHANGED <<callVars, flightVars, laneVars, limitVars, attempts>>

\* The critical section of acquireSlot first serves the queue of its lane.
\* Taken(P) and Left(P) are the entries and the heaps after P was popped.
Taken(P) == runners \cup Live(P)
Left(P)  == waiters \ P

\* lane.runners = append(lane.runners, ...) for each of G, in queue order, to
\* lists with the entries R.
Appended(R, G) ==
    [d \in Calls |->
        IF d \in G
        THEN Cardinality(OnLane(R, LaneOf(d))) + 1
                + Cardinality({v \in OnLane(G, LaneOf(d)) : Before(v, d)})
        ELSE IF d \in R THEN place[d] ELSE 0]

HasFreeSlot_OffByOne(l, R) == Cardinality(OnLane(R, l)) =< maxSlots
HasFreeSlot(l, R) == Cardinality(OnLane(R, l)) < maxSlots

TakeFreeSlot(c) ==
    LET l == LaneOf(c)
        P == Popped(l, runners, waiters, maxSlots)
    IN  /\ pc[c] = "lock"
        /\ HasFreeSlot(l, Taken(P))
        /\ runners' = Taken(P) \cup {c}
        /\ holders' = holders \cup Live(P) \cup {c}
        /\ place' = [Appended(runners, Live(P)) EXCEPT
                        ![c] = Cardinality(OnLane(Taken(P), l)) + 1]
        /\ waiters' = Left(P)
        /\ Goto(c, "attempt")
        /\ UNCHANGED <<callVars, flightVars, limitVars, preempted, seq, laneSeq,
                       flightErr, attempts, ret>>

Preempt(c) ==
    LET l == LaneOf(c)
        P == Popped(l, runners, waiters, maxSlots)
    IN  /\ pc[c] = "lock"
        /\ ~HasFreeSlot(l, Taken(P))
        /\ \E v \in Victims(l, Taken(P), PrioOf(c)) : preempted' = preempted \cup {v}
        /\ runners' = Taken(P)
        /\ holders' = holders \cup Live(P)
        /\ place' = Appended(runners, Live(P))
        /\ waiters' = Left(P)
        /\ Goto(c, "parked")
        /\ UNCHANGED <<callVars, flightVars, limitVars, seq, laneSeq, flightErr,
                       attempts, ret>>

Enqueue(c) ==
    LET l == LaneOf(c)
        P == Popped(l, runners, waiters, maxSlots)
    IN  /\ pc[c] = "lock"
        /\ ~HasFreeSlot(l, Taken(P))
        /\ Victims(l, Taken(P), PrioOf(c)) = {}
        /\ laneSeq' = [laneSeq EXCEPT ![l] = @ + 1]
        /\ seq' = [seq EXCEPT ![c] = laneSeq[l] + 1]
        /\ runners' = Taken(P)
        /\ holders' = holders \cup Live(P)
        /\ place' = Appended(runners, Live(P))
        /\ waiters' = Left(P) \cup {c}
        /\ Goto(c, "queued")
        /\ UNCHANGED <<callVars, flightVars, limitVars, preempted, flightErr,
                       attempts, ret>>

\* case <-me.ready: ready is closed when the waiter is given a slot.
StartGranted(c) ==
    /\ pc[c] = "queued"
    /\ c \in holders
    /\ Goto(c, "attempt")
    /\ UNCHANGED <<callVars, flightVars, laneVars, limitVars, flightErr,
                   attempts, ret>>

\* case <-parentCtx.Done(): the waiter is marked abandoned and left on the
\* heap.  The select may take this branch although ready is closed as well.
AbandonQueue(c) ==
    /\ pc[c] = "queued"
    /\ c \in ctxDone
    /\ Settle(c, "canceled")
    /\ Goto(c, "drop")
    /\ UNCHANGED <<callVars, flightVars, laneVars, limitVars, attempts>>

-----------------------------------------------------------------------------
(* Run: the attempts, and the deferred calls in the order they run. *)

FnSucceeds_DropsFlight(c) ==
    /\ pc[c] = "attempt"
    /\ Settle(c, "ok")
    /\ inFlight' = [inFlight EXCEPT ![KeyOf(c)] = NoCall]
    /\ Goto(c, "release")
    /\ UNCHANGED <<callVars, leaderOf, effPrio, flightDone, laneVars, limitVars,
                   attempts>>

FnSucceeds(c) ==
    /\ pc[c] = "attempt"
    /\ "ok" \in FetchResults
    /\ Settle(c, "ok")
    /\ Goto(c, "release")
    /\ UNCHANGED <<callVars, flightVars, laneVars, limitVars, attempts>>

\* An error of a class that is not retried.  A run whose context is done
\* usually ends here, with the context's own error.
FnFails(c) ==
    /\ pc[c] = "attempt"
    /\ \/ "fatal" \in FetchResults /\ Settle(c, "fatal")
       \/ RunCtxDone(c) /\ Settle(c, "canceled")
    /\ Goto(c, "release")
    /\ UNCHANGED <<callVars, flightVars, laneVars, limitVars, attempts>>

HasAttemptsLeft_Unbounded(c) == TRUE
HasAttemptsLeft(c) == attempts[c] + 1 < Retries

\* A retryable error with attempts left: wait for the backoff.
FnFailsTransiently(c) ==
    /\ pc[c] = "attempt"
    /\ "transient" \in FetchResults
    /\ HasAttemptsLeft(c)
    /\ attempts' = [attempts EXCEPT ![c] = @ + 1]
    /\ Goto(c, "backoff")
    /\ UNCHANGED <<callVars, flightVars, laneVars, limitVars, flightErr, ret>>

FnExhaustsRetries_NoErr(c) ==
    /\ pc[c] = "attempt"
    /\ "transient" \in FetchResults
    /\ attempts[c] + 1 = Retries
    /\ attempts' = [attempts EXCEPT ![c] = @ + 1]
    /\ ret' = [ret EXCEPT ![c] = "exhausted"]
    /\ Goto(c, "release")
    /\ UNCHANGED <<callVars, flightVars, laneVars, limitVars, flightErr>>

\* A retryable error in the last attempt.
FnExhaustsRetries(c) ==
    /\ pc[c] = "attempt"
    /\ "transient" \in FetchResults
    /\ attempts[c] + 1 = Retries
    /\ attempts' = [attempts EXCEPT ![c] = @ + 1]
    /\ Settle(c, "exhausted")
    /\ Goto(c, "release")
    /\ UNCHANGED <<callVars, flightVars, laneVars, limitVars>>

BackoffElapses(c) ==
    /\ pc[c] = "backoff"
    /\ Goto(c, "attempt")
    /\ UNCHANGED <<callVars, flightVars, laneVars, limitVars, flightErr,
                   attempts, ret>>

BackoffCanceled_KeepsSlot(c) ==
    /\ pc[c] = "backoff"
    /\ RunCtxDone(c)
    /\ Settle(c, "canceled")
    /\ Goto(c, "drop")
    /\ UNCHANGED <<callVars, flightVars, laneVars, limitVars, attempts>>

BackoffCanceled(c) ==
    /\ pc[c] = "backoff"
    /\ RunCtxDone(c)
    /\ Settle(c, "canceled")
    /\ Goto(c, "release")
    /\ UNCHANGED <<callVars, flightVars, laneVars, limitVars, attempts>>

\* The entry that releaseSlot removes: the first whose ticket is the caller's.
\* A slotTicket has no size, and all such objects have the same address
\* (runtime.zerobase), so that every entry has the caller's ticket.
RemovedEntry(c) ==
    CHOOSE v \in OnLane(runners, LaneOf(c)) :
        \A r \in OnLane(runners, LaneOf(c)) : place[v] =< place[r]

\* releaseSlot, up to its unlock.
Release(c) ==
    LET l == LaneOf(c)
        v == RemovedEntry(c)
        R == runners \ {v}
        P == Popped(l, R, waiters, maxSlots)
    IN  /\ pc[c] = "release"
        /\ runners' = R \cup Live(P)
        /\ holders' = (holders \ {c}) \cup Live(P)
        /\ place' = [d \in Calls |->
                        IF d \in OnLane(R, l) /\ place[d] > place[v]
                        THEN place[d] - 1 ELSE Appended(R, Live(P))[d]]
        /\ waiters' = Left(P)
        /\ Goto(c, "broadcast")
        /\ UNCHANGED <<callVars, flightVars, limitVars, preempted, seq, laneSeq,
                       flightErr, attempts, ret>>

\* s.cond.Broadcast() at the end of releaseSlot.
Woken_Nobody == pc
Woken_Starts == [d \in Calls |-> IF pc[d] = "parked" THEN "attempt" ELSE pc[d]]
Woken == [d \in Calls |-> IF pc[d] = "parked" THEN "check" ELSE pc[d]]

Broadcast(c) ==
    /\ pc[c] = "broadcast"
    /\ pc' = [Woken EXCEPT ![c] = "drop"]
    /\ UNCHANGED <<callVars, flightVars, laneVars, limitVars, flightErr,
                   attempts, ret>>

DropFlight(c) ==
    /\ pc[c] = "drop"
    /\ inFlight' = [inFlight EXCEPT ![KeyOf(c)] = NoCall]
    /\ Goto(c, "close")
    /\ UNCHANGED <<callVars, laneVars, limitVars, leaderOf, effPrio, flightDone,
                   flightErr, attempts, ret>>

CloseFlight(c) ==
    /\ pc[c] = "close"
    /\ flightDone' = flightDone \cup {c}
    /\ Goto(c, "returned")
    /\ UNCHANGED <<callVars, laneVars, limitVars, inFlight, leaderOf, effPrio,
                   flightErr, attempts, ret>>

-----------------------------------------------------------------------------
(* The environment: requests end early, and policies are edited. *)

CancelContext(c) ==
    /\ c \in Cancellable \ ctxDone
    /\ pc[c] # "returned"
    /\ ctxDone' = ctxDone \cup {c}
    /\ UNCHANGED <<req, flightVars, laneVars, limitVars, pc, flightErr, attempts, ret>>

\* setMaxPerCluster, up to its unlock: every lane's queue is served.
PoppedEverywhere_Skipped(n) == {}
PoppedEverywhere(n) == UNION {Popped(l, runners, waiters, n) : l \in Clusters}

SetMaxPerCluster(n) ==
    LET P == PoppedEverywhere(n) IN
    /\ updates < MaxUpdates
    /\ updates' = updates + 1
    /\ maxSlots' = n
    /\ runners' = Taken(P)
    /\ holders' = holders \cup Live(P)
    /\ place' = Appended(runners, Live(P))
    /\ waiters' = Left(P)
    /\ notifying' = notifying + 1
    /\ UNCHANGED <<callVars, flightVars, preempted, seq, laneSeq, pc, flightErr,
                   attempts, ret>>

NotifyUpdate ==
    /\ notifying > 0
    /\ notifying' = notifying - 1
    /\ pc' = Woken
    /\ UNCHANGED <<callVars, flightVars, laneVars, maxSlots, updates, flightErr,
                   attempts, ret>>

-----------------------------------------------------------------------------
Acquire(c) ==
    \/ CheckContext(c)
    \/ RefuseContext(c)
    \/ TakeFreeSlot(c)
    \/ Preempt(c)
    \/ Enqueue(c)
    \/ StartGranted(c)
    \/ AbandonQueue(c)

Attempt(c) ==
    \/ FnSucceeds(c)
    \/ FnFails(c)
    \/ FnFailsTransiently(c)
    \/ FnExhaustsRetries(c)
    \/ BackoffElapses(c)
    \/ BackoffCanceled(c)

Unwind(c) ==
    \/ Release(c)
    \/ Broadcast(c)
    \/ DropFlight(c)
    \/ CloseFlight(c)

\* What the goroutine of a call does once Run was called.
Continue(c) ==
    \/ JoinerReturns(c)
    \/ JoinerGivesUp(c)
    \/ Acquire(c)
    \/ Attempt(c)
    \/ Unwind(c)

\* Every call returned: the system rests.
AllReturned ==
    /\ \A c \in Calls : pc[c] = "returned"
    /\ UNCHANGED vars

Next ==
    \/ \E c \in Calls : Join(c) \/ Lead(c) \/ Continue(c) \/ CancelContext(c)
    \/ \E n \in Limits : SetMaxPerCluster(n)
    \/ NotifyUpdate
    \/ AllReturned

Spec == Init /\ [][Next]_vars

\* Goroutines are scheduled, the fetch function and the backoff timer end, and
\* a Broadcast that is due is made.  Nobody has to call Run, to cancel a
\* request or to edit the policy.
Fairness ==
    /\ \A c \in Calls : WF_vars(Continue(c))
    /\ WF_vars(NotifyUpdate)

FairSpec == Spec /\ Fairness

-----------------------------------------------------------------------------
(* Properties *)

TypeOK ==
    /\ req \in [Calls -> Requests]
    /\ pc \in [Calls -> Stages]
    /\ ctxDone \subseteq Cancellable
    /\ inFlight \in [Keys -> Calls \cup {NoCall}]
    /\ leaderOf \in [Calls -> Calls \cup {NoCall}]
    /\ effPrio \in [Calls -> Priorities]
    /\ flightErr \in [Calls -> Outcomes]
    /\ flightDone \subseteq Calls
    /\ runners \subseteq Calls
    /\ place \in [Calls -> Nat]
    /\ holders \subseteq Calls
    /\ preempted \subseteq Calls
    /\ waiters \subseteq Calls
    /\ seq \in [Calls -> Nat]
    /\ laneSeq \in [Clusters -> Nat]
    /\ attempts \in [Calls -> 0 .. Retries]
    /\ maxSlots \in Limits
    /\ updates \in 0 .. MaxUpdates
    /\ notifying \in 0 .. updates
    /\ ret \in [Calls -> Outcomes]

Executing(c) == pc[c] \in {"attempt", "backoff"}

\* A call that still has its slot although Run is over for it.
Orphaned(c) == c \in holders /\ pc[c] \in {"drop", "close", "returned"}

\* The inFlight map and the stages agree: a key is led by exactly the call that
\* started its flight and has not dropped it yet.
FlightInv ==
    \A c \in Calls :
        inFlight[KeyOf(c)] = c <=> pc[c] \notin {"idle", "joined", "close", "returned"}

\* A slot belongs to a call that was granted it and has not released it, or to
\* one that was cancelled while queued; a queued call waits or has a slot.
SlotInv ==
    \A c \in Calls :
        /\ pc[c] \in {"attempt", "backoff", "release"} => c \in holders
        /\ c \in holders \cup waiters =>
              \/ pc[c] = "queued"
              \/ pc[c] \in {"drop", "close", "returned"} /\ c \in ctxDone
              \/ pc[c] \in {"attempt", "backoff", "release"} /\ c \notin waiters
        /\ ~(c \in holders /\ c \in waiters)
        /\ c \in runners => pc[c] \notin {"idle", "joined", "check", "lock", "parked"}
        /\ ~(c \in runners /\ c \in waiters)

\* A lane has as many entries as slots were given out and not released, though
\* the entries may be those of other calls.
CountInv ==
    \A l \in Clusters :
        Cardinality(OnLane(runners, l)) = Cardinality(OnLane(holders, l))

\* Waiters of a lane are numbered apart, which makes Before a total order.
SeqInv ==
    \A w \in waiters :
        /\ seq[w] =< laneSeq[LaneOf(w)]
        /\ \A v \in waiters : LaneOf(v) = LaneOf(w) /\ seq[v] = seq[w] => v = w

SchedulerInv == TypeOK /\ FlightInv /\ SlotInv /\ CountInv /\ SeqInv

\* De-duplication: no two calls execute their fetch for one key at a time,
\* and a call that executes was given a slot of its lane.
ExecutionIsExclusive ==
    \A c \in Calls : Executing(c) =>
        /\ c \in holders
        /\ \A d \in Calls : Executing(d) /\ KeyOf(d) = KeyOf(c) => d = c

\* A key never occupies two slots of its lane at a time, because the slot is
\* released before the key leaves the inFlight map.
OneSlotPerKey ==
    \A c, d \in holders :
        KeyOf(c) = KeyOf(d) => \/ c = d
                               \/ Orphaned(c)
                               \/ Orphaned(d)

\* Although a release may remove the entry of another call, the list's length
\* still bounds the lane's concurrency: there are never more runs than entries.
RunsWithinEntries ==
    \A l \in Clusters :
        Cardinality({c \in OnLane(Calls, l) : Executing(c)})
            =< Cardinality(OnLane(runners, l))

\* A slot is lost only by a call whose context was cancelled while it waited.
OnlyCancelledCallsLoseSlots ==
    \A c \in Calls : Orphaned(c) => c \in ctxDone

\* Work conservation: a live call waits in a lane's queue only while all the
\* slots of the lane are taken.  Each grant is made by the critical section
\* that frees a slot, raises the limit or pushes a waiter.
NoIdleSlot ==
    \A w \in Live(waiters) :
        Cardinality(OnLane(runners, LaneOf(w))) >= maxSlots

\* A call that waits for another one: for the end of its leader's flight, for
\* the victim it cancelled, or for a slot.
Waits(c) ==
    \/ pc[c] = "joined" /\ c \notin ctxDone /\ leaderOf[c] \notin flightDone
    \/ pc[c] = "parked"
    \/ pc[c] = "queued" /\ c \notin holders \cup ctxDone

UnderWay(c) == pc[c] \notin {"idle", "returned"} /\ ~Waits(c)

\* Calls never wait only for one another: however joining, queueing, preempting
\* and cancelling interleave, the lane of a waiting call has a call that goes
\* on by itself, or a slot that a cancelled call took away with it.  So every
\* parked call has a broadcast to come, and no queue outlives its lane's runs.
NoCircularWait ==
    \A c \in Calls : Waits(c) =>
        \E d \in OnLane(Calls, LaneOf(c)) : UnderWay(d) \/ Orphaned(d)

\* A flight's effective priority is the best one among all calls that asked
\* for it, so that a shared run is preempted for none of them wrongly.
EffectivePriorityIsBest ==
    \A l \in Calls : leaderOf[l] = l =>
        LET party == {c \in Calls : leaderOf[c] = l} IN
        /\ \A c \in party : effPrio[l] =< PrioOf(c)
        /\ \E c \in party : effPrio[l] = PrioOf(c)

\* "Equivalent in-flight shares one result", as far as the error goes: whoever
\* took part in a flight returns what its leader returned, and not before it,
\* however the flight was retried, preempted or cancelled.  The only other
\* answer is the end of the own request.
ToldAlike ==
    \A c \in Calls : pc[c] = "returned" =>
        \/ pc[leaderOf[c]] = "returned" /\ ret[c] = ret[leaderOf[c]]
        \/ c \in ctxDone /\ ret[c] = "canceled"

\* No step leaves a lane with more runners than it had unless the limit in
\* force allows it: neither a free slot, nor a release, nor a policy update.
GrantsWithinLimit ==
    [][\A l \in Clusters :
          ~(OnLane(runners', l) \subseteq OnLane(runners, l))
              => Cardinality(OnLane(runners', l)) =< maxSlots']_vars

\* A call obtains a slot only if no live call that stays queued in its lane
\* precedes it: neither a waiter that arrived earlier with the same priority
\* nor one with a better priority is overtaken, not even by a new arrival.
GrantsInQueueOrder ==
    [][\A g \in runners' \ runners :
          \A w \in OnLane(Live(waiters'), LaneOf(g)) \ runners' :
              /\ g \in waiters
              /\ PrioOf(g) =< PrioOf(w)
              /\ PrioOf(g) = PrioOf(w) => seq[g] < seq[w]]_vars

\* A run is cancelled only for a call of strictly better priority than every
\* call that shares the run, and no runner of the lane was a better victim.
PreemptsOnlyWorse ==
    [][\A v \in preempted' \ preempted :
          \E c \in Calls :
              /\ pc[c] = "lock" /\ pc'[c] = "parked"
              /\ LaneOf(c) = LaneOf(v)
              /\ \A d \in Calls : leaderOf[d] = v => PrioOf(c) < PrioOf(d)
              /\ \A r \in OnLane(runners, LaneOf(c)) : effPrio[r] =< effPrio[v]]_vars

\* live_work.go:18 says of the rows it reads off the runner lists that each
\* "describes one running or queued snapshot execution": when all executions
\* are over there are none.
NoRowsWithoutExecutions ==
    (\A c \in Calls : pc[c] = "returned") => runners = {}

\* scheduler.go:130 says that a slotTicket "identifies a granted cluster slot
\* (release uses pointer identity": a release removes the releasing call's
\* own entry.
ReleaseRemovesOwnEntry ==
    [][\A c \in Calls :
          pc[c] = "release" /\ pc'[c] = "broadcast" => runners \ runners' = {c}]_vars

\* scheduler.go:188-189 promises "priority ordering, preemption of strictly
\* lower effective priority": a slot is not given to a call while a call of
\* strictly better priority waits for one, be it queued or parked behind the
\* victim it cancelled.
SlotsGoToMostUrgent ==
    [][\A g \in runners' \ runners, w \in Calls \ (runners' \cup ctxDone) :
          pc[w] \in {"queued", "parked"} /\ LaneOf(w) = LaneOf(g)
              => PrioOf(g) =< PrioOf(w)]_vars

\* The refinement mapping: a leader is leading until it returns, its flight has
\* an outcome once inf.err was set for good, and a call has its answer when it
\* returned.
Settled(c) ==
    \/ pc[c] \in {"release", "broadcast", "drop", "close"}
    \/ pc[c] = "returned" /\ leaderOf[c] = c

RefKey     == [c \in Calls |-> KeyOf(c)]
RefStage   == [c \in Calls |->
                  IF pc[c] \in {"idle", "joined", "returned"} THEN pc[c] ELSE "leading"]
RefOutcome == [c \in Calls |-> IF Settled(c) THEN flightErr[c] ELSE NoCall]
RefAnswer  == [c \in Calls |-> IF pc[c] = "returned" THEN ret[c] ELSE NoCall]

Flights == INSTANCE SingleFlight WITH
    Canceled <- "canceled", None    <- NoCall,
    keyOf    <- RefKey,     stage   <- RefStage,   flight <- inFlight,
    leader   <- leaderOf,   outcome <- RefOutcome, answer <- RefAnswer

\* Run is a single-flight group: the lanes, the queue, the retries and the
\* preemptions are invisible to its callers except through the outcomes.
ImplementsSingleFlight == Flights!SFSpec

\* Every call of Run returns, if no request is cancelled: neither the queue,
\* nor the wait for a victim, nor the wait for a flight's leader is forever.
EveryCallReturns ==
    \A c \in Calls : pc[c] # "idle" ~> pc[c] = "returned"

=============================================================================
