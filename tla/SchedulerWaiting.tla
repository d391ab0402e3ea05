-------------------------- MODULE SchedulerWaiting --------------------------
(***************************************************************************)
(* The calls of Scheduler never wait only for one another, for every       *)
(* number of calls, keys, lanes and slots.  The invariant says of each of  *)
(* the three places where a call waits what the wait can end with.         *)
(***************************************************************************)
EXTENDS SchedulerProofs

\* The inFlight map files a call under its own key.
KeyInv == \A k \in Keys : inFlight[k] # NoCall => KeyOf(inFlight[k]) = k

\* A joiner waits for a call of its own key that leads a flight, or led it and
\* closed its done channel.
JoinedInv ==
    \A c \in Calls : pc[c] = "joined" =>
        /\ leaderOf[c] \in Calls
        /\ KeyOf(leaderOf[c]) = KeyOf(c)
        /\ pc[leaderOf[c]] \notin {"idle", "joined"}
        /\ pc[leaderOf[c]] = "returned" => leaderOf[c] \in flightDone

\* A call in the select of acquireSlot is on the heap, was given a slot, or was
\* popped because its context is done.
QueuedInv ==
    \A c \in Calls : pc[c] = "queued" => c \in holders \cup waiters \cup ctxDone

\* A parked call has a slot of its lane, or a broadcast, to wait for.
ParkedInv ==
    \A c \in Calls : pc[c] = "parked" =>
        \E d \in OnLane(Calls, LaneOf(c)) : d \in holders \/ pc[d] = "broadcast"

WaitingInv == KeyInv /\ JoinedInv /\ QueuedInv /\ ParkedInv

LEMMA WaitingInit == Init => WaitingInv
BY DEF Init, WaitingInv, KeyInv, JoinedInv, QueuedInv, ParkedInv

LEMMA KeyNext == TypeOK /\ KeyInv /\ [Next]_vars => KeyInv'
<1> SUFFICES ASSUME TypeOK, KeyInv, [Next]_vars PROVE KeyInv'
  OBVIOUS
<1>1. req' = req
  BY RequestsKept
<1>2. ASSUME NEW c \in Calls, Lead(c) PROVE KeyInv'
  BY <1>1, <1>2 DEF Lead, KeyInv, KeyOf, TypeOK
<1>3. ASSUME NEW c \in Calls, DropFlight(c) PROVE KeyInv'
  BY <1>1, <1>3 DEF DropFlight, KeyInv, KeyOf, TypeOK
<1>4. ASSUME inFlight' = inFlight PROVE KeyInv'
  BY <1>1, <1>4 DEF KeyInv, KeyOf
<1> QED
  BY <1>2, <1>3, <1>4
  DEF Next, vars, flightVars, Join, Continue,
      JoinerReturns, JoinerGivesUp, Acquire, CheckContext, RefuseContext, TakeFreeSlot,
      Preempt, Enqueue, StartGranted, AbandonQueue, Attempt, FnSucceeds, FnFails,
      FnFailsTransiently, FnExhaustsRetries, BackoffElapses, BackoffCanceled, Unwind,
      Release, Broadcast, CloseFlight, CancelContext, SetMaxPerCluster,
      NotifyUpdate, AllReturned

-----------------------------------------------------------------------------
(* Joiners *)

\* The steps in which nobody joins and no leader returns.
LEMMA JoinedFrame ==
    ASSUME TypeOK, JoinedInv, UNCHANGED <<req, leaderOf>>, flightDone \subseteq flightDone',
           \A d \in Calls :
              /\ pc'[d] \in {"idle", "joined"} <=> pc[d] \in {"idle", "joined"}
              /\ pc'[d] = "joined" => pc[d] = "joined"
              /\ pc'[d] = "returned" => pc[d] = "returned" \/ d \in flightDone'
    PROVE  JoinedInv'
BY DEF JoinedInv, KeyOf, TypeOK

LEMMA JoinedNext ==
    TypeOK /\ FlightInv /\ KeyInv /\ JoinedInv /\ [Next]_vars => JoinedInv'
<1> SUFFICES ASSUME TypeOK, FlightInv, KeyInv, JoinedInv, [Next]_vars PROVE JoinedInv'
  OBVIOUS
<1> USE DEF vars, callVars, flightVars, laneVars, limitVars, Goto
<1>1. ASSUME NEW c \in Calls, Join(c) PROVE JoinedInv'
  <2> DEFINE l == inFlight[KeyOf(c)]
  <2>1. l \in Calls /\ KeyOf(l) = KeyOf(c)
    BY <1>1, RequestType DEF Join, KeyInv, TypeOK
  <2>2. pc[l] \notin {"idle", "joined", "close", "returned"}
    BY <2>1 DEF FlightInv
  <2>3. /\ pc' = [pc EXCEPT ![c] = "joined"] /\ pc[c] = "idle"
        /\ leaderOf' = [leaderOf EXCEPT ![c] = l]
        /\ UNCHANGED <<req, flightDone>>
    BY <1>1 DEF Join
  <2> HIDE DEF l
  <2> SUFFICES ASSUME NEW d \in Calls, pc'[d] = "joined"
               PROVE  \E e \in Calls :
                         /\ leaderOf'[d] = e /\ KeyOf(e) = KeyOf(d)
                         /\ pc'[e] \notin {"idle", "joined"}
                         /\ pc'[e] = "returned" => e \in flightDone'
    BY <2>3 DEF JoinedInv, KeyOf
  <2>4. CASE d = c
    BY <2>1, <2>2, <2>3, <2>4 DEF TypeOK
  <2>5. CASE d # c
    BY <2>3, <2>5 DEF TypeOK, JoinedInv
  <2> QED
    BY <2>4, <2>5
<1>2. ASSUME NEW c \in Calls, Lead(c) PROVE JoinedInv'
  <2>1. /\ pc' = [pc EXCEPT ![c] = "check"] /\ pc[c] = "idle"
        /\ leaderOf' = [leaderOf EXCEPT ![c] = c]
        /\ UNCHANGED <<req, flightDone>>
    BY <1>2 DEF Lead
  <2> QED
    BY <2>1 DEF JoinedInv, KeyOf, TypeOK
<1>3. ASSUME NEW c \in Calls, JoinerReturns(c) \/ JoinerGivesUp(c) PROVE JoinedInv'
  <2>1. /\ pc' = [pc EXCEPT ![c] = "returned"] /\ pc[c] = "joined"
        /\ UNCHANGED <<req, leaderOf, flightDone>>
    BY <1>3 DEF JoinerReturns, JoinerGivesUp
  <2> QED
    BY <2>1 DEF JoinedInv, KeyOf, TypeOK
<1>4. ASSUME NEW c \in Calls, Acquire(c) \/ Attempt(c) PROVE JoinedInv'
  <2>1. /\ pc[c] \notin {"idle", "joined"}
        /\ \E s \in Stages \ {"idle", "joined", "returned"} : pc' = [pc EXCEPT ![c] = s]
        /\ UNCHANGED <<req, leaderOf, flightDone>>
    BY <1>4
    DEF Acquire, CheckContext, RefuseContext, TakeFreeSlot, Preempt, Enqueue,
        StartGranted, AbandonQueue, Attempt, FnSucceeds, FnFails, FnFailsTransiently,
        FnExhaustsRetries, BackoffElapses, BackoffCanceled, Stages
  <2> QED
    BY <2>1, JoinedFrame DEF TypeOK
<1>5. ASSUME NEW c \in Calls, Release(c) \/ DropFlight(c) \/ CloseFlight(c) PROVE JoinedInv'
  BY <1>5, JoinedFrame DEF Release, DropFlight, CloseFlight, TypeOK
<1>6. ASSUME NEW c \in Calls, Broadcast(c) PROVE JoinedInv'
  BY <1>6, JoinedFrame DEF Broadcast, Woken, TypeOK
<1>7. CASE NotifyUpdate
  BY <1>7, JoinedFrame DEF NotifyUpdate, Woken, TypeOK
<1>8. ASSUME UNCHANGED <<req, pc, leaderOf, flightDone>> PROVE JoinedInv'
  BY <1>8, JoinedFrame
<1> QED
  BY <1>1, <1>2, <1>3, <1>4, <1>5, <1>6, <1>7, <1>8
  DEF Next, Continue, Unwind, CancelContext, SetMaxPerCluster, AllReturned

-----------------------------------------------------------------------------
(* Queued calls *)

\* Whoever is still queued keeps the place on the heap, or was popped from it
\* and given a slot unless its context is done.
LEMMA QueuedFrame ==
    ASSUME TypeOK, QueuedInv, ctxDone \subseteq ctxDone',
           \A d \in Calls : pc'[d] = "queued" =>
              \/ d \in waiters'
              \/ /\ pc[d] = "queued"
                 /\ d \in holders => d \in holders'
                 /\ d \in waiters => d \in waiters' \cup holders' \cup ctxDone
    PROVE  QueuedInv'
BY DEF QueuedInv

LEMMA QueuedNext == TypeOK /\ QueuedInv /\ [Next]_vars => QueuedInv'
<1> SUFFICES ASSUME TypeOK, QueuedInv, [Next]_vars PROVE QueuedInv'
  OBVIOUS
<1> USE DEF vars, callVars, flightVars, laneVars, limitVars, Goto
<1>1. ASSUME NEW c \in Calls, TakeFreeSlot(c) \/ Preempt(c) \/ Enqueue(c) PROVE QueuedInv'
  <2> DEFINE P == Popped(LaneOf(c), runners, waiters, maxSlots)
  <2>1. /\ holders \cup Live(P) \subseteq holders' /\ waiters \ P \subseteq waiters'
        /\ UNCHANGED ctxDone
        /\ \/ pc' = [pc EXCEPT ![c] = "queued"] /\ c \in waiters'
           \/ pc' = [pc EXCEPT ![c] = "attempt"]
           \/ pc' = [pc EXCEPT ![c] = "parked"]
    BY <1>1 DEF TakeFreeSlot, Preempt, Enqueue, Left
  <2> HIDE DEF P
  <2> QED
    BY <2>1, QueuedFrame DEF TypeOK, Live
<1>2. ASSUME NEW c \in Calls, Release(c) PROVE QueuedInv'
  <2> DEFINE P == Popped(LaneOf(c), runners \ {RemovedEntry(c)}, waiters, maxSlots)
  <2>1. /\ holders' = (holders \ {c}) \cup Live(P) /\ waiters' = waiters \ P
        /\ UNCHANGED ctxDone
        /\ pc' = [pc EXCEPT ![c] = "broadcast"]
    BY <1>2 DEF Release, Left
  <2> HIDE DEF P
  <2> QED
    BY <2>1, QueuedFrame DEF TypeOK, Live
<1>3. ASSUME NEW n \in Limits, SetMaxPerCluster(n) PROVE QueuedInv'
  <2>1. /\ holders' = holders \cup Live(PoppedEverywhere(n))
        /\ waiters' = waiters \ PoppedEverywhere(n)
        /\ UNCHANGED <<pc, ctxDone>>
    BY <1>3 DEF SetMaxPerCluster, Left
  <2> QED
    BY <2>1, QueuedFrame DEF TypeOK, Live
<1>4. ASSUME UNCHANGED <<waiters, holders>>, ctxDone \subseteq ctxDone',
             \A d \in Calls : pc'[d] = "queued" => pc[d] = "queued"
      PROVE  QueuedInv'
  BY <1>4, QueuedFrame
<1>5. ASSUME NEW c \in Calls,
             \/ Join(c) \/ Lead(c) \/ JoinerReturns(c) \/ JoinerGivesUp(c)
             \/ CheckContext(c) \/ RefuseContext(c) \/ StartGranted(c) \/ AbandonQueue(c)
      PROVE  QueuedInv'
  BY <1>4, <1>5 DEF Join, Lead, JoinerReturns, JoinerGivesUp, CheckContext,
                    RefuseContext, StartGranted, AbandonQueue, TypeOK
<1>6. ASSUME NEW c \in Calls, Attempt(c) PROVE QueuedInv'
  BY <1>4, <1>6
  DEF Attempt, FnSucceeds, FnFails, FnFailsTransiently, FnExhaustsRetries,
      BackoffElapses, BackoffCanceled, TypeOK
<1>7. ASSUME NEW c \in Calls, Broadcast(c) \/ DropFlight(c) \/ CloseFlight(c)
      PROVE  QueuedInv'
  BY <1>4, <1>7 DEF Broadcast, Woken, DropFlight, CloseFlight, TypeOK
<1>8. CASE NotifyUpdate
  BY <1>4, <1>8 DEF NotifyUpdate, Woken, TypeOK
<1> QED
  BY <1>1, <1>2, <1>3, <1>4, <1>5, <1>6, <1>7, <1>8
  DEF Next, Continue, Acquire, Unwind, CancelContext, AllReturned

-----------------------------------------------------------------------------
(* Parked calls *)

LEMMA SameSizeNonEmpty ==
    ASSUME NEW R, NEW H, IsFiniteSet(R), IsFiniteSet(H),
           Cardinality(R) = Cardinality(H), R # {}
    PROVE  H # {}
BY FS_EmptySet

\* The steps that park nobody, take no slot away and make no broadcast.
LEMMA ParkedFrame ==
    ASSUME ParkedInv, req' = req, holders \subseteq holders',
           \A d \in Calls : /\ pc'[d] = "parked" => pc[d] = "parked"
                            /\ pc[d] = "broadcast" => pc'[d] = "broadcast"
    PROVE  ParkedInv'
BY DEF ParkedInv, OnLane, LaneOf, KeyOf

LEMMA ParkedNext ==
    TypeOK /\ SlotInv /\ CountInv /\ ParkedInv /\ [Next]_vars => ParkedInv'
<1> SUFFICES ASSUME TypeOK, SlotInv, CountInv, ParkedInv, [Next]_vars PROVE ParkedInv'
  OBVIOUS
<1> USE DEF vars, callVars, flightVars, laneVars, limitVars, Goto
<1>0. req' = req
  BY RequestsKept
<1>1. ASSUME NEW c \in Calls, Preempt(c) PROVE ParkedInv'
  <2> DEFINE l == LaneOf(c)
             P == Popped(l, runners, waiters, maxSlots)
  <2>1. /\ pc' = [pc EXCEPT ![c] = "parked"] /\ pc[c] = "lock"
        /\ runners' = Taken(P) /\ holders \subseteq holders'
    BY <1>1 DEF Preempt
  <2>2. OnLane(runners', l) # {}
    BY <1>1, <2>1 DEF Preempt, Victims
  <2>3. TypeOK' /\ CountInv'
    BY TypeNext, CountNext
  <2>4. Cardinality(OnLane(runners', l)) = Cardinality(OnLane(holders', l))
    BY <1>0, <2>3, RequestType DEF CountInv, OnLane, LaneOf, KeyOf
  <2>5. IsFiniteSet(OnLane(runners', l)) /\ IsFiniteSet(OnLane(holders', l))
    BY <2>3, LaneFinite DEF TypeOK
  <2>6. PICK d \in holders' : LaneOf(d) = l
    BY <2>2, <2>4, <2>5, SameSizeNonEmpty DEF OnLane
  <2>7. d \in Calls
    BY <2>3, <2>6 DEF TypeOK
  <2> HIDE DEF P
  <2> QED
    BY <1>0, <2>1, <2>6, <2>7 DEF ParkedInv, OnLane, LaneOf, KeyOf, TypeOK
<1>2. ASSUME NEW c \in Calls, Release(c) PROVE ParkedInv'
  <2>1. /\ pc' = [pc EXCEPT ![c] = "broadcast"] /\ pc[c] = "release"
        /\ holders \ {c} \subseteq holders'
    BY <1>2 DEF Release
  <2> QED
    BY <1>0, <2>1 DEF ParkedInv, OnLane, LaneOf, KeyOf, TypeOK
<1>3. ASSUME NEW c \in Calls, Broadcast(c) PROVE ParkedInv'
  BY <1>3 DEF Broadcast, Woken, ParkedInv, TypeOK
<1>4. CASE NotifyUpdate
  BY <1>4 DEF NotifyUpdate, Woken, ParkedInv, TypeOK
<1>5. ASSUME NEW c \in Calls,
             \/ Join(c) \/ Lead(c) \/ JoinerReturns(c) \/ JoinerGivesUp(c)
             \/ CheckContext(c) \/ RefuseContext(c) \/ TakeFreeSlot(c) \/ Enqueue(c)
             \/ StartGranted(c) \/ AbandonQueue(c)
      PROVE  ParkedInv'
  BY <1>0, <1>5, ParkedFrame
  DEF Join, Lead, JoinerReturns, JoinerGivesUp, CheckContext, RefuseContext,
      TakeFreeSlot, Enqueue, StartGranted, AbandonQueue, TypeOK
<1>6. ASSUME NEW c \in Calls, Attempt(c) \/ DropFlight(c) \/ CloseFlight(c) PROVE ParkedInv'
  BY <1>0, <1>6, ParkedFrame
  DEF Attempt, FnSucceeds, FnFails, FnFailsTransiently, FnExhaustsRetries,
      BackoffElapses, BackoffCanceled, DropFlight, CloseFlight, TypeOK
<1>7. ASSUME pc' = pc, holders \subseteq holders' PROVE ParkedInv'
  BY <1>0, <1>7, ParkedFrame
<1> QED
  BY <1>1, <1>2, <1>3, <1>4, <1>5, <1>6, <1>7
  DEF Next, Continue, Acquire, Unwind, CancelContext, SetMaxPerCluster, AllReturned

-----------------------------------------------------------------------------
(* What a wait can end with *)

\* Whoever has a slot goes on, or lost it.
LEMMA HolderGoesOn ==
    ASSUME SlotInv, NEW d \in Calls, d \in holders
    PROVE  UnderWay(d) \/ Orphaned(d)
BY DEF SlotInv, UnderWay, Waits, Orphaned

\* A lane in which a call is parked, or is queued and not given up, has a call
\* that goes on or a lost slot.
LEMMA LaneGoesOn ==
    ASSUME SchedulerInv, NoIdleSlot, QueuedInv, ParkedInv, NEW c \in Calls,
           pc[c] \in {"parked", "queued"}
    PROVE  \E d \in OnLane(Calls, LaneOf(c)) : UnderWay(d) \/ Orphaned(d)
<1> DEFINE l == LaneOf(c)
<1> USE DEF SchedulerInv
<1>1. CASE pc[c] = "parked"
  <2>1. PICK d \in OnLane(Calls, l) : d \in holders \/ pc[d] = "broadcast"
    BY <1>1 DEF ParkedInv
  <2>2. pc[d] = "broadcast" => UnderWay(d)
    BY DEF UnderWay, Waits
  <2> QED
    BY <2>1, <2>2, HolderGoesOn DEF OnLane
<1>2. CASE pc[c] = "queued" /\ c \in holders \cup ctxDone
  <2>1. UnderWay(c)
    BY <1>2 DEF UnderWay, Waits
  <2> QED
    BY <2>1 DEF OnLane
<1>3. CASE pc[c] = "queued" /\ c \notin holders \cup ctxDone
  <2>1. c \in Live(waiters) /\ l \in Clusters
    BY <1>3, RequestType DEF QueuedInv, Live
  <2>2. Cardinality(OnLane(runners, l)) >= maxSlots
    BY <2>1 DEF NoIdleSlot
  <2>3. maxSlots \in Nat \ {0}
    BY SchedulerAssumption DEF TypeOK
  <2>4. /\ IsFiniteSet(OnLane(holders, l))
        /\ Cardinality(OnLane(holders, l)) >= maxSlots
    BY <2>1, <2>2, LaneFinite DEF CountInv, TypeOK
  <2>5. OnLane(holders, l) # {}
    BY <2>3, <2>4, FS_EmptySet
  <2> QED
    BY <2>5, HolderGoesOn DEF OnLane, TypeOK
<1> QED
  BY <1>1, <1>2, <1>3

\* No deadlock among the calls of Run: whatever the limits and the policy
\* updates, and however requests are cancelled, whoever waits for a flight, a
\* victim or a slot has in its lane a call that waits for nobody, or a slot that
\* a cancelled call lost.
THEOREM WaitsAreGrounded == Spec => []NoCircularWait
<1>1. SchedulerInv /\ NoIdleSlot /\ WaitingInv => NoCircularWait
  <2> SUFFICES ASSUME SchedulerInv, NoIdleSlot, WaitingInv, NEW c \in Calls, Waits(c)
               PROVE  \E d \in OnLane(Calls, LaneOf(c)) : UnderWay(d) \/ Orphaned(d)
    BY DEF NoCircularWait
  <2>1. CASE pc[c] \in {"parked", "queued"}
    BY <2>1, LaneGoesOn DEF WaitingInv
  <2>2. CASE pc[c] = "joined" /\ leaderOf[c] \notin flightDone
    <3> DEFINE l == leaderOf[c]
    <3>1. /\ l \in Calls /\ LaneOf(l) = LaneOf(c)
          /\ pc[l] \notin {"idle", "joined", "returned"}
      BY <2>2 DEF WaitingInv, JoinedInv, LaneOf
    <3>2. CASE pc[l] \in {"parked", "queued"}
      BY <3>1, <3>2, LaneGoesOn DEF WaitingInv
    <3>3. CASE pc[l] \notin {"parked", "queued"}
      <4>1. UnderWay(l)
        BY <3>1, <3>3 DEF UnderWay, Waits
      <4> QED
        BY <3>1, <4>1 DEF OnLane
    <3> QED
      BY <3>2, <3>3
  <2> QED
    BY <2>1, <2>2 DEF Waits
<1>2. SchedulerInv /\ WaitingInv /\ [Next]_vars => WaitingInv'
  BY KeyNext, JoinedNext, QueuedNext, ParkedNext DEF WaitingInv, SchedulerInv
<1> QED
  BY <1>1, <1>2, WaitingInit, SchedulerInvariant, WorkConservation, PTL DEF Spec

=============================================================================
