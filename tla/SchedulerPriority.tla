------------------------- MODULE SchedulerPriority -------------------------
(***************************************************************************)
(* Theorems about the order in which slots of Scheduler are given and      *)
(* taken away: effective priorities, preemption and the queue.             *)
(***************************************************************************)
EXTENDS SchedulerProofs

\* The calls that share a flight: who joined, joined a call that leads its own
\* flight, and the flight has the best of their priorities.
PartyInv ==
    /\ \A c \in Calls : pc[c] = "idle" => leaderOf[c] = NoCall
    /\ \A k \in Keys : inFlight[k] # NoCall => leaderOf[inFlight[k]] = inFlight[k]
    /\ \A c \in Calls : leaderOf[c] # NoCall => leaderOf[leaderOf[c]] = leaderOf[c]
    /\ EffectivePriorityIsBest

LEMMA PriorityType ==
    ASSUME TypeOK, NEW c \in Calls
    PROVE  PrioOf(c) \in Int /\ effPrio[c] \in Int
<1>1. Priorities \subseteq Int
  BY SchedulerAssumption
<1>2. PrioOf(c) \in Priorities /\ effPrio[c] \in Priorities
  BY RequestType DEF TypeOK
<1> QED BY <1>1, <1>2

LEMMA PartyInit == Init => PartyInv
BY SchedulerAssumption DEF Init, PartyInv, EffectivePriorityIsBest

LEMMA PartyJoin ==
    ASSUME TypeOK, PartyInv, NEW c \in Calls, Join(c)
    PROVE  PartyInv'
<1> DEFINE l == inFlight[KeyOf(c)]
<1> USE SchedulerAssumption
<1>1. KeyOf(c) \in Keys /\ l \in Calls /\ leaderOf[l] = l /\ leaderOf[c] = NoCall
  BY RequestType DEF Join, TypeOK, PartyInv
<1>2. /\ l \in Calls /\ leaderOf[l] = l /\ l # c
      /\ PrioOf(c) \in Int /\ effPrio[l] \in Int
  BY <1>1, PriorityType
<1>3. req' = req /\ inFlight' = inFlight
  BY DEF Join, callVars
<1>4. /\ \A d \in Calls : PrioOf(d) \in Int /\ PrioOf(d)' = PrioOf(d)
      /\ inFlight' = inFlight
  BY <1>3, PriorityType DEF PrioOf
<1>5. /\ leaderOf' = [leaderOf EXCEPT ![c] = l]
      /\ pc' = [pc EXCEPT ![c] = "joined"]
      /\ pc[c] = "idle" /\ leaderOf[c] = NoCall
  BY DEF Join, Goto, PartyInv
<1>6. effPrio' = [effPrio EXCEPT ![l] = BestPriority(PrioOf(c), effPrio[l])]
  BY DEF Join
<1>7. effPrio'[l] = BestPriority(PrioOf(c), effPrio[l])
  BY <1>6, <1>2 DEF TypeOK
<1>8. /\ effPrio' = [effPrio EXCEPT ![l] = effPrio'[l]]
      /\ effPrio'[l] \in {PrioOf(c), effPrio[l]}
      /\ effPrio'[l] =< PrioOf(c) /\ effPrio'[l] =< effPrio[l]
  <2>1. effPrio' = [effPrio EXCEPT ![l] = effPrio'[l]]
    BY <1>6, <1>7
  <2> HIDE DEF l
  <2> QED BY <2>1, <1>2, <1>7 DEF BestPriority
<1> HIDE DEF l
<1>9. EffectivePriorityIsBest'
  <2> SUFFICES ASSUME NEW m \in Calls, leaderOf'[m] = m
               PROVE  /\ \A d \in Calls : leaderOf'[d] = m => effPrio'[m] =< PrioOf(d)
                      /\ \E d \in Calls : leaderOf'[d] = m /\ effPrio'[m] = PrioOf(d)
    BY <1>4 DEF EffectivePriorityIsBest
  <2>1. leaderOf[m] = m
    BY <1>2, <1>5 DEF TypeOK
  <2>2. /\ effPrio[m] \in Int
        /\ \A d \in Calls : leaderOf[d] = m => effPrio[m] =< PrioOf(d)
    BY <2>1, PriorityType DEF PartyInv, EffectivePriorityIsBest
  <2>3. PICK e \in Calls : leaderOf[e] = m /\ effPrio[m] = PrioOf(e)
    BY <2>1 DEF PartyInv, EffectivePriorityIsBest
  <2>4. e # c
    BY <1>5, <2>3
  <2>5. CASE m = l
    <3>1. effPrio'[m] \in Int
      BY <1>2, <1>8, <2>5
    <3>2. ASSUME NEW d \in Calls, leaderOf'[d] = m PROVE effPrio'[m] =< PrioOf(d)
      <4>1. CASE d = c
        BY <1>8, <2>5, <4>1
      <4>2. CASE d # c
        <5>1. leaderOf[d] = m
          BY <1>5, <3>2, <4>2 DEF TypeOK
        <5> QED BY <1>4, <1>8, <2>2, <2>5, <3>1, <5>1
      <4> QED BY <4>1, <4>2
    <3>3. leaderOf'[c] = l /\ leaderOf'[e] = m
      BY <1>5, <2>3, <2>4 DEF TypeOK
    <3>4. \E d \in Calls : leaderOf'[d] = m /\ effPrio'[m] = PrioOf(d)
      BY <1>8, <2>3, <2>5, <3>3
    <3> QED BY <3>2, <3>4
  <2>6. CASE m # l
    BY <1>5, <1>8, <2>2, <2>3, <2>6 DEF TypeOK
  <2> QED BY <2>5, <2>6
<1>10. \A k \in Keys : inFlight'[k] # NoCall => leaderOf'[inFlight'[k]] = inFlight'[k]
  BY <1>4, <1>5 DEF TypeOK, PartyInv
<1>11. \A d \in Calls : leaderOf'[d] # NoCall => leaderOf'[leaderOf'[d]] = leaderOf'[d]
  BY <1>2, <1>5 DEF TypeOK, PartyInv
<1>12. \A d \in Calls : pc'[d] = "idle" => leaderOf'[d] = NoCall
  BY <1>5 DEF TypeOK, PartyInv
<1> QED BY <1>9, <1>10, <1>11, <1>12 DEF PartyInv

LEMMA PartyLead ==
    ASSUME TypeOK, PartyInv, NEW c \in Calls, Lead(c)
    PROVE  PartyInv'
<1> USE SchedulerAssumption
<1>1. req' = req
  BY DEF Lead, callVars
<1>2. /\ \A d \in Calls : PrioOf(d) \in Int /\ PrioOf(d)' = PrioOf(d)
      /\ KeyOf(c) \in Keys
  BY <1>1, RequestType, PriorityType DEF PrioOf
<1>3. /\ leaderOf' = [leaderOf EXCEPT ![c] = c]
      /\ inFlight' = [inFlight EXCEPT ![KeyOf(c)] = c]
      /\ effPrio' = [effPrio EXCEPT ![c] = PrioOf(c)]
      /\ pc' = [pc EXCEPT ![c] = "check"]
      /\ leaderOf[c] = NoCall
  BY DEF Lead, Goto, PartyInv
<1>4. \A d \in Calls : leaderOf[d] # c
  BY <1>3 DEF PartyInv
<1>5. EffectivePriorityIsBest'
  <2> SUFFICES ASSUME NEW m \in Calls, leaderOf'[m] = m
               PROVE  /\ \A d \in Calls : leaderOf'[d] = m => effPrio'[m] =< PrioOf(d)
                      /\ \E d \in Calls : leaderOf'[d] = m /\ effPrio'[m] = PrioOf(d)
    BY <1>2 DEF EffectivePriorityIsBest
  <2>1. CASE m = c
    BY <1>2, <1>3, <1>4, <2>1 DEF TypeOK
  <2>2. CASE m # c
    BY <1>3, <2>2 DEF TypeOK, PartyInv, EffectivePriorityIsBest
  <2> QED BY <2>1, <2>2
<1>6. \A k \in Keys : inFlight'[k] # NoCall => leaderOf'[inFlight'[k]] = inFlight'[k]
  BY <1>2, <1>3 DEF TypeOK, PartyInv
<1>7. \A d \in Calls : leaderOf'[d] # NoCall => leaderOf'[leaderOf'[d]] = leaderOf'[d]
  BY <1>3, <1>4 DEF TypeOK, PartyInv
<1>8. \A d \in Calls : pc'[d] = "idle" => leaderOf'[d] = NoCall
  BY <1>3 DEF TypeOK, PartyInv
<1> QED BY <1>5, <1>6, <1>7, <1>8 DEF PartyInv

\* The other steps neither join nor lead, and may only end flights.
LEMMA PartyFrame ==
    ASSUME TypeOK, PartyInv, UNCHANGED <<req, leaderOf, effPrio>>,
           \A c \in Calls : pc'[c] = "idle" => pc[c] = "idle",
           \A k \in Keys : inFlight'[k] \in {inFlight[k], NoCall}
    PROVE  PartyInv'
<1>1. \A d \in Calls : PrioOf(d)' = PrioOf(d)
  BY DEF PrioOf
<1>2. EffectivePriorityIsBest'
  BY <1>1 DEF PartyInv, EffectivePriorityIsBest
<1> QED BY <1>2 DEF PartyInv

LEMMA PartyNext == TypeOK /\ PartyInv /\ [Next]_vars => PartyInv'
<1> SUFFICES ASSUME TypeOK, PartyInv, [Next]_vars PROVE PartyInv'
  OBVIOUS
<1> USE DEF callVars, flightVars, Goto, TypeOK
<1>1. ASSUME NEW c \in Calls, JoinerReturns(c) \/ JoinerGivesUp(c) PROVE PartyInv'
  BY <1>1, PartyFrame DEF JoinerReturns, JoinerGivesUp
<1>2. ASSUME NEW c \in Calls, Acquire(c) PROVE PartyInv'
  BY <1>2, PartyFrame
     DEF Acquire, CheckContext, RefuseContext, TakeFreeSlot, Preempt, Enqueue,
         StartGranted, AbandonQueue
<1>3. ASSUME NEW c \in Calls, Attempt(c) PROVE PartyInv'
  BY <1>3, PartyFrame
     DEF Attempt, FnSucceeds, FnFails, FnFailsTransiently, FnExhaustsRetries,
         BackoffElapses, BackoffCanceled
<1>4. ASSUME NEW c \in Calls, Unwind(c) PROVE PartyInv'
  <2>1. CASE Release(c) \/ Broadcast(c) \/ CloseFlight(c)
    BY <2>1, PartyFrame DEF Release, Broadcast, CloseFlight, Woken
  <2>2. CASE DropFlight(c)
    BY <2>2, PartyFrame DEF DropFlight
  <2> QED BY <1>4, <2>1, <2>2 DEF Unwind
<1>5. CASE NotifyUpdate
  BY <1>5, PartyFrame DEF NotifyUpdate, Woken
<1>6. ASSUME UNCHANGED <<req, pc, leaderOf, effPrio, inFlight>> PROVE PartyInv'
  BY <1>6, PartyFrame
<1> QED
  BY <1>1, <1>2, <1>3, <1>4, <1>5, <1>6, PartyJoin, PartyLead
     DEF Next, Continue, CancelContext, SetMaxPerCluster, AllReturned, vars

LEMMA PartyHolds == Spec => []PartyInv
BY PartyInit, PartyNext, TypeCorrect, PTL DEF Spec

-----------------------------------------------------------------------------
\* Run keeps in inFlight.effectivePriority the best priority of the calls that
\* share the flight.
THEOREM EffectivePriority == Spec => []EffectivePriorityIsBest
<1>1. PartyInv => EffectivePriorityIsBest
  BY DEF PartyInv
<1> QED BY <1>1, PartyHolds, PTL

-----------------------------------------------------------------------------
(* Preemption *)

LEMMA PreemptStep ==
    ASSUME TypeOK, PartyInv, NEW c \in Calls, Preempt(c),
           NEW v \in preempted' \ preempted
    PROVE  /\ pc[c] = "lock" /\ pc'[c] = "parked"
           /\ LaneOf(c) = LaneOf(v)
           /\ \A d \in Calls : leaderOf[d] = v => PrioOf(c) < PrioOf(d)
           /\ \A r \in OnLane(runners, LaneOf(c)) : effPrio[r] =< effPrio[v]
<1> DEFINE P == Popped(LaneOf(c), runners, waiters, maxSlots)
<1>1. pc[c] = "lock" /\ pc'[c] = "parked"
  BY DEF Preempt, Goto, TypeOK
<1>2. v \in Victims(LaneOf(c), Taken(P), PrioOf(c))
  BY DEF Preempt
<1>3. Taken(P) \subseteq Calls
  BY PoppedWaits DEF Taken, Live, TypeOK
<1> HIDE DEF P
<1>4. /\ v \in Calls /\ LaneOf(v) = LaneOf(c) /\ effPrio[v] > PrioOf(c)
      /\ \A r \in OnLane(Taken(P), LaneOf(c)) : effPrio[r] =< effPrio[v]
  BY <1>2, <1>3 DEF Victims, OnLane
<1>5. ASSUME NEW d \in Calls, leaderOf[d] = v PROVE PrioOf(c) < PrioOf(d)
  <2>1. leaderOf[v] = v
    BY <1>4, <1>5, SchedulerAssumption DEF PartyInv
  <2>2. effPrio[v] =< PrioOf(d)
    BY <1>4, <1>5, <2>1 DEF PartyInv, EffectivePriorityIsBest
  <2>3. PrioOf(c) \in Int /\ PrioOf(d) \in Int /\ effPrio[v] \in Int
    BY <1>4, PriorityType
  <2> QED BY <1>4, <2>2, <2>3
<1>6. OnLane(runners, LaneOf(c)) \subseteq OnLane(Taken(P), LaneOf(c))
  BY DEF OnLane, Taken
<1> QED BY <1>1, <1>4, <1>5, <1>6

\* acquireSlot cancels a run only for a call that is more urgent than all who
\* share the run.
THEOREM PreemptionOfWorse == Spec => PreemptsOnlyWorse
<1> DEFINE Justified ==
      \A v \in preempted' \ preempted :
          \E c \in Calls :
              /\ pc[c] = "lock" /\ pc'[c] = "parked"
              /\ LaneOf(c) = LaneOf(v)
              /\ \A d \in Calls : leaderOf[d] = v => PrioOf(c) < PrioOf(d)
              /\ \A r \in OnLane(runners, LaneOf(c)) : effPrio[r] =< effPrio[v]
<1>1. ASSUME TypeOK, PartyInv, [Next]_vars PROVE Justified
  <2>1. ASSUME NEW c \in Calls, Preempt(c) PROVE Justified
    BY <1>1, <2>1, PreemptStep
  <2>2. ASSUME preempted' = preempted PROVE Justified
    BY <2>2
  <2> HIDE DEF Justified
  <2> QED
    BY <1>1, <2>1, <2>2 DEF Next, vars, callVars, flightVars, laneVars, limitVars,
       Join, Lead, Continue, JoinerReturns, JoinerGivesUp, Acquire, CheckContext,
       RefuseContext, TakeFreeSlot, Enqueue, StartGranted, AbandonQueue, Attempt,
       FnSucceeds, FnFails, FnFailsTransiently, FnExhaustsRetries, BackoffElapses,
       BackoffCanceled, Unwind, Release, Broadcast, DropFlight, CloseFlight,
       CancelContext, SetMaxPerCluster, NotifyUpdate, AllReturned
<1>2. TypeOK /\ PartyInv /\ [Next]_vars => [Justified]_vars
  BY <1>1
<1> QED
  BY <1>2, TypeCorrect, PartyHolds, PTL DEF Spec, PreemptsOnlyWorse

-----------------------------------------------------------------------------
(* The queue *)

\* A waiter that is granted a slot precedes every live waiter of its lane that
\* is not.
LEMMA GrantOrder ==
    ASSUME TypeOK, SeqInv, NEW l, NEW R \in SUBSET Calls, NEW n \in Nat,
           NEW g \in Live(Popped(l, R, waiters, n)),
           NEW w \in LiveOn(l) \ Popped(l, R, waiters, n)
    PROVE  /\ g \in waiters
           /\ PrioOf(g) =< PrioOf(w)
           /\ PrioOf(g) = PrioOf(w) => seq[g] < seq[w]
<1> DEFINE f == n - Cardinality(OnLane(R, l))
<1>1. f \in Int
  BY LaneFinite
<1>2. g \in LiveOn(l) /\ Rank(g) < f
  BY GrantedRank
<1>3. ~(Rank(w) < f)
  BY GrantedRank DEF Live
<1>4. Rank(g) \in Nat /\ Rank(w) \in Nat
  BY <1>2, RankType
<1> HIDE DEF f
<1>5. ~(Rank(w) < Rank(g)) /\ w # g
  BY <1>1, <1>2, <1>3, <1>4
<1>6. Before(g, w)
  BY <1>2, <1>5, RankOrder
<1>7. PrioOf(g) \in Int /\ PrioOf(w) \in Int
  BY <1>2, RankType, PriorityType
<1>8. g \in waiters
  BY <1>2 DEF LiveOn, OnLane, Live
<1> QED BY <1>6, <1>7, <1>8 DEF Before

\* A queue that was served by the last step has nobody to be granted a slot.
LEMMA NothingToGrant ==
    ASSUME TypeOK, NoIdleSlot, NEW l
    PROVE  Live(Popped(l, runners, waiters, maxSlots)) = {}
<1> SUFFICES ASSUME NEW w \in Live(Popped(l, runners, waiters, maxSlots)) PROVE FALSE
  OBVIOUS
<1>1. w \in LiveOn(l) /\ Rank(w) < maxSlots - Cardinality(OnLane(runners, l))
  BY GrantedRank
<1>2. Rank(w) \in Nat
  BY <1>1, RankType
<1>3. Cardinality(OnLane(runners, l)) \in Nat
  BY LaneFinite DEF TypeOK
<1>4. Cardinality(OnLane(runners, l)) >= maxSlots
  BY <1>1 DEF NoIdleSlot, LiveOn, OnLane
<1> QED BY <1>1, <1>2, <1>3, <1>4, LimitType

\* grantNextWaitersLocked and the immediate grant of acquireSlot overtake nobody
\* who waits for a slot and still wants it.
THEOREM QueueOrder == Spec => GrantsInQueueOrder
<1> DEFINE InOrder ==
      \A g \in runners' \ runners :
          \A w \in OnLane(Live(waiters'), LaneOf(g)) \ runners' :
              /\ g \in waiters
              /\ PrioOf(g) =< PrioOf(w)
              /\ PrioOf(g) = PrioOf(w) => seq[g] < seq[w]
<1>1. ASSUME SchedulerInv, NoIdleSlot, [Next]_vars PROVE InOrder
  <2> USE <1>1 DEF SchedulerInv
  <2>1. maxSlots \in Nat /\ runners \in SUBSET Calls
    BY LimitType DEF TypeOK
  <2>2. ASSUME NEW c \in Calls, TakeFreeSlot(c) PROVE InOrder
    <3> DEFINE P == Popped(LaneOf(c), runners, waiters, maxSlots)
    <3>1. Taken(P) = runners
      BY NothingToGrant DEF Taken
    <3>2. runners' = runners \cup {c} /\ waiters' \subseteq waiters
      BY <2>2, <3>1 DEF TakeFreeSlot, Left
    <3>3. Cardinality(OnLane(runners, LaneOf(c))) < maxSlots
      BY <2>2, <3>1 DEF TakeFreeSlot, HasFreeSlot
    <3>4. Cardinality(OnLane(runners, LaneOf(c))) \in Nat
      BY <2>1, LaneFinite
    <3>5. ASSUME NEW w \in OnLane(Live(waiters'), LaneOf(c)) PROVE FALSE
      <4>1. w \in Live(waiters) /\ LaneOf(w) = LaneOf(c)
        BY <3>2, <3>5 DEF OnLane, Live
      <4>2. Cardinality(OnLane(runners, LaneOf(c))) >= maxSlots
        BY <4>1 DEF NoIdleSlot
      <4> QED BY <2>1, <3>3, <3>4, <4>2
    <3> QED BY <3>2, <3>5
  <2>3. ASSUME NEW c \in Calls, Preempt(c) \/ Enqueue(c) PROVE InOrder
    <3>1. runners' = runners
      BY <2>3, NothingToGrant DEF Preempt, Enqueue, Taken
    <3> QED BY <3>1
  <2>4. ASSUME NEW c \in Calls, Release(c) PROVE InOrder
    <3> DEFINE R == runners \ {RemovedEntry(c)}
               P == Popped(LaneOf(c), R, waiters, maxSlots)
    <3>1. runners' = R \cup Live(P) /\ waiters' = waiters \ P
      BY <2>4 DEF Release, Left
    <3>2. R \in SUBSET Calls
      BY <2>1
    <3>3. ASSUME NEW g \in runners' \ runners,
                 NEW w \in OnLane(Live(waiters'), LaneOf(g)) \ runners'
          PROVE  /\ g \in waiters
                 /\ PrioOf(g) =< PrioOf(w)
                 /\ PrioOf(g) = PrioOf(w) => seq[g] < seq[w]
      <4>1. g \in Live(P)
        BY <3>1
      <4>2. LaneOf(g) = LaneOf(c)
        BY <4>1 DEF Live, Popped, OnLane
      <4>3. w \in LiveOn(LaneOf(c)) \ P
        BY <3>1, <4>2 DEF LiveOn, OnLane, Live
      <4> HIDE DEF R
      <4> QED BY <2>1, <3>2, <4>1, <4>3, GrantOrder
    <3> HIDE DEF R, P
    <3> QED BY <3>3
  <2>5. ASSUME NEW n \in Limits, SetMaxPerCluster(n) PROVE InOrder
    <3>1. /\ n \in Nat
          /\ runners' = Taken(PoppedEverywhere(n))
          /\ waiters' = waiters \ PoppedEverywhere(n)
      BY <2>5, SchedulerAssumption DEF SetMaxPerCluster, Left
    <3>2. ASSUME NEW g \in runners' \ runners,
                 NEW w \in OnLane(Live(waiters'), LaneOf(g)) \ runners'
          PROVE  /\ g \in waiters
                 /\ PrioOf(g) =< PrioOf(w)
                 /\ PrioOf(g) = PrioOf(w) => seq[g] < seq[w]
      <4>1. PICK l \in Clusters : g \in Live(Popped(l, runners, waiters, n))
        BY <3>1 DEF Taken, Live, PoppedEverywhere
      <4>2. LaneOf(g) = l
        BY <4>1 DEF Live, Popped, OnLane
      <4>3. w \in LiveOn(l) \ Popped(l, runners, waiters, n)
        BY <3>1, <4>2, ServedEverywhere DEF LiveOn, OnLane, Live
      <4> QED BY <2>1, <3>1, <4>1, <4>3, GrantOrder
    <3> QED BY <3>2
  <2>6. ASSUME runners' = runners PROVE InOrder
    BY <2>6
  <2> HIDE DEF InOrder
  <2> QED
    BY <2>2, <2>3, <2>4, <2>5, <2>6 DEF Next, vars, callVars, flightVars, laneVars,
       limitVars, Join, Lead, Continue, JoinerReturns, JoinerGivesUp, Acquire,
       CheckContext, RefuseContext, StartGranted, AbandonQueue, Attempt, FnSucceeds,
       FnFails, FnFailsTransiently, FnExhaustsRetries, BackoffElapses,
       BackoffCanceled, Unwind, Broadcast, DropFlight, CloseFlight, CancelContext,
       NotifyUpdate, AllReturned
<1>2. SchedulerInv /\ NoIdleSlot /\ [Next]_vars => [InOrder]_vars
  BY <1>1
<1> QED
  BY <1>2, SchedulerInvariant, WorkConservation, PTL DEF Spec, GrantsInQueueOrder
=============================================================================
