-------------------------- MODULE SchedulerProofs --------------------------
(***************************************************************************)
(* Theorems about Scheduler, for every number of calls, keys, lanes and    *)
(* slots.                                                                  *)
(***************************************************************************)
EXTENDS Scheduler, FiniteSetTheorems, WellFoundedInduction, TLAPS

\* The request of a call is typed.
LEMMA RequestType ==
    ASSUME TypeOK, NEW c \in Calls
    PROVE  KeyOf(c) \in Keys /\ PrioOf(c) \in Priorities /\ LaneOf(c) \in Clusters
BY SchedulerAssumption DEF TypeOK, KeyOf, PrioOf, LaneOf

\* Only waiters are popped.
LEMMA PoppedWaits ==
    ASSUME NEW l, NEW R, NEW W, NEW n
    PROVE  Popped(l, R, W, n) \subseteq W
BY DEF Popped, OnLane

LEMMA PoppedEverywhereWaits ==
    ASSUME NEW n
    PROVE  PoppedEverywhere(n) \subseteq waiters
BY PoppedWaits DEF PoppedEverywhere

\* Woken only moves parked calls back to the head of acquireSlot's loop.
LEMMA WokenType ==
    ASSUME TypeOK
    PROVE  Woken \in [Calls -> Stages]
BY DEF TypeOK, Woken, Stages

\* The numbers of entries and waiters are numbers.
LEMMA LaneFinite ==
    ASSUME NEW S \in SUBSET Calls, NEW l
    PROVE  IsFiniteSet(OnLane(S, l)) /\ Cardinality(OnLane(S, l)) \in Nat
BY FS_Subset, FS_CardinalityType, SchedulerAssumption DEF OnLane

LEMMA AppendedType ==
    ASSUME TypeOK, NEW R \in SUBSET Calls, NEW G \in SUBSET Calls
    PROVE  Appended(R, G) \in [Calls -> Nat]
<1> SUFFICES ASSUME NEW d \in Calls PROVE Appended(R, G)[d] \in Nat
  BY DEF Appended
<1>1. place[d] \in Nat
  BY DEF TypeOK
<1>2. Cardinality(OnLane(R, LaneOf(d))) \in Nat
  BY LaneFinite
<1>3. Cardinality({v \in OnLane(G, LaneOf(d)) : Before(v, d)}) \in Nat
  BY LaneFinite, FS_Subset, FS_CardinalityType
<1> QED
  BY <1>1, <1>2, <1>3 DEF Appended

LEMMA NatMin ==
    ASSUME NEW T \in SUBSET Nat, T # {}
    PROVE  \E x \in T : \A y \in T : x =< y
<1>1. PICK x \in T : \A y \in T : ~(<<y, x>> \in OpToRel(<, Nat))
  BY NatLessThanWellFounded, WFMin
<1>2. ASSUME NEW y \in T PROVE x =< y
  <2>1. x \in Nat /\ y \in Nat
    OBVIOUS
  <2>2. y < x => <<y, x>> \in OpToRel(<, Nat)
    BY <2>1 DEF OpToRel
  <2>3. ~(y < x)
    BY <1>1, <2>2, Zenon
  <2> QED
    BY <2>1, <2>3
<1> QED
  BY <1>2

\* A release removes an entry of its lane, if there is one.
LEMMA FirstEntry ==
    ASSUME TypeOK, NEW c \in Calls
    PROVE  \/ RemovedEntry(c) \in OnLane(runners, LaneOf(c))
           \/ OnLane(runners, LaneOf(c)) = {}
<1> DEFINE E == OnLane(runners, LaneOf(c))
           places == {place[r] : r \in E}
<1> SUFFICES ASSUME E # {} PROVE RemovedEntry(c) \in E
  OBVIOUS
<1>1. places \in SUBSET Nat /\ places # {}
  BY DEF TypeOK, OnLane
<1>2. PICK n \in places : \A m \in places : n =< m
  BY <1>1, NatMin
<1>3. \E v \in E : \A r \in E : place[v] =< place[r]
  BY <1>2
<1> QED
  BY <1>3, Zenon DEF RemovedEntry

-----------------------------------------------------------------------------
(* Type correctness *)

LEMMA TypeInit == Init => TypeOK
<1> SUFFICES ASSUME Init PROVE TypeOK
  OBVIOUS
<1>1. effPrio \in [Calls -> Priorities]
  BY SchedulerAssumption DEF Init, PrioOf
<1>2. attempts \in [Calls -> 0 .. Retries]
  BY SchedulerAssumption DEF Init
<1> QED
  BY <1>1, <1>2, SchedulerAssumption DEF Init, TypeOK, Stages, Outcomes

LEMMA TypeNext == TypeOK /\ [Next]_vars => TypeOK'
<1> SUFFICES ASSUME TypeOK, [Next]_vars PROVE TypeOK'
  OBVIOUS
<1> USE DEF vars, callVars, flightVars, laneVars, limitVars, Goto, Settle
<1>1. ASSUME NEW c \in Calls, Join(c) PROVE TypeOK'
  <2>1. KeyOf(c) \in Keys /\ PrioOf(c) \in Priorities
    BY RequestType
  <2>2. inFlight[KeyOf(c)] \in Calls
    BY <1>1, <2>1 DEF Join, TypeOK
  <2> QED
    BY <1>1, <2>1, <2>2 DEF Join, TypeOK, BestPriority, Stages
<1>2. ASSUME NEW c \in Calls, Lead(c) PROVE TypeOK'
  BY <1>2, RequestType DEF Lead, TypeOK, Stages
<1>3. ASSUME NEW c \in Calls, JoinerReturns(c) \/ JoinerGivesUp(c) PROVE TypeOK'
  <2>1. CASE JoinerReturns(c)
    <3>1. flightErr[leaderOf[c]] \in Outcomes
      BY <2>1 DEF JoinerReturns, TypeOK
    <3> QED
      BY <2>1, <3>1 DEF JoinerReturns, TypeOK, Stages
  <2>2. CASE JoinerGivesUp(c)
    BY <2>2 DEF JoinerGivesUp, TypeOK, Stages, Outcomes
  <2> QED
    BY <1>3, <2>1, <2>2
<1>4. ASSUME NEW c \in Calls, Acquire(c) PROVE TypeOK'
  <2>1. CASE CheckContext(c) \/ RefuseContext(c) \/ StartGranted(c) \/ AbandonQueue(c)
    BY <2>1 DEF CheckContext, RefuseContext, StartGranted, AbandonQueue, TypeOK,
                Stages, Outcomes
  <2> DEFINE P == Popped(LaneOf(c), runners, waiters, maxSlots)
             places == Appended(runners, Live(P))
  <2>a. P \subseteq waiters /\ waiters \subseteq Calls /\ runners \subseteq Calls
    BY PoppedWaits DEF TypeOK
  <2>b. Taken(P) \in SUBSET Calls /\ Left(P) \in SUBSET Calls /\ Live(P) \in SUBSET Calls
    BY <2>a DEF Taken, Left, Live
  <2>c. places \in [Calls -> Nat]
    BY <2>a, <2>b, AppendedType
  <2>2. CASE TakeFreeSlot(c)
    <3>1. Cardinality(OnLane(Taken(P), LaneOf(c))) \in Nat
      BY <2>b, LaneFinite
    <3>2. /\ runners' = Taken(P) \cup {c}
          /\ holders' = holders \cup Live(P) \cup {c}
          /\ place' = [places EXCEPT ![c] = Cardinality(OnLane(Taken(P), LaneOf(c))) + 1]
          /\ waiters' = Left(P)
      BY <2>2 DEF TakeFreeSlot
    <3>3. /\ pc' = [pc EXCEPT ![c] = "attempt"]
          /\ UNCHANGED <<callVars, flightVars, limitVars, preempted, seq, laneSeq,
                         flightErr, attempts, ret>>
      BY <2>2 DEF TakeFreeSlot
    <3> HIDE DEF P, places
    <3>4. place' \in [Calls -> Nat] /\ runners' \subseteq Calls
          /\ holders' \subseteq Calls /\ waiters' \subseteq Calls
      BY <2>b, <2>c, <3>1, <3>2 DEF TypeOK
    <3> QED
      BY <3>3, <3>4 DEF TypeOK, Stages
  <2>3. CASE Preempt(c)
    <3>1. Victims(LaneOf(c), Taken(P), PrioOf(c)) \subseteq Calls
      BY <2>b DEF Victims, OnLane
    <3>2. /\ runners' = Taken(P) /\ holders' = holders \cup Live(P)
          /\ place' = places /\ waiters' = Left(P)
          /\ preempted' \subseteq Calls
      BY <2>3, <3>1 DEF Preempt, TypeOK
    <3> HIDE DEF P, places
    <3> QED
      BY <2>3, <2>b, <2>c, <3>2 DEF Preempt, TypeOK, Stages
  <2>4. CASE Enqueue(c)
    <3>1. LaneOf(c) \in Clusters
      BY RequestType
    <3>2. /\ runners' = Taken(P) /\ holders' = holders \cup Live(P)
          /\ place' = places /\ waiters' = Left(P) \cup {c}
      BY <2>4 DEF Enqueue
    <3>3. /\ pc' = [pc EXCEPT ![c] = "queued"]
          /\ laneSeq' = [laneSeq EXCEPT ![LaneOf(c)] = @ + 1]
          /\ seq' = [seq EXCEPT ![c] = laneSeq[LaneOf(c)] + 1]
          /\ UNCHANGED <<callVars, flightVars, limitVars, preempted, flightErr,
                         attempts, ret>>
      BY <2>4 DEF Enqueue
    <3> HIDE DEF P, places
    <3>4. place' \in [Calls -> Nat] /\ runners' \subseteq Calls
          /\ holders' \subseteq Calls /\ waiters' \subseteq Calls
      BY <2>b, <2>c, <3>2 DEF TypeOK
    <3>5. laneSeq' \in [Clusters -> Nat] /\ seq' \in [Calls -> Nat]
      BY <3>1, <3>3 DEF TypeOK
    <3> QED
      BY <3>3, <3>4, <3>5 DEF TypeOK, Stages
  <2> QED
    BY <1>4, <2>1, <2>2, <2>3, <2>4 DEF Acquire
<1>5. ASSUME NEW c \in Calls, Attempt(c) PROVE TypeOK'
  <2>1. CASE FnSucceeds(c) \/ FnFails(c) \/ BackoffElapses(c) \/ BackoffCanceled(c)
    BY <2>1 DEF FnSucceeds, FnFails, BackoffElapses, BackoffCanceled, TypeOK,
                Stages, Outcomes
  <2>2. CASE FnFailsTransiently(c) \/ FnExhaustsRetries(c)
    <3>1. attempts[c] + 1 \in 0 .. Retries
      BY <2>2, SchedulerAssumption
      DEF FnFailsTransiently, FnExhaustsRetries, HasAttemptsLeft, TypeOK
    <3> QED
      BY <2>2, <3>1 DEF FnFailsTransiently, FnExhaustsRetries, TypeOK, Stages, Outcomes
  <2> QED
    BY <1>5, <2>1, <2>2 DEF Attempt
<1>6. ASSUME NEW c \in Calls, Unwind(c) PROVE TypeOK'
  <2>1. CASE Release(c)
    <3> DEFINE v == RemovedEntry(c)
               R == runners \ {v}
               P == Popped(LaneOf(c), R, waiters, maxSlots)
               places == Appended(R, Live(P))
               moved == [d \in Calls |->
                            IF d \in OnLane(R, LaneOf(c)) /\ place[d] > place[v]
                            THEN place[d] - 1 ELSE places[d]]
    <3>1. /\ runners' = R \cup Live(P) /\ holders' = (holders \ {c}) \cup Live(P)
          /\ place' = moved /\ waiters' = Left(P)
      BY <2>1 DEF Release
    <3>2. R \subseteq Calls /\ Left(P) \subseteq Calls /\ Live(P) \subseteq Calls
      BY PoppedWaits DEF TypeOK, Left, Live
    <3>3. places \in [Calls -> Nat]
      BY <3>2, AppendedType
    <3>4. v \in OnLane(runners, LaneOf(c)) \/ OnLane(runners, LaneOf(c)) = {}
      BY FirstEntry
    <3>5. ASSUME NEW d \in Calls PROVE moved[d] \in Nat
      <4>1. CASE d \in OnLane(R, LaneOf(c)) /\ place[d] > place[v]
        <5>1. v \in Calls
          BY <3>4, <4>1 DEF OnLane, TypeOK
        <5>2. place[v] \in Nat /\ place[d] \in Nat
          BY <5>1 DEF TypeOK
        <5>3. place[d] - 1 \in Nat
          BY <4>1, <5>2
        <5> QED
          BY <4>1, <5>3
      <4>2. CASE ~(d \in OnLane(R, LaneOf(c)) /\ place[d] > place[v])
        BY <3>3, <4>2
      <4> QED
        BY <4>1, <4>2
    <3> HIDE DEF R, P, places, v
    <3>6. place' \in [Calls -> Nat]
      BY <3>1, <3>5
    <3> HIDE DEF moved
    <3> QED
      BY <2>1, <3>1, <3>2, <3>6 DEF Release, TypeOK, Stages
  <2>2. CASE Broadcast(c)
    BY <2>2, WokenType DEF Broadcast, TypeOK, Stages
  <2>3. CASE DropFlight(c) \/ CloseFlight(c)
    BY <2>3 DEF DropFlight, CloseFlight, TypeOK, Stages
  <2> QED
    BY <1>6, <2>1, <2>2, <2>3 DEF Unwind
<1>7. ASSUME NEW c \in Calls, CancelContext(c) PROVE TypeOK'
  BY <1>7 DEF CancelContext, TypeOK
<1>8. ASSUME NEW n \in Limits, SetMaxPerCluster(n) PROVE TypeOK'
  <2> DEFINE P == PoppedEverywhere(n)
             places == Appended(runners, Live(P))
  <2>1. P \subseteq waiters /\ waiters \subseteq Calls /\ runners \subseteq Calls
    BY PoppedEverywhereWaits DEF TypeOK
  <2>2. Taken(P) \subseteq Calls /\ Left(P) \subseteq Calls /\ Live(P) \subseteq Calls
    BY <2>1 DEF Taken, Left, Live
  <2>3. places \in [Calls -> Nat]
    BY <2>1, <2>2, AppendedType
  <2>4. /\ runners' = Taken(P) /\ holders' = holders \cup Live(P)
        /\ place' = places /\ waiters' = Left(P)
    BY <1>8 DEF SetMaxPerCluster
  <2> HIDE DEF P, places
  <2> QED
    BY <1>8, <2>2, <2>3, <2>4, SchedulerAssumption DEF SetMaxPerCluster, TypeOK
<1>9. ASSUME NotifyUpdate PROVE TypeOK'
  BY <1>9, WokenType, SchedulerAssumption DEF NotifyUpdate, TypeOK
<1>10. CASE UNCHANGED vars
  BY <1>10 DEF TypeOK
<1> QED
  BY <1>1, <1>2, <1>3, <1>4, <1>5, <1>6, <1>7, <1>8, <1>9, <1>10
  DEF Next, Continue, AllReturned

\* Every variable keeps its type, whatever the constants are: in particular a
\* run never makes more than Retries attempts.
THEOREM TypeCorrect == Spec => []TypeOK
BY TypeInit, TypeNext, PTL DEF Spec

-----------------------------------------------------------------------------
(* The inductive invariant: the inFlight map and the slots agree with where
   each call is. *)

LEMMA InvInit == Init => FlightInv /\ SlotInv /\ CountInv /\ SeqInv
BY SchedulerAssumption DEF Init, FlightInv, SlotInv, CountInv, SeqInv, KeyOf

\* The steps that leave the inFlight map alone and do not move a call into or
\* out of the stages in which it leads its key.
LEMMA FlightFrame ==
    ASSUME FlightInv, UNCHANGED <<req, inFlight>>,
           \A c \in Calls : pc'[c] \in {"idle", "joined", "close", "returned"}
                               <=> pc[c] \in {"idle", "joined", "close", "returned"}
    PROVE  FlightInv'
BY DEF FlightInv, KeyOf

LEMMA FlightNext == TypeOK /\ FlightInv /\ [Next]_vars => FlightInv'
<1> SUFFICES ASSUME TypeOK, FlightInv, [Next]_vars PROVE FlightInv'
  OBVIOUS
<1> USE DEF vars, callVars, flightVars, laneVars, limitVars, Goto
<1>1. ASSUME NEW c \in Calls, Join(c) PROVE FlightInv'
  BY <1>1, FlightFrame DEF Join, TypeOK
<1>2. ASSUME NEW c \in Calls, Lead(c) PROVE FlightInv'
  BY <1>2, RequestType, SchedulerAssumption
  DEF Lead, NotInFlight, FlightInv, TypeOK, KeyOf
<1>3. ASSUME NEW c \in Calls, JoinerReturns(c) \/ JoinerGivesUp(c) PROVE FlightInv'
  BY <1>3, FlightFrame DEF JoinerReturns, JoinerGivesUp, TypeOK
<1>4. ASSUME NEW c \in Calls, Acquire(c) PROVE FlightInv'
  BY <1>4, FlightFrame
  DEF Acquire, CheckContext, RefuseContext, TakeFreeSlot, Preempt, Enqueue,
      StartGranted, AbandonQueue, TypeOK
<1>5. ASSUME NEW c \in Calls, Attempt(c) PROVE FlightInv'
  BY <1>5, FlightFrame
  DEF Attempt, FnSucceeds, FnFails, FnFailsTransiently, FnExhaustsRetries,
      BackoffElapses, BackoffCanceled, TypeOK
<1>6. ASSUME NEW c \in Calls, Unwind(c) PROVE FlightInv'
  <2>1. CASE Release(c) \/ CloseFlight(c)
    BY <2>1, FlightFrame DEF Release, CloseFlight, TypeOK
  <2>2. CASE Broadcast(c)
    BY <2>2, FlightFrame DEF Broadcast, Woken, TypeOK
  <2>3. CASE DropFlight(c)
    BY <2>3, RequestType, SchedulerAssumption DEF DropFlight, FlightInv, TypeOK, KeyOf
  <2> QED
    BY <1>6, <2>1, <2>2, <2>3 DEF Unwind
<1>7. ASSUME NEW c \in Calls, CancelContext(c) PROVE FlightInv'
  BY <1>7, FlightFrame DEF CancelContext
<1>8. ASSUME NEW n \in Limits, SetMaxPerCluster(n) PROVE FlightInv'
  BY <1>8, FlightFrame DEF SetMaxPerCluster
<1>9. ASSUME NotifyUpdate PROVE FlightInv'
  BY <1>9, FlightFrame DEF NotifyUpdate, Woken, TypeOK
<1>10. CASE UNCHANGED vars
  BY <1>10, FlightFrame
<1> QED
  BY <1>1, <1>2, <1>3, <1>4, <1>5, <1>6, <1>7, <1>8, <1>9, <1>10
  DEF Next, Continue, AllReturned

\* Serving the queue moves live waiters, which are queued, to the runners.
LEMMA SlotGrant ==
    ASSUME TypeOK, SlotInv, NEW P \in SUBSET waiters, UNCHANGED <<pc, ctxDone>>,
           runners' = Taken(P), holders' = holders \cup Live(P), waiters' = Left(P)
    PROVE  SlotInv'
BY DEF TypeOK, SlotInv, Taken, Left, Live

LEMMA SlotNext == TypeOK /\ SlotInv /\ [Next]_vars => SlotInv'
<1> SUFFICES ASSUME TypeOK, SlotInv, [Next]_vars PROVE SlotInv'
  OBVIOUS
<1> USE DEF vars, callVars, flightVars, laneVars, limitVars, Goto
<1>1. ASSUME NEW c \in Calls, Join(c) \/ Lead(c) PROVE SlotInv'
  BY <1>1 DEF Join, Lead, TypeOK, SlotInv
<1>2. ASSUME NEW c \in Calls, JoinerReturns(c) \/ JoinerGivesUp(c) PROVE SlotInv'
  BY <1>2 DEF JoinerReturns, JoinerGivesUp, TypeOK, SlotInv
<1>3. ASSUME NEW c \in Calls, Acquire(c) PROVE SlotInv'
  <2> DEFINE P == Popped(LaneOf(c), runners, waiters, maxSlots)
  <2>1. P \in SUBSET waiters
    BY PoppedWaits
  <2>2. CASE CheckContext(c) \/ RefuseContext(c) \/ StartGranted(c) \/ AbandonQueue(c)
    BY <2>2 DEF CheckContext, RefuseContext, StartGranted, AbandonQueue, TypeOK, SlotInv
  <2>3. CASE TakeFreeSlot(c)
    <3>1. /\ runners' = Taken(P) \cup {c} /\ waiters' = Left(P)
          /\ holders' = holders \cup Live(P) \cup {c}
          /\ pc' = [pc EXCEPT ![c] = "attempt"] /\ pc[c] = "lock" /\ ctxDone' = ctxDone
      BY <2>3 DEF TakeFreeSlot
    <3> HIDE DEF P
    <3> QED
      BY <3>1, <2>1 DEF TypeOK, SlotInv, Taken, Left, Live
  <2>4. CASE Preempt(c)
    <3>1. /\ runners' = Taken(P) /\ waiters' = Left(P)
          /\ holders' = holders \cup Live(P)
          /\ pc' = [pc EXCEPT ![c] = "parked"] /\ pc[c] = "lock" /\ ctxDone' = ctxDone
      BY <2>4 DEF Preempt
    <3> HIDE DEF P
    <3> QED
      BY <3>1, <2>1 DEF TypeOK, SlotInv, Taken, Left, Live
  <2>5. CASE Enqueue(c)
    <3>1. /\ runners' = Taken(P) /\ waiters' = Left(P) \cup {c}
          /\ holders' = holders \cup Live(P)
          /\ pc' = [pc EXCEPT ![c] = "queued"] /\ pc[c] = "lock" /\ ctxDone' = ctxDone
      BY <2>5 DEF Enqueue
    <3> HIDE DEF P
    <3> QED
      BY <3>1, <2>1 DEF TypeOK, SlotInv, Taken, Left, Live
  <2> QED
    BY <1>3, <2>2, <2>3, <2>4, <2>5 DEF Acquire
<1>4. ASSUME NEW c \in Calls, Attempt(c) PROVE SlotInv'
  BY <1>4
  DEF Attempt, FnSucceeds, FnFails, FnFailsTransiently, FnExhaustsRetries,
      BackoffElapses, BackoffCanceled, TypeOK, SlotInv
<1>5. ASSUME NEW c \in Calls, Unwind(c) PROVE SlotInv'
  <2>1. CASE Release(c)
    <3> DEFINE v == RemovedEntry(c)
               P == Popped(LaneOf(c), runners \ {v}, waiters, maxSlots)
    <3>1. P \in SUBSET waiters
      BY PoppedWaits
    <3>2. /\ runners' = (runners \ {v}) \cup Live(P) /\ waiters' = Left(P)
          /\ holders' = (holders \ {c}) \cup Live(P)
          /\ pc' = [pc EXCEPT ![c] = "broadcast"] /\ pc[c] = "release"
          /\ ctxDone' = ctxDone
      BY <2>1 DEF Release
    <3> HIDE DEF P, v
    <3> QED
      BY <3>1, <3>2 DEF TypeOK, SlotInv, Left, Live
  <2>2. CASE Broadcast(c)
    BY <2>2 DEF Broadcast, Woken, TypeOK, SlotInv
  <2>3. CASE DropFlight(c) \/ CloseFlight(c)
    BY <2>3 DEF DropFlight, CloseFlight, TypeOK, SlotInv
  <2> QED
    BY <1>5, <2>1, <2>2, <2>3 DEF Unwind
<1>6. ASSUME NEW c \in Calls, CancelContext(c) PROVE SlotInv'
  BY <1>6 DEF CancelContext, TypeOK, SlotInv
<1>7. ASSUME NEW n \in Limits, SetMaxPerCluster(n) PROVE SlotInv'
  BY <1>7, PoppedEverywhereWaits, SlotGrant DEF SetMaxPerCluster
<1>8. ASSUME NotifyUpdate PROVE SlotInv'
  BY <1>8 DEF NotifyUpdate, Woken, TypeOK, SlotInv
<1>9. CASE UNCHANGED vars
  BY <1>9 DEF SlotInv
<1> QED
  BY <1>1, <1>2, <1>3, <1>4, <1>5, <1>6, <1>7, <1>8, <1>9
  DEF Next, Continue, AllReturned

\* The step that numbers a waiter takes a number beyond all of its lane's.
LEMMA SeqNext == TypeOK /\ SeqInv /\ [Next]_vars => SeqInv'
<1> SUFFICES ASSUME TypeOK, SeqInv, [Next]_vars PROVE SeqInv'
  OBVIOUS
<1> USE DEF vars, callVars, flightVars, laneVars, limitVars
<1>1. ASSUME UNCHANGED <<req, seq, laneSeq>>, waiters' \subseteq waiters PROVE SeqInv'
  BY <1>1 DEF SeqInv, LaneOf, KeyOf
<1>2. ASSUME NEW c \in Calls, Enqueue(c) PROVE SeqInv'
  <2> DEFINE l == LaneOf(c)
             P == Popped(l, runners, waiters, maxSlots)
  <2>1. /\ waiters' = Left(P) \cup {c} /\ req' = req
        /\ laneSeq' = [laneSeq EXCEPT ![l] = @ + 1]
        /\ seq' = [seq EXCEPT ![c] = laneSeq[l] + 1]
    BY <1>2 DEF Enqueue
  <2>2. \A d \in Calls : LaneOf(d)' = LaneOf(d) /\ LaneOf(d) \in Clusters
    BY <2>1, RequestType DEF LaneOf, KeyOf
  <2>3. Left(P) \subseteq waiters /\ waiters \subseteq Calls
    BY DEF Left, TypeOK
  <2> HIDE DEF P, l
  <2>4. l \in Clusters /\ l = LaneOf(c)
    BY <2>2 DEF l
  <2> QED
    BY <2>1, <2>2, <2>3, <2>4 DEF SeqInv, TypeOK
<1>3. ASSUME NEW c \in Calls, Join(c) \/ Lead(c) \/ JoinerReturns(c) \/ JoinerGivesUp(c)
                              \/ CancelContext(c)
      PROVE  SeqInv'
  BY <1>1, <1>3 DEF Join, Lead, JoinerReturns, JoinerGivesUp, CancelContext
<1>4. ASSUME NEW c \in Calls, Acquire(c) PROVE SeqInv'
  BY <1>1, <1>2, <1>4
  DEF Acquire, CheckContext, RefuseContext, TakeFreeSlot, Preempt, StartGranted,
      AbandonQueue, Left
<1>5. ASSUME NEW c \in Calls, Attempt(c) \/ Unwind(c) PROVE SeqInv'
  BY <1>1, <1>5
  DEF Attempt, FnSucceeds, FnFails, FnFailsTransiently, FnExhaustsRetries,
      BackoffElapses, BackoffCanceled, Unwind, Release, Broadcast, DropFlight,
      CloseFlight, Left
<1>6. ASSUME NEW n \in Limits, SetMaxPerCluster(n) PROVE SeqInv'
  BY <1>1, <1>6 DEF SetMaxPerCluster, Left
<1>7. ASSUME NotifyUpdate PROVE SeqInv'
  BY <1>1, <1>7 DEF NotifyUpdate
<1>8. CASE UNCHANGED vars
  BY <1>1, <1>8
<1> QED
  BY <1>3, <1>4, <1>5, <1>6, <1>7, <1>8 DEF Next, Continue, AllReturned

-----------------------------------------------------------------------------
(* The lanes have as many entries as slots are held. *)

LEMMA SizeOfUnion ==
    ASSUME NEW S, NEW T, IsFiniteSet(S), IsFiniteSet(T), S \cap T = {}
    PROVE  Cardinality(S \cup T) = Cardinality(S) + Cardinality(T)
<1>1. /\ Cardinality(S) \in Nat /\ Cardinality(T) \in Nat
      /\ Cardinality(S \cup T) = Cardinality(S) + Cardinality(T) - Cardinality(S \cap T)
  BY FS_Union, FS_CardinalityType
<1>2. Cardinality(S \cap T) = 0
  BY FS_EmptySet, Zenon
<1> QED
  BY <1>1, <1>2

\* Granting waiters adds as many entries as slots: R and H become S and T.
LEMMA GrantCount ==
    ASSUME TypeOK, SlotInv, NEW R, NEW H, NEW S, NEW T, NEW l,
           R \subseteq runners, H \subseteq holders,
           R \subseteq S, H \subseteq T,
           \A d \in S \ R : d \in waiters /\ d \in T,
           \A d \in T \ H : d \in waiters /\ d \in S,
           Cardinality(OnLane(R, l)) = Cardinality(OnLane(H, l))
    PROVE  Cardinality(OnLane(S, l)) = Cardinality(OnLane(T, l))
<1> DEFINE r == OnLane(R, l)
           h == OnLane(H, l)
           g == OnLane(S \ R, l)
<1>1. IsFiniteSet(r) /\ IsFiniteSet(h) /\ IsFiniteSet(g)
  <2>1. R \in SUBSET Calls /\ H \in SUBSET Calls /\ S \ R \in SUBSET Calls
    BY DEF TypeOK
  <2> QED
    BY <2>1, LaneFinite
<1>2. r \cap g = {} /\ h \cap g = {}
  BY DEF OnLane, SlotInv, TypeOK
<1>3. OnLane(S, l) = r \cup g /\ OnLane(T, l) = h \cup g
  BY DEF OnLane, SlotInv, TypeOK
<1>4. Cardinality(r) = Cardinality(h)
  OBVIOUS
<1> HIDE DEF r, g, h
<1>5. Cardinality(r \cup g) = Cardinality(r) + Cardinality(g)
  BY <1>1, <1>2, SizeOfUnion
<1>6. Cardinality(h \cup g) = Cardinality(h) + Cardinality(g)
  BY <1>1, <1>2, SizeOfUnion
<1> QED
  BY <1>3, <1>4, <1>5, <1>6

\* The steps that only serve queues.
LEMMA CountGrant ==
    ASSUME TypeOK, SlotInv, CountInv, NEW G \in SUBSET waiters, req' = req,
           runners' = runners \cup G, holders' = holders \cup G
    PROVE  CountInv'
<1> SUFFICES ASSUME NEW l \in Clusters
             PROVE  Cardinality(OnLane(runners', l)) = Cardinality(OnLane(holders', l))
  BY DEF CountInv, OnLane, LaneOf, KeyOf
<1>1. Cardinality(OnLane(runners, l)) = Cardinality(OnLane(holders, l))
  BY DEF CountInv
<1>2. \A d \in G : d \in waiters
  OBVIOUS
<1> QED
  BY <1>1, <1>2, GrantCount

\* A call that releases a slot finds an entry of its lane to remove, though it
\* may be another call's.
LEMMA EntryOfLane ==
    ASSUME TypeOK, SlotInv, CountInv, NEW c \in Calls, pc[c] = "release"
    PROVE  RemovedEntry(c) \in OnLane(runners, LaneOf(c))
<1> DEFINE E == OnLane(runners, LaneOf(c))
           H == OnLane(holders, LaneOf(c))
<1>1. c \in H
  BY DEF SlotInv, OnLane
<1>2. IsFiniteSet(H)
  BY LaneFinite DEF TypeOK
<1>3. Cardinality(E) = Cardinality(H)
  BY RequestType DEF CountInv
<1> HIDE DEF H
<1>4. Cardinality(H) # 0
  BY <1>1, <1>2, FS_EmptySet
<1>5. E # {}
  BY <1>3, <1>4, FS_EmptySet, Zenon
<1> QED
  BY <1>5, FirstEntry

\* A release takes one entry off the lane and gives one slot back.
LEMMA ReleaseCount ==
    ASSUME TypeOK, SlotInv, CountInv, NEW c \in Calls, pc[c] = "release", NEW l \in Clusters
    PROVE  Cardinality(OnLane(runners \ {RemovedEntry(c)}, l))
             = Cardinality(OnLane(holders \ {c}, l))
<1> DEFINE v == RemovedEntry(c)
           E == OnLane(runners, l)
           H == OnLane(holders, l)
<1>1. v \in OnLane(runners, LaneOf(c)) /\ c \in OnLane(holders, LaneOf(c))
  BY EntryOfLane DEF SlotInv, OnLane
<1>2. IsFiniteSet(E) /\ IsFiniteSet(H) /\ Cardinality(E) = Cardinality(H)
  BY LaneFinite DEF TypeOK, CountInv
<1>3. OnLane(runners \ {v}, l) = E \ {v} /\ OnLane(holders \ {c}, l) = H \ {c}
  BY DEF OnLane
<1>4. v \in E <=> c \in H
  BY <1>1 DEF OnLane
<1> HIDE DEF v, E, H
<1>5. /\ Cardinality(E \ {v}) = IF v \in E THEN Cardinality(E) - 1 ELSE Cardinality(E)
      /\ Cardinality(H \ {c}) = IF c \in H THEN Cardinality(H) - 1 ELSE Cardinality(H)
  BY <1>2, FS_RemoveElement
<1> QED
  BY <1>2, <1>3, <1>4, <1>5 DEF v

LEMMA CountNext == TypeOK /\ SlotInv /\ CountInv /\ [Next]_vars => CountInv'
<1> SUFFICES ASSUME TypeOK, SlotInv, CountInv, [Next]_vars PROVE CountInv'
  OBVIOUS
<1> USE DEF vars, callVars, flightVars, laneVars, limitVars
<1>1. ASSUME UNCHANGED <<req, runners, holders>> PROVE CountInv'
  BY <1>1 DEF CountInv, OnLane, LaneOf, KeyOf
<1>2. ASSUME NEW c \in Calls, TakeFreeSlot(c) PROVE CountInv'
  <2> DEFINE P == Popped(LaneOf(c), runners, waiters, maxSlots)
             R == Taken(P)
             H == holders \cup Live(P)
  <2>1. runners' = R \cup {c} /\ holders' = H \cup {c} /\ req' = req /\ pc[c] = "lock"
    BY <1>2 DEF TakeFreeSlot
  <2>2. Live(P) \in SUBSET waiters
    BY PoppedWaits DEF Live
  <2>3. c \notin R /\ c \notin H
    BY <2>1, <2>2 DEF SlotInv, Taken
  <2>4. R \in SUBSET Calls /\ H \in SUBSET Calls
    BY <2>2 DEF TypeOK, Taken
  <2> SUFFICES ASSUME NEW l \in Clusters
               PROVE  Cardinality(OnLane(runners', l)) = Cardinality(OnLane(holders', l))
    BY <2>1 DEF CountInv, OnLane, LaneOf, KeyOf
  <2>5. Cardinality(OnLane(R, l)) = Cardinality(OnLane(H, l))
    <3>1. Cardinality(OnLane(runners, l)) = Cardinality(OnLane(holders, l))
      BY DEF CountInv
    <3>2. R = runners \cup Live(P) /\ H = holders \cup Live(P)
      BY DEF Taken
    <3> HIDE DEF P, R, H
    <3> QED
      BY <2>2, <3>1, <3>2, GrantCount
  <2> HIDE DEF R, H
  <2>6. CASE l = LaneOf(c)
    <3>1. OnLane(runners', l) = OnLane(R, l) \cup {c}
      BY <2>1, <2>6 DEF OnLane
    <3>2. OnLane(holders', l) = OnLane(H, l) \cup {c}
      BY <2>1, <2>6 DEF OnLane
    <3>3. IsFiniteSet(OnLane(R, l)) /\ IsFiniteSet(OnLane(H, l))
      BY <2>4, LaneFinite
    <3>4. c \notin OnLane(R, l) /\ c \notin OnLane(H, l)
      BY <2>3 DEF OnLane
    <3>5. Cardinality(OnLane(R, l) \cup {c}) = Cardinality(OnLane(R, l)) + 1
      BY <3>3, <3>4, FS_AddElement
    <3>6. Cardinality(OnLane(H, l) \cup {c}) = Cardinality(OnLane(H, l)) + 1
      BY <3>3, <3>4, FS_AddElement
    <3> QED
      BY <2>5, <3>1, <3>2, <3>5, <3>6
  <2>7. CASE l # LaneOf(c)
    <3>1. OnLane(runners', l) = OnLane(R, l) /\ OnLane(holders', l) = OnLane(H, l)
      BY <2>1, <2>7 DEF OnLane
    <3> QED
      BY <2>5, <3>1
  <2> QED
    BY <2>6, <2>7
<1>3. ASSUME NEW c \in Calls, Preempt(c) \/ Enqueue(c) PROVE CountInv'
  <2> DEFINE G == Live(Popped(LaneOf(c), runners, waiters, maxSlots))
  <2>1. G \in SUBSET waiters
    BY PoppedWaits DEF Live
  <2>2. runners' = runners \cup G /\ holders' = holders \cup G /\ req' = req
    BY <1>3 DEF Preempt, Enqueue, Taken
  <2> HIDE DEF G
  <2> QED
    BY <2>1, <2>2, CountGrant
<1>4. ASSUME NEW c \in Calls, Release(c) PROVE CountInv'
  <2> DEFINE R == runners \ {RemovedEntry(c)}
             H == holders \ {c}
             G == Live(Popped(LaneOf(c), R, waiters, maxSlots))
  <2>1. runners' = R \cup G /\ holders' = H \cup G /\ req' = req /\ pc[c] = "release"
    BY <1>4 DEF Release
  <2>2. G \in SUBSET waiters
    BY PoppedWaits DEF Live
  <2>0. req' = req
    BY <2>1
  <2> SUFFICES ASSUME NEW l \in Clusters
               PROVE  Cardinality(OnLane(runners', l)) = Cardinality(OnLane(holders', l))
    BY <2>0 DEF CountInv, OnLane, LaneOf, KeyOf
  <2>3. Cardinality(OnLane(R, l)) = Cardinality(OnLane(H, l))
    BY <2>1, ReleaseCount
  <2>4. /\ R \in SUBSET Calls /\ R \subseteq runners
        /\ H \in SUBSET Calls /\ H \subseteq holders
    BY DEF TypeOK
  <2> HIDE DEF R, H, G
  <2> QED
    BY <2>1, <2>2, <2>3, <2>4, GrantCount
<1>5. ASSUME NEW n \in Limits, SetMaxPerCluster(n) PROVE CountInv'
  <2> DEFINE G == Live(PoppedEverywhere(n))
  <2>1. G \in SUBSET waiters
    BY PoppedEverywhereWaits DEF Live
  <2>2. runners' = runners \cup G /\ holders' = holders \cup G /\ req' = req
    BY <1>5 DEF SetMaxPerCluster, Taken
  <2> HIDE DEF G
  <2> QED
    BY <2>1, <2>2, CountGrant
<1>6. ASSUME NEW c \in Calls, Acquire(c) PROVE CountInv'
  BY <1>1, <1>2, <1>3, <1>6
  DEF Acquire, CheckContext, RefuseContext, StartGranted, AbandonQueue
<1>7. ASSUME NEW c \in Calls, Attempt(c) \/ Unwind(c) PROVE CountInv'
  BY <1>1, <1>4, <1>7
  DEF Attempt, FnSucceeds, FnFails, FnFailsTransiently, FnExhaustsRetries,
      BackoffElapses, BackoffCanceled, Unwind, Broadcast, DropFlight, CloseFlight
<1>8. ASSUME NEW c \in Calls, Join(c) \/ Lead(c) \/ JoinerReturns(c) \/ JoinerGivesUp(c)
                              \/ CancelContext(c)
      PROVE  CountInv'
  BY <1>1, <1>8 DEF Join, Lead, JoinerReturns, JoinerGivesUp, CancelContext
<1>9. CASE NotifyUpdate \/ UNCHANGED vars
  BY <1>1, <1>9 DEF NotifyUpdate
<1> QED
  BY <1>5, <1>6, <1>7, <1>8, <1>9 DEF Next, Continue, AllReturned

\* The inductive invariant of the scheduler.
THEOREM SchedulerInvariant == Spec => []SchedulerInv
<1>1. Init => SchedulerInv
  BY TypeInit, InvInit DEF SchedulerInv
<1>2. SchedulerInv /\ [Next]_vars => SchedulerInv'
  BY TypeNext, FlightNext, SlotNext, CountNext, SeqNext DEF SchedulerInv
<1> QED
  BY <1>1, <1>2, PTL DEF Spec

-----------------------------------------------------------------------------
(* What follows from the invariant *)

\* De-duplication: a call runs its fetch only while it holds a slot, and never
\* while another call runs a fetch for the same key.
THEOREM ExclusiveExecution == Spec => []ExecutionIsExclusive
<1>1. SchedulerInv => ExecutionIsExclusive
  BY DEF SchedulerInv, FlightInv, SlotInv, ExecutionIsExclusive, Executing
<1> QED
  BY <1>1, SchedulerInvariant, PTL

\* A key takes up two slots only if one of them is lost.
THEOREM SlotPerKey == Spec => []OneSlotPerKey
<1>1. SchedulerInv => OneSlotPerKey
  BY DEF SchedulerInv, FlightInv, SlotInv, OneSlotPerKey, Orphaned, TypeOK
<1> QED
  BY <1>1, SchedulerInvariant, PTL

\* Whatever the limits, the retries and the preemptions, the one way to lose a
\* slot is a cancellation of the request while it was queued.
THEOREM SlotLossIsCancellation == Spec => []OnlyCancelledCallsLoseSlots
<1>1. SchedulerInv => OnlyCancelledCallsLoseSlots
  BY DEF SchedulerInv, SlotInv, OnlyCancelledCallsLoseSlots, Orphaned
<1> QED
  BY <1>1, SchedulerInvariant, PTL

\* The length of a runner list bounds the executions of its lane, whosever
\* entries the releases removed.
THEOREM EntriesBoundRuns == Spec => []RunsWithinEntries
<1>1. ASSUME SchedulerInv, NEW l \in Clusters
      PROVE  Cardinality({c \in OnLane(Calls, l) : Executing(c)})
                =< Cardinality(OnLane(runners, l))
  <2> DEFINE E == {c \in OnLane(Calls, l) : Executing(c)}
             H == OnLane(holders, l)
  <2>1. E \subseteq H
    BY <1>1 DEF SchedulerInv, SlotInv, OnLane, Executing
  <2>2. IsFiniteSet(H)
    BY <1>1, LaneFinite DEF SchedulerInv, TypeOK
  <2>3. Cardinality(OnLane(runners, l)) = Cardinality(H)
    BY <1>1 DEF SchedulerInv, CountInv
  <2> HIDE DEF E, H
  <2>4. Cardinality(E) =< Cardinality(H)
    BY <2>1, <2>2, FS_Subset
  <2> QED
    BY <2>3, <2>4 DEF E
<1>2. SchedulerInv => RunsWithinEntries
  BY <1>1 DEF RunsWithinEntries
<1> QED
  BY <1>2, SchedulerInvariant, PTL

-----------------------------------------------------------------------------
(* Serving a lane's queue: how many waiters grantNextWaitersLocked grants. *)

\* The live waiters of a lane, and the position of each in the queue.
LiveOn(l) == OnLane(Live(waiters), l)
Rank(w)   == Cardinality({v \in LiveOn(LaneOf(w)) : Before(v, w)})

LEMMA RankType ==
    ASSUME TypeOK, NEW l
    PROVE  /\ IsFiniteSet(LiveOn(l))
           /\ LiveOn(l) \subseteq Calls
           /\ \A w \in LiveOn(l) : Rank(w) \in Nat
<1>1. LiveOn(l) \subseteq Calls
  BY DEF LiveOn, OnLane, Live, TypeOK
<1>2. IsFiniteSet(LiveOn(l))
  BY <1>1, FS_Subset, SchedulerAssumption
<1>3. ASSUME NEW w \in LiveOn(l) PROVE Rank(w) \in Nat
  <2>1. LaneOf(w) = l
    BY DEF LiveOn, OnLane
  <2>2. IsFiniteSet({v \in LiveOn(l) : Before(v, w)})
    BY <1>2, FS_Subset
  <2> QED
    BY <2>1, <2>2, FS_CardinalityType DEF Rank
<1> QED
  BY <1>1, <1>2, <1>3

\* Whoever is before another in the queue has the smaller rank, and of two
\* live waiters of a lane one is before the other.
LEMMA RankOrder ==
    ASSUME TypeOK, SeqInv, NEW l, NEW v \in LiveOn(l), NEW w \in LiveOn(l)
    PROVE  /\ Before(v, w) => Rank(v) < Rank(w)
           /\ v # w => Before(v, w) \/ Before(w, v)
<1> DEFINE preds(x) == {u \in LiveOn(l) : Before(u, x)}
<1>1. LaneOf(v) = l /\ LaneOf(w) = l
  BY DEF LiveOn, OnLane
<1>2. \A x \in LiveOn(l) : PrioOf(x) \in Nat /\ seq[x] \in Nat
  BY RankType, RequestType, SchedulerAssumption DEF TypeOK
<1>3. ASSUME Before(v, w) PROVE Rank(v) < Rank(w)
  <2>1. preds(v) \cup {v} \subseteq preds(w)
    BY <1>2, <1>3 DEF Before
  <2>2. v \notin preds(v)
    BY <1>2 DEF Before
  <2>3. IsFiniteSet(preds(v)) /\ IsFiniteSet(preds(w))
    BY RankType, FS_Subset
  <2>4. Cardinality(preds(v) \cup {v}) = Cardinality(preds(v)) + 1
    BY <2>2, <2>3, FS_AddElement
  <2>5. Cardinality(preds(v) \cup {v}) =< Cardinality(preds(w))
    BY <2>1, <2>3, FS_Subset
  <2>6. Rank(v) = Cardinality(preds(v)) /\ Rank(w) = Cardinality(preds(w))
    BY <1>1 DEF Rank
  <2>7. Cardinality(preds(v)) \in Nat /\ Cardinality(preds(w)) \in Nat
    BY <2>3, FS_CardinalityType
  <2> HIDE DEF preds
  <2> QED
    BY <2>4, <2>5, <2>6, <2>7
<1>4. v # w => Before(v, w) \/ Before(w, v)
  <2>1. v # w => seq[v] # seq[w]
    BY <1>1 DEF SeqInv, LiveOn, OnLane, Live
  <2> QED
    BY <1>2, <2>1 DEF Before
<1> QED
  BY <1>3, <1>4

\* The granted waiters of a lane are those whose rank is below the number of
\* free slots.
LEMMA GrantedRank ==
    ASSUME NEW l, NEW R, NEW n
    PROVE  Live(Popped(l, R, waiters, n))
             = {w \in LiveOn(l) : Rank(w) < n - Cardinality(OnLane(R, l))}
BY DEF Popped, Live, LiveOn, OnLane, Rank

\* A call on lane l is granted a slot only while one is free: there are not
\* more ranks below the number of free slots than that number.
LEMMA GrantedBound ==
    ASSUME TypeOK, SeqInv, NEW l, NEW f \in Nat
    PROVE  /\ IsFiniteSet({w \in LiveOn(l) : Rank(w) < f})
           /\ Cardinality({w \in LiveOn(l) : Rank(w) < f}) =< f
<1> DEFINE G == {w \in LiveOn(l) : Rank(w) < f}
           rank == [w \in G |-> Rank(w)]
<1>1. IsFiniteSet(G) /\ Cardinality(G) \in Nat
  BY RankType, FS_Subset, FS_CardinalityType
<1>2. IsFiniteSet(0 .. f - 1) /\ Cardinality(0 .. f - 1) = f
  BY FS_Interval
<1>3. rank \in [G -> 0 .. f - 1]
  BY RankType
<1>4. \A v, w \in G : v # w => Rank(v) # Rank(w)
  BY RankOrder, RankType
<1>5. \A v, w \in G : v # w => rank[v] # rank[w]
  BY <1>4
<1> HIDE DEF G, rank
<1>6. ~(f < Cardinality(G))
  BY <1>1, <1>2, <1>3, <1>5, FS_PigeonHole
<1>7. Cardinality(G) =< f
  BY <1>1, <1>6
<1> QED
  BY <1>1, <1>7 DEF G

\* A live call is passed over only if as many were granted as slots were free.
LEMMA GrantedEnough ==
    ASSUME TypeOK, SeqInv, NEW l, NEW f \in Nat,
           NEW w \in LiveOn(l), ~(Rank(w) < f)
    PROVE  Cardinality({v \in LiveOn(l) : Rank(v) < f}) >= f
<1> DEFINE G == {v \in LiveOn(l) : Rank(v) < f}
           late == {Rank(v) : v \in LiveOn(l) \ G}
<1>1. late \in SUBSET Nat /\ late # {}
  BY RankType
<1>2. PICK u \in LiveOn(l) \ G : \A v \in LiveOn(l) \ G : Rank(u) =< Rank(v)
  <2>1. PICK r \in late : \A s \in late : r =< s
    BY <1>1, NatMin
  <2> QED
    BY <2>1
<1> DEFINE preds == {v \in LiveOn(l) : Before(v, u)}
<1>3. preds \subseteq G
  BY <1>2, RankOrder, RankType
<1>4. Rank(u) = Cardinality(preds)
  BY DEF Rank, LiveOn, OnLane
<1>5. Rank(u) >= f /\ Rank(u) \in Nat
  BY <1>2, RankType
<1>6. IsFiniteSet(G) /\ Cardinality(G) \in Nat
  BY RankType, FS_Subset, FS_CardinalityType
<1> HIDE DEF G, preds
<1>7. Cardinality(preds) =< Cardinality(G)
  BY <1>3, <1>6, FS_Subset
<1>8. Cardinality(G) >= f
  BY <1>4, <1>5, <1>6, <1>7
<1> QED
  BY <1>8 DEF G

\* The runner lists after the queue of lane l was served, with runner list R
\* and limit n.  The other lanes are not touched.
Served(l, R, n) == R \cup Live(Popped(l, R, waiters, n))

LEMMA OtherLanes ==
    ASSUME NEW l, NEW R, NEW n, NEW m, m # l
    PROVE  OnLane(Served(l, R, n), m) = OnLane(R, m)
BY DEF Served, OnLane, Live, Popped

\* Serving a queue never exceeds the limit, and leaves no slot free while a
\* live call waits.

LEMMA ServeLane ==
    ASSUME TypeOK, SeqInv, NEW l, NEW R \in SUBSET Calls, NEW n \in Nat,
           R \cap waiters = {}
    PROVE  /\ IsFiniteSet(OnLane(Served(l, R, n), l))
           /\ \/ OnLane(Served(l, R, n), l) = OnLane(R, l)
              \/ Cardinality(OnLane(Served(l, R, n), l)) =< n
           /\ \A w \in LiveOn(l) \ Popped(l, R, waiters, n) :
                 Cardinality(OnLane(Served(l, R, n), l)) >= n
<1> DEFINE r == OnLane(R, l)
           f == n - Cardinality(r)
           G == {w \in LiveOn(l) : Rank(w) < f}
<1>1. Live(Popped(l, R, waiters, n)) = G
  BY GrantedRank
<1>2. OnLane(Served(l, R, n), l) = r \cup G
  BY <1>1 DEF Served, OnLane, LiveOn
<1>3. IsFiniteSet(r) /\ Cardinality(r) \in Nat
  BY FS_Subset, FS_CardinalityType, SchedulerAssumption DEF OnLane
<1>4. IsFiniteSet(G) /\ Cardinality(G) \in Nat
  BY RankType, FS_Subset, FS_CardinalityType
<1>5. r \cap G = {}
  BY DEF OnLane, LiveOn, Live
<1>6. IsFiniteSet(r \cup G) /\ Cardinality(r \cup G) = Cardinality(r) + Cardinality(G)
  <2> HIDE DEF r, G
  <2>1. IsFiniteSet(r \cup G)
        /\ Cardinality(r \cup G) = Cardinality(r) + Cardinality(G) - Cardinality(r \cap G)
    BY <1>3, <1>4, FS_Union
  <2>2. Cardinality(r \cap G) = 0
    BY <1>5, FS_EmptySet, Zenon
  <2> QED
    BY <2>1, <2>2, <1>3, <1>4
<1>7. r \cup G = r \/ Cardinality(r \cup G) =< n
  <2>1. CASE f \in Nat
    <3>1. Cardinality(G) =< f
      BY <2>1, GrantedBound
    <3> HIDE DEF r, G
    <3> QED
      BY <3>1, <1>3, <1>4, <1>6
  <2>2. CASE f \notin Nat
    <3>1. G = {}
      BY <2>2, <1>3, RankType
    <3> QED
      BY <3>1
  <2> QED
    BY <2>1, <2>2
<1>8. ASSUME NEW w \in LiveOn(l) \ Popped(l, R, waiters, n)
      PROVE  Cardinality(r \cup G) >= n
  <2>1. w \notin G
    BY <1>1 DEF Live
  <2>2. CASE f \in Nat
    <3>1. Cardinality(G) >= f
      BY <2>1, <2>2, GrantedEnough
    <3> HIDE DEF r, G
    <3> QED
      BY <3>1, <1>3, <1>4, <1>6
  <2>3. CASE f \notin Nat
    <3> HIDE DEF r, G
    <3> QED
      BY <2>3, <1>3, <1>4, <1>6
  <2> QED
    BY <2>2, <2>3
<1> HIDE DEF G
<1> QED
  BY <1>2, <1>6, <1>7, <1>8

-----------------------------------------------------------------------------
(* The slot limit and work conservation *)

LEMMA LimitType ==
    ASSUME TypeOK
    PROVE  maxSlots \in Nat
BY SchedulerAssumption DEF TypeOK

\* What a call asks for never changes.
LEMMA RequestsKept == [Next]_vars => req' = req
BY DEF Next, vars, callVars, flightVars, laneVars, limitVars, Join, Lead, Continue,
       JoinerReturns, JoinerGivesUp, Acquire, CheckContext, RefuseContext, TakeFreeSlot,
       Preempt, Enqueue, StartGranted, AbandonQueue, Attempt, FnSucceeds, FnFails,
       FnFailsTransiently, FnExhaustsRetries, BackoffElapses, BackoffCanceled, Unwind,
       Release, Broadcast, DropFlight, CloseFlight, CancelContext, SetMaxPerCluster,
       NotifyUpdate, AllReturned

\* A policy update serves every lane.
LEMMA ServedEverywhere ==
    ASSUME NEW l \in Clusters, NEW n
    PROVE  /\ OnLane(Taken(PoppedEverywhere(n)), l) = OnLane(Served(l, runners, n), l)
           /\ OnLane(PoppedEverywhere(n), l) = Popped(l, runners, waiters, n)
<1>1. \A m : Popped(m, runners, waiters, n) \subseteq OnLane(waiters, m)
  BY DEF Popped
<1>2. OnLane(PoppedEverywhere(n), l) = Popped(l, runners, waiters, n)
  BY <1>1 DEF PoppedEverywhere, OnLane
<1>3. OnLane(Popped(l, runners, waiters, n), l) = Popped(l, runners, waiters, n)
  BY <1>1 DEF OnLane
<1> QED
  BY <1>2, <1>3 DEF Taken, Served, Live, OnLane

\* No critical section takes a lane above the limit in force.
THEOREM GrantsStayWithinLimit == Spec => GrantsWithinLimit
<1> DEFINE Within(l) ==
      ~(OnLane(runners', l) \subseteq OnLane(runners, l))
          => Cardinality(OnLane(runners', l)) =< maxSlots'
<1>1. ASSUME SchedulerInv, [Next]_vars, NEW l \in Clusters PROVE Within(l)
  <2> USE <1>1 DEF SchedulerInv
  <2>1. maxSlots \in Nat /\ runners \in SUBSET Calls /\ runners \cap waiters = {}
    BY LimitType DEF TypeOK, SlotInv
  <2>2. ASSUME NEW c \in Calls, TakeFreeSlot(c) PROVE Within(l)
    <3> DEFINE S == Served(LaneOf(c), runners, maxSlots)
    <3>1. runners' = S \cup {c} /\ maxSlots' = maxSlots
      BY <2>2 DEF TakeFreeSlot, Taken, Served, limitVars
    <3>2. CASE l = LaneOf(c)
      <4>1. Cardinality(OnLane(S, l)) < maxSlots
        BY <2>2, <3>2 DEF TakeFreeSlot, HasFreeSlot, Taken, Served
      <4>2. IsFiniteSet(OnLane(S, l)) /\ Cardinality(OnLane(S, l)) \in Nat
        BY <2>1, <3>2, ServeLane, FS_CardinalityType
      <4>3. OnLane(runners', l) = OnLane(S, l) \cup {c}
        BY <3>1, <3>2 DEF OnLane
      <4> HIDE DEF S
      <4>4. Cardinality(OnLane(S, l) \cup {c})
              = IF c \in OnLane(S, l) THEN Cardinality(OnLane(S, l))
                                      ELSE Cardinality(OnLane(S, l)) + 1
        BY <4>2, FS_AddElement
      <4>5. Cardinality(OnLane(S, l) \cup {c}) =< maxSlots
        BY <2>1, <4>1, <4>2, <4>4
      <4> QED
        BY <3>1, <4>3, <4>5
    <3>3. CASE l # LaneOf(c)
      <4>1. OnLane(S, l) = OnLane(runners, l)
        BY <3>3, OtherLanes
      <4> QED
        BY <3>1, <3>3, <4>1 DEF OnLane
    <3> QED
      BY <3>2, <3>3
  <2>3. ASSUME NEW c \in Calls, Preempt(c) \/ Enqueue(c) PROVE Within(l)
    <3>1. /\ runners' = Served(LaneOf(c), runners, maxSlots)
          /\ maxSlots' = maxSlots
      BY <2>3 DEF Preempt, Enqueue, Taken, Served, limitVars
    <3>2. CASE l = LaneOf(c)
      BY <2>1, <3>1, <3>2, ServeLane
    <3>3. CASE l # LaneOf(c)
      <4>1. OnLane(runners', l) = OnLane(runners, l)
        BY <3>1, <3>3, OtherLanes
      <4> QED
        BY <4>1
    <3> QED
      BY <3>2, <3>3
  <2>4. ASSUME NEW c \in Calls, Release(c) PROVE Within(l)
    <3> DEFINE R == runners \ {RemovedEntry(c)}
    <3>1. runners' = Served(LaneOf(c), R, maxSlots) /\ maxSlots' = maxSlots
      BY <2>4 DEF Release, Served, limitVars
    <3>2. R \in SUBSET Calls /\ R \cap waiters = {}
      BY <2>1
    <3>3. OnLane(R, l) \subseteq OnLane(runners, l)
      BY DEF OnLane
    <3> HIDE DEF R
    <3>4. CASE l = LaneOf(c)
      BY <2>1, <3>1, <3>2, <3>3, <3>4, ServeLane
    <3>5. CASE l # LaneOf(c)
      <4>1. OnLane(runners', l) = OnLane(R, l)
        BY <3>1, <3>5, OtherLanes
      <4> QED
        BY <3>3, <4>1
    <3> QED
      BY <3>4, <3>5
  <2>5. ASSUME NEW n \in Limits, SetMaxPerCluster(n) PROVE Within(l)
    <3>1. n \in Nat /\ maxSlots' = n
      BY <2>5, SchedulerAssumption DEF SetMaxPerCluster
    <3>2. OnLane(runners', l) = OnLane(Served(l, runners, n), l)
      BY <2>5, ServedEverywhere DEF SetMaxPerCluster
    <3> QED
      BY <2>1, <3>1, <3>2, ServeLane
  <2>6. ASSUME runners' = runners PROVE Within(l)
    BY <2>6
  <2> QED
    BY <2>2, <2>3, <2>4, <2>5, <2>6 DEF Next, vars, callVars, flightVars, laneVars,
       limitVars, Join, Lead, Continue, JoinerReturns, JoinerGivesUp, Acquire,
       CheckContext, RefuseContext, StartGranted, AbandonQueue, Attempt, FnSucceeds,
       FnFails, FnFailsTransiently, FnExhaustsRetries, BackoffElapses,
       BackoffCanceled, Unwind, Broadcast, DropFlight, CloseFlight, CancelContext,
       NotifyUpdate, AllReturned
<1>2. SchedulerInv /\ [Next]_vars
        => [\A l \in Clusters : Within(l)]_vars
  BY <1>1
<1> QED
  BY <1>2, SchedulerInvariant, PTL DEF Spec, GrantsWithinLimit

\* Nobody who still wants a slot of a lane waits while the lane has a free one.
THEOREM WorkConservation == Spec => []NoIdleSlot
<1>1. Init => NoIdleSlot
  BY DEF Init, NoIdleSlot, Live
<1>2. ASSUME SchedulerInv, NoIdleSlot, [Next]_vars PROVE NoIdleSlot'
  <2> USE <1>2 DEF SchedulerInv
  <2>1. /\ maxSlots \in Nat
        /\ runners \in SUBSET Calls
        /\ runners \cap waiters = {}
        /\ \A v \in waiters : LaneOf(v) \in Clusters
    BY LimitType, RequestType, SchedulerAssumption DEF TypeOK, SlotInv, LaneOf
  <2>2. req' = req
    BY RequestsKept
  <2> SUFFICES ASSUME NEW w \in waiters' \ ctxDone'
               PROVE  Cardinality(OnLane(runners', LaneOf(w))) >= maxSlots'
    BY <2>2 DEF NoIdleSlot, Live, OnLane, LaneOf, KeyOf
  <2> DEFINE l == LaneOf(w)
             Full == Cardinality(OnLane(runners', l)) >= maxSlots'
  \* A lane that the step does not touch.
  <2>3. ASSUME w \in waiters, w \notin ctxDone, maxSlots' = maxSlots,
               OnLane(runners', l) = OnLane(runners, l)
        PROVE  Full
    BY <2>1, <2>3 DEF NoIdleSlot, Live
  <2>4. ASSUME NEW c \in Calls, TakeFreeSlot(c) PROVE Full
    <3> DEFINE P == Popped(LaneOf(c), runners, waiters, maxSlots)
               S == Served(LaneOf(c), runners, maxSlots)
    <3>1. /\ runners' = S \cup {c}
          /\ waiters' = waiters \ P
          /\ maxSlots' = maxSlots /\ ctxDone' = ctxDone
      BY <2>4 DEF TakeFreeSlot, Taken, Left, Served, limitVars, callVars
    <3>2. CASE l = LaneOf(c)
      <4>1. Cardinality(OnLane(S, l)) < maxSlots
        BY <2>4, <3>2 DEF TakeFreeSlot, HasFreeSlot, Taken, Served
      <4>2. w \in LiveOn(l) \ P
        BY <3>1 DEF LiveOn, OnLane, Live
      <4>3. Cardinality(OnLane(S, l)) >= maxSlots /\ Cardinality(OnLane(S, l)) \in Nat
        BY <2>1, <3>2, <4>2, ServeLane, FS_CardinalityType
      <4> HIDE DEF S
      <4> QED
        BY <2>1, <4>1, <4>3
    <3>3. CASE l # LaneOf(c)
      <4>1. OnLane(S, l) = OnLane(runners, l)
        BY <3>3, OtherLanes
      <4>2. OnLane(runners', l) = OnLane(runners, l)
        BY <3>1, <3>3, <4>1 DEF OnLane
      <4> HIDE DEF S, P
      <4> QED
        BY <2>3, <3>1, <4>2
    <3> QED
      BY <3>2, <3>3
  <2>5. ASSUME NEW c \in Calls, Preempt(c) \/ Enqueue(c) PROVE Full
    <3> DEFINE P == Popped(LaneOf(c), runners, waiters, maxSlots)
               S == Served(LaneOf(c), runners, maxSlots)
    <3>1. /\ runners' = S
          /\ waiters' \subseteq waiters \cup {c}
          /\ maxSlots' = maxSlots /\ ctxDone' = ctxDone
      BY <2>5 DEF Preempt, Enqueue, Taken, Left, Served, limitVars, callVars
    <3>2. CASE l = LaneOf(c)
      <4>1. ~(Cardinality(OnLane(S, l)) < maxSlots)
        BY <2>5, <3>2 DEF Preempt, Enqueue, HasFreeSlot, Taken, Served
      <4>2. Cardinality(OnLane(S, l)) \in Nat
        BY <2>1, <3>2, ServeLane, FS_CardinalityType
      <4> HIDE DEF S
      <4> QED
        BY <2>1, <3>1, <4>1, <4>2
    <3>3. CASE l # LaneOf(c)
      <4>1. OnLane(S, l) = OnLane(runners, l)
        BY <3>3, OtherLanes
      <4> HIDE DEF S
      <4> QED
        BY <2>3, <3>1, <3>3, <4>1
    <3> QED
      BY <3>2, <3>3
  <2>6. ASSUME NEW c \in Calls, Release(c) PROVE Full
    <3> DEFINE R == runners \ {RemovedEntry(c)}
               P == Popped(LaneOf(c), R, waiters, maxSlots)
               S == Served(LaneOf(c), R, maxSlots)
    <3>1. /\ runners' = S
          /\ waiters' = waiters \ P
          /\ maxSlots' = maxSlots /\ ctxDone' = ctxDone
      BY <2>6 DEF Release, Left, Served, limitVars, callVars
    <3>2. R \in SUBSET Calls /\ R \cap waiters = {}
      BY <2>1
    <3>3. CASE l = LaneOf(c)
      <4>1. w \in LiveOn(l) \ P
        BY <3>1 DEF LiveOn, OnLane, Live
      <4> HIDE DEF R
      <4> QED
        BY <2>1, <3>1, <3>2, <3>3, <4>1, ServeLane
    <3>4. CASE l # LaneOf(c)
      <4>1. OnLane(R, l) = OnLane(runners, l)
        <5>1. RemovedEntry(c) \in OnLane(runners, LaneOf(c))
          BY <2>6, EntryOfLane DEF Release
        <5> QED
          BY <3>4, <5>1 DEF OnLane
      <4> HIDE DEF R
      <4>2. OnLane(S, l) = OnLane(R, l)
        BY <3>4, OtherLanes
      <4> HIDE DEF S, P
      <4> QED
        BY <2>3, <3>1, <4>1, <4>2
    <3> QED
      BY <3>3, <3>4
  <2>7. ASSUME NEW n \in Limits, SetMaxPerCluster(n) PROVE Full
    <3>1. /\ n \in Nat /\ maxSlots' = n
          /\ runners' = Taken(PoppedEverywhere(n))
          /\ waiters' = waiters \ PoppedEverywhere(n)
          /\ ctxDone' = ctxDone
      BY <2>7, SchedulerAssumption DEF SetMaxPerCluster, Left, callVars
    <3>2. l \in Clusters
      BY <2>1, <3>1
    <3>3. OnLane(runners', l) = OnLane(Served(l, runners, n), l)
      BY <3>1, <3>2, ServedEverywhere
    <3>4. w \in LiveOn(l) \ Popped(l, runners, waiters, n)
      BY <3>1, <3>2, ServedEverywhere DEF LiveOn, OnLane, Live
    <3> QED
      BY <2>1, <3>1, <3>3, <3>4, ServeLane
  <2>8. ASSUME runners' = runners, waiters' = waiters, ctxDone \subseteq ctxDone',
               maxSlots' = maxSlots
        PROVE  Full
    BY <2>3, <2>8
  <2> HIDE DEF Full
  <2>9. Full
    BY <2>4, <2>5, <2>6, <2>7, <2>8 DEF Next, vars, callVars, flightVars, laneVars,
       limitVars, Join, Lead, Continue, JoinerReturns, JoinerGivesUp, Acquire,
       CheckContext, RefuseContext, StartGranted, AbandonQueue, Attempt, FnSucceeds,
       FnFails, FnFailsTransiently, FnExhaustsRetries, BackoffElapses,
       BackoffCanceled, Unwind, Broadcast, DropFlight, CloseFlight, CancelContext,
       NotifyUpdate, AllReturned
  <2> QED
    BY <2>9 DEF Full
<1> QED
  BY <1>1, <1>2, SchedulerInvariant, PTL DEF Spec

-----------------------------------------------------------------------------
(* What the limit is for *)

\* A cluster never serves more fetches at a time than the largest limit that is
\* ever configured, whatever is preempted, cancelled, lost or reconfigured, and
\* although a release may remove the entry of another call.
THEOREM ConcurrencyBound ==
    ASSUME NEW n \in Nat, \A m \in Limits : m =< n
    PROVE  Spec => [](\A l \in Clusters :
                        Cardinality({c \in OnLane(Calls, l) : Executing(c)}) =< n)
<1> DEFINE Short == \A l \in Clusters : Cardinality(OnLane(runners, l)) =< n
           Few   == \A l \in Clusters :
                       Cardinality({c \in OnLane(Calls, l) : Executing(c)}) =< n
           Grows == \A l \in Clusters :
                       ~(OnLane(runners', l) \subseteq OnLane(runners, l))
                          => Cardinality(OnLane(runners', l)) =< maxSlots'
<1>1. Init => Short
  <2>1. ASSUME Init, NEW l \in Clusters PROVE OnLane(runners, l) = {}
    BY <2>1 DEF Init, OnLane
  <2> QED
    BY <2>1, FS_EmptySet
<1>2. TypeOK /\ TypeOK' /\ Short /\ [Next]_vars /\ [Grows]_vars => Short'
  <2> SUFFICES ASSUME TypeOK, TypeOK', Short, [Next]_vars, [Grows]_vars, NEW l \in Clusters
               PROVE  Cardinality(OnLane(runners', l)) =< n
    BY RequestsKept DEF OnLane, LaneOf, KeyOf
  <2>1. Cardinality(OnLane(runners, l)) =< n
    OBVIOUS
  <2>2. runners \in SUBSET Calls /\ runners' \in SUBSET Calls
    BY DEF TypeOK
  <2>3. /\ IsFiniteSet(OnLane(runners, l))
        /\ Cardinality(OnLane(runners, l)) \in Nat
        /\ Cardinality(OnLane(runners', l)) \in Nat
    BY <2>2, LaneFinite
  <2>4. CASE OnLane(runners', l) \subseteq OnLane(runners, l)
    <3>1. Cardinality(OnLane(runners', l)) =< Cardinality(OnLane(runners, l))
      BY <2>3, <2>4, FS_Subset
    <3> QED
      BY <2>1, <2>3, <3>1
  <2>5. CASE ~(OnLane(runners', l) \subseteq OnLane(runners, l))
    <3>1. Cardinality(OnLane(runners', l)) =< maxSlots'
      BY <2>5 DEF vars, laneVars
    <3>2. maxSlots' =< n /\ maxSlots' \in Nat
      BY SchedulerAssumption DEF TypeOK
    <3> QED
      BY <2>3, <3>1, <3>2
  <2> QED
    BY <2>4, <2>5
<1>3. TypeOK /\ RunsWithinEntries /\ Short => Few
  <2> SUFFICES ASSUME TypeOK, RunsWithinEntries, Short, NEW l \in Clusters
               PROVE  Cardinality({c \in OnLane(Calls, l) : Executing(c)}) =< n
    OBVIOUS
  <2> DEFINE E == {c \in OnLane(Calls, l) : Executing(c)}
  <2>1. E \subseteq OnLane(Calls, l) /\ IsFiniteSet(OnLane(Calls, l))
    BY LaneFinite
  <2>2. Cardinality(E) \in Nat
    BY <2>1, FS_Subset, FS_CardinalityType
  <2>3. Cardinality(E) =< Cardinality(OnLane(runners, l))
    BY DEF RunsWithinEntries
  <2>4. Cardinality(OnLane(runners, l)) \in Nat
    BY LaneFinite DEF TypeOK
  <2> HIDE DEF E
  <2>5. Cardinality(E) =< n
    BY <2>2, <2>3, <2>4
  <2> QED
    BY <2>5 DEF E
<1> QED
  <2> HIDE DEF Short, Few
  <2>1. Spec => []Few
    BY <1>1, <1>2, <1>3, TypeCorrect, GrantsStayWithinLimit, EntriesBoundRuns, PTL
    DEF Spec, GrantsWithinLimit
  <2> QED
    BY <2>1 DEF Few

=============================================================================
