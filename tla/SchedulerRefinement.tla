------------------------ MODULE SchedulerRefinement ------------------------
(***************************************************************************)
(* Scheduler implements SingleFlight, and everybody who shares a flight is *)
(* told alike, whatever the constants are.                                 *)
(***************************************************************************)
EXTENDS SchedulerProofs

\* A call that leads a flight and the calls that joined it: what the refinement
\* needs beside the invariant of the scheduler.
LeaderInv ==
    \A c \in Calls :
        /\ pc[c] \notin {"idle", "joined", "returned"} => leaderOf[c] = c
        /\ pc[c] = "joined" => leaderOf[c] # c
        /\ pc[c] \in {"release", "broadcast", "drop", "close"} => ret[c] = flightErr[c]
        /\ c \in flightDone => pc[c] = "returned" /\ leaderOf[c] = c

LEMMA LeaderInit == Init => LeaderInv
BY DEF Init, LeaderInv

LEMMA LeaderNext == TypeOK /\ FlightInv /\ LeaderInv /\ [Next]_vars => LeaderInv'
<1> SUFFICES ASSUME TypeOK, FlightInv, LeaderInv, [Next]_vars PROVE LeaderInv'
  OBVIOUS
<1> USE DEF vars, callVars, flightVars, laneVars, limitVars, Goto, Settle
<1>1. ASSUME NEW c \in Calls, Join(c) PROVE LeaderInv'
  BY <1>1 DEF Join, TypeOK, FlightInv, LeaderInv
<1>2. ASSUME NEW c \in Calls, Lead(c) PROVE LeaderInv'
  BY <1>2 DEF Lead, TypeOK, LeaderInv
<1>3. ASSUME NEW c \in Calls, JoinerReturns(c) \/ JoinerGivesUp(c) PROVE LeaderInv'
  BY <1>3 DEF JoinerReturns, JoinerGivesUp, TypeOK, LeaderInv
<1>4. ASSUME NEW c \in Calls, Acquire(c) PROVE LeaderInv'
  <2>1. /\ pc[c] \notin {"idle", "joined", "returned"}
        /\ \E s \in {"lock", "drop", "attempt", "parked", "queued"} :
              /\ pc' = [pc EXCEPT ![c] = s]
              /\ s = "drop" => /\ flightErr' = [flightErr EXCEPT ![c] = "canceled"]
                               /\ ret' = [ret EXCEPT ![c] = "canceled"]
              /\ s # "drop" => UNCHANGED <<flightErr, ret>>
        /\ UNCHANGED <<leaderOf, flightDone>>
    BY <1>4 DEF Acquire, CheckContext, RefuseContext, TakeFreeSlot, Preempt, Enqueue,
                StartGranted, AbandonQueue
  <2> QED
    BY <2>1 DEF TypeOK, LeaderInv
<1>5. ASSUME NEW c \in Calls, Attempt(c) PROVE LeaderInv'
  BY <1>5
  DEF Attempt, FnSucceeds, FnFails, FnFailsTransiently, FnExhaustsRetries,
      BackoffElapses, BackoffCanceled, TypeOK, LeaderInv
<1>6. ASSUME NEW c \in Calls, Unwind(c) PROVE LeaderInv'
  <2>1. CASE Release(c) \/ DropFlight(c) \/ CloseFlight(c)
    BY <2>1 DEF Release, DropFlight, CloseFlight, TypeOK, LeaderInv
  <2>2. CASE Broadcast(c)
    BY <2>2 DEF Broadcast, Woken, TypeOK, LeaderInv
  <2> QED
    BY <1>6, <2>1, <2>2 DEF Unwind
<1>7. CASE NotifyUpdate
  BY <1>7 DEF NotifyUpdate, Woken, TypeOK, LeaderInv
<1>8. ASSUME UNCHANGED <<pc, leaderOf, flightDone, flightErr, ret>> PROVE LeaderInv'
  BY <1>8 DEF LeaderInv
<1> QED
  BY <1>1, <1>2, <1>3, <1>4, <1>5, <1>6, <1>7, <1>8
  DEF Next, Continue, CancelContext, SetMaxPerCluster, AllReturned

-----------------------------------------------------------------------------
(* Each step of Scheduler is a step of SingleFlight or is invisible. *)

Decided == {"release", "broadcast", "drop", "close"}
Visible == {"idle", "joined", "returned"}

\* A step that decides nothing and moves no call into or out of a visible stage.
LEMMA InvisibleStep ==
    ASSUME TypeOK, UNCHANGED <<req, inFlight, leaderOf, flightErr, ret>>,
           \A d \in Calls :
              /\ pc[d] \in Visible \/ pc'[d] \in Visible => pc'[d] = pc[d]
              /\ pc[d] \in Decided <=> pc'[d] \in Decided
    PROVE  UNCHANGED Flights!sfVars
<1>1. RefKey' = RefKey
  BY DEF RefKey, KeyOf
<1>2. RefStage' = RefStage
  BY DEF RefStage, Visible
<1>3. \A d \in Calls : Settled(d)' = Settled(d)
  BY DEF Settled, Visible, Decided
<1>4. RefOutcome' = RefOutcome
  BY <1>3 DEF RefOutcome
<1>5. RefAnswer' = RefAnswer
  BY DEF RefAnswer, Visible
<1> QED
  BY <1>1, <1>2, <1>4, <1>5 DEF Flights!sfVars

\* A step that sets the error of a flight for good.
LEMMA DecidingStep ==
    ASSUME TypeOK, LeaderInv, NEW c \in Calls, NEW o \in Outcomes, NEW s \in Decided,
           pc[c] \notin Visible \cup Decided, pc' = [pc EXCEPT ![c] = s], Settle(c, o),
           UNCHANGED <<req, inFlight, leaderOf>>
    PROVE  Flights!SettleFlight(c, o)
<1>1. RefKey' = RefKey
  BY DEF RefKey, KeyOf
<1>2. RefStage' = RefStage /\ RefStage[c] = "leading"
  BY DEF RefStage, Visible, Decided, TypeOK
<1>3. RefOutcome[c] = NoCall
  BY DEF RefOutcome, Settled, Visible, Decided
<1>4. RefOutcome' = [RefOutcome EXCEPT ![c] = o]
  BY DEF RefOutcome, Settled, Settle, Visible, Decided, TypeOK
<1>5. RefAnswer' = RefAnswer
  BY DEF RefAnswer, Settle, Visible, Decided, TypeOK
<1> QED
  BY <1>1, <1>2, <1>3, <1>4, <1>5 DEF Flights!SettleFlight

LEMMA LeaveStep ==
    ASSUME TypeOK, LeaderInv, NEW c \in Calls, JoinerReturns(c) \/ JoinerGivesUp(c)
    PROVE  Flights!LeaveFlight(c)
<1> USE DEF callVars, flightVars, Goto
<1>1. /\ pc[c] = "joined" /\ pc' = [pc EXCEPT ![c] = "returned"]
      /\ UNCHANGED <<req, inFlight, leaderOf, flightErr>>
      /\ ret' = [ret EXCEPT ![c] = ret'[c]]
  BY DEF JoinerReturns, JoinerGivesUp, TypeOK
<1>2. RefKey' = RefKey
  BY <1>1 DEF RefKey, KeyOf
<1>3. RefStage[c] = "joined" /\ RefStage' = [RefStage EXCEPT ![c] = "returned"]
  BY <1>1 DEF RefStage, TypeOK
<1>4. RefOutcome' = RefOutcome
  BY <1>1 DEF RefOutcome, Settled, TypeOK, LeaderInv
<1>5. RefAnswer' = [RefAnswer EXCEPT ![c] = ret'[c]]
  BY <1>1 DEF RefAnswer, TypeOK
<1>6. CASE JoinerReturns(c)
  <2>1. leaderOf[c] \in Calls /\ pc[leaderOf[c]] = "returned"
        /\ leaderOf[leaderOf[c]] = leaderOf[c]
    BY <1>6 DEF JoinerReturns, LeaderInv, TypeOK
  <2>2. RefStage[leaderOf[c]] = "returned"
        /\ RefOutcome[leaderOf[c]] = flightErr[leaderOf[c]]
    BY <2>1 DEF RefStage, RefOutcome, Settled
  <2>3. ret'[c] = flightErr[leaderOf[c]]
    BY <1>6 DEF JoinerReturns, TypeOK
  <2> QED
    BY <1>1, <1>2, <1>3, <1>4, <1>5, <2>2, <2>3 DEF Flights!LeaveFlight
<1>7. CASE JoinerGivesUp(c)
  <2>1. ret'[c] = "canceled"
    BY <1>7 DEF JoinerGivesUp, TypeOK
  <2> QED
    BY <1>1, <1>2, <1>3, <1>4, <1>5, <2>1 DEF Flights!LeaveFlight
<1> QED
  BY <1>6, <1>7

LEMMA StartStep ==
    ASSUME TypeOK, FlightInv, LeaderInv, NEW c \in Calls, Join(c) \/ Lead(c)
    PROVE  Flights!StartFlight(c) \/ Flights!JoinFlight(c)
<1> USE DEF callVars, flightVars, Goto
<1>1. /\ pc[c] = "idle" /\ UNCHANGED <<req, flightErr, ret>>
      /\ leaderOf' = [leaderOf EXCEPT ![c] = leaderOf'[c]]
      /\ pc' = [pc EXCEPT ![c] = pc'[c]] /\ pc'[c] \in {"joined", "check"}
  BY DEF Join, Lead, TypeOK
<1>2. RefKey' = RefKey /\ RefKey[c] = KeyOf(c)
  BY <1>1 DEF RefKey, KeyOf
<1>3. RefOutcome' = RefOutcome
  BY <1>1 DEF RefOutcome, Settled, TypeOK
<1>4. RefAnswer' = RefAnswer
  BY <1>1 DEF RefAnswer, TypeOK
<1>5. RefStage[c] = "idle"
  BY <1>1 DEF RefStage
<1>6. CASE Join(c)
  <2>1. RefStage' = [RefStage EXCEPT ![c] = "joined"]
    BY <1>6 DEF Join, RefStage, TypeOK
  <2> QED
    BY <1>2, <1>3, <1>4, <1>5, <1>6, <2>1 DEF Join, Flights!JoinFlight
<1>7. CASE Lead(c)
  <2>1. RefStage' = [RefStage EXCEPT ![c] = "leading"]
    BY <1>7 DEF Lead, RefStage, TypeOK
  <2> QED
    BY <1>2, <1>3, <1>4, <1>5, <1>7, <2>1 DEF Lead, NotInFlight, Flights!StartFlight
<1> QED
  BY <1>6, <1>7

LEMMA EndStep ==
    ASSUME TypeOK, FlightInv, LeaderInv, NEW c \in Calls, DropFlight(c) \/ CloseFlight(c)
    PROVE  Flights!RetireFlight(c) \/ Flights!EndFlight(c)
<1> USE DEF callVars, flightVars, Goto
<1>1. /\ pc[c] \in {"drop", "close"} /\ UNCHANGED <<req, leaderOf, flightErr, ret>>
      /\ pc' = [pc EXCEPT ![c] = pc'[c]]
      /\ pc'[c] = IF pc[c] = "drop" THEN "close" ELSE "returned"
  BY DEF DropFlight, CloseFlight, TypeOK
<1>2. RefKey' = RefKey /\ RefKey[c] = KeyOf(c)
  BY <1>1 DEF RefKey, KeyOf
<1>3. RefStage[c] = "leading"
  BY <1>1 DEF RefStage
<1>4. RefOutcome' = RefOutcome
  BY <1>1 DEF RefOutcome, Settled, LeaderInv, TypeOK
<1>5. RefOutcome[c] = flightErr[c] /\ RefOutcome[c] # NoCall
  BY <1>1, SchedulerAssumption DEF RefOutcome, Settled, TypeOK, Outcomes
<1>6. CASE DropFlight(c)
  <2>1. RefStage' = RefStage /\ RefAnswer' = RefAnswer
    BY <1>1, <1>6 DEF DropFlight, RefStage, RefAnswer, TypeOK
  <2>2. inFlight[KeyOf(c)] = c
    BY <1>6 DEF DropFlight, FlightInv
  <2> QED
    BY <1>1, <1>2, <1>3, <1>4, <1>5, <1>6, <2>1, <2>2 DEF DropFlight, Flights!RetireFlight
<1>7. CASE CloseFlight(c)
  <2>1. RefStage' = [RefStage EXCEPT ![c] = "returned"]
    BY <1>1, <1>7 DEF CloseFlight, RefStage, TypeOK
  <2>2. RefAnswer' = [RefAnswer EXCEPT ![c] = RefOutcome[c]]
    BY <1>1, <1>5, <1>7 DEF CloseFlight, RefAnswer, LeaderInv, TypeOK
  <2>3. inFlight[KeyOf(c)] # c
    BY <1>7 DEF CloseFlight, FlightInv
  <2> QED
    BY <1>1, <1>2, <1>3, <1>4, <1>5, <1>7, <2>1, <2>2, <2>3
    DEF CloseFlight, Flights!EndFlight
<1> QED
  BY <1>6, <1>7

LEMMA RefinementStep ==
    TypeOK /\ FlightInv /\ LeaderInv /\ [Next]_vars
        => [Flights!SFNext]_(Flights!sfVars)
<1> SUFFICES ASSUME TypeOK, FlightInv, LeaderInv, [Next]_vars
             PROVE  Flights!SFNext \/ UNCHANGED Flights!sfVars
  OBVIOUS
<1> USE DEF vars, callVars, flightVars, laneVars, limitVars, Goto, Visible, Decided
<1>1. ASSUME NEW c \in Calls, Join(c) \/ Lead(c) PROVE Flights!SFNext
  BY <1>1, StartStep DEF Flights!SFNext
<1>2. ASSUME NEW c \in Calls, JoinerReturns(c) \/ JoinerGivesUp(c) PROVE Flights!SFNext
  BY <1>2, LeaveStep DEF Flights!SFNext
<1>3. ASSUME NEW c \in Calls, RefuseContext(c) \/ AbandonQueue(c) PROVE Flights!SFNext
  <2>1. /\ pc[c] \in {"check", "queued"} /\ pc' = [pc EXCEPT ![c] = "drop"]
        /\ Settle(c, "canceled") /\ UNCHANGED <<req, inFlight, leaderOf>>
    BY <1>3 DEF RefuseContext, AbandonQueue
  <2>2. "canceled" \in Outcomes
    BY DEF Outcomes
  <2>3. Flights!SettleFlight(c, "canceled")
    BY <2>1, <2>2, DecidingStep
  <2> QED
    BY <2>2, <2>3 DEF Flights!SFNext
<1>4. ASSUME NEW c \in Calls,
             FnSucceeds(c) \/ FnFails(c) \/ FnExhaustsRetries(c) \/ BackoffCanceled(c)
      PROVE  Flights!SFNext
  <2>1. PICK o \in Outcomes :
           /\ pc[c] \in {"attempt", "backoff"} /\ pc' = [pc EXCEPT ![c] = "release"]
           /\ Settle(c, o) /\ UNCHANGED <<req, inFlight, leaderOf>>
    BY <1>4 DEF FnSucceeds, FnFails, FnExhaustsRetries, BackoffCanceled, Outcomes
  <2>2. Flights!SettleFlight(c, o)
    BY <2>1, DecidingStep
  <2> QED
    BY <2>2 DEF Flights!SFNext
<1>5. ASSUME NEW c \in Calls, DropFlight(c) \/ CloseFlight(c) PROVE Flights!SFNext
  BY <1>5, EndStep DEF Flights!SFNext
<1>6. ASSUME NEW c \in Calls,
             \/ CheckContext(c) \/ TakeFreeSlot(c) \/ Preempt(c) \/ Enqueue(c)
             \/ StartGranted(c) \/ FnFailsTransiently(c) \/ BackoffElapses(c)
             \/ Release(c)
      PROVE  UNCHANGED Flights!sfVars
  BY <1>6, InvisibleStep
  DEF CheckContext, TakeFreeSlot, Preempt, Enqueue, StartGranted, FnFailsTransiently,
      BackoffElapses, Release, TypeOK
<1>7. ASSUME NEW c \in Calls, Broadcast(c) PROVE UNCHANGED Flights!sfVars
  BY <1>7, InvisibleStep DEF Broadcast, Woken, TypeOK
<1>8. CASE NotifyUpdate
  BY <1>8, InvisibleStep DEF NotifyUpdate, Woken, TypeOK
<1>9. ASSUME UNCHANGED <<req, inFlight, leaderOf, flightErr, ret, pc>>
      PROVE  UNCHANGED Flights!sfVars
  BY <1>9, InvisibleStep
<1> QED
  BY <1>1, <1>2, <1>3, <1>4, <1>5, <1>6, <1>7, <1>8, <1>9
  DEF Next, Continue, Acquire, Attempt, Unwind, CancelContext, SetMaxPerCluster,
      AllReturned

LEMMA RefinementInit == Init => Flights!SFInit
<1> SUFFICES ASSUME Init PROVE Flights!SFInit
  OBVIOUS
<1>1. RefKey \in [Calls -> Keys]
  BY SchedulerAssumption DEF Init, RefKey, KeyOf
<1>2. RefStage = [c \in Calls |-> "idle"]
  BY DEF Init, RefStage
<1>3. RefOutcome = [c \in Calls |-> NoCall]
  BY DEF Init, RefOutcome, Settled
<1>4. RefAnswer = [c \in Calls |-> NoCall]
  BY DEF Init, RefAnswer
<1> QED
  BY <1>1, <1>2, <1>3, <1>4 DEF Init, Flights!SFInit

\* Run is a single-flight group for every number of calls, keys, lanes, slots
\* and attempts: nobody who waits for a flight is told anything but its outcome,
\* unless the own context ended, and no key is led by two calls.
THEOREM SingleFlightRefinement == Spec => ImplementsSingleFlight
<1>1. Init => LeaderInv /\ Flights!SFInit
  BY LeaderInit, RefinementInit
<1>2. SchedulerInv /\ LeaderInv /\ [Next]_vars => LeaderInv'
  BY LeaderNext DEF SchedulerInv
<1>3. SchedulerInv /\ LeaderInv /\ [Next]_vars => [Flights!SFNext]_(Flights!sfVars)
  BY RefinementStep DEF SchedulerInv
<1> QED
  BY <1>1, <1>2, <1>3, SchedulerInvariant, PTL
  DEF Spec, ImplementsSingleFlight, Flights!SFSpec

-----------------------------------------------------------------------------
(* What the calls that share a flight are told. *)

\* A flight that is closed was led by a call that told its caller the same.
ToldInv ==
    \A c \in Calls :
        /\ pc[c] \in {"joined", "returned"} => leaderOf[c] \in Calls
        /\ pc[c] = "returned" /\ leaderOf[c] = c => ret[c] = flightErr[c]

\* The steps after which nobody returns: what was told stays.
LEMMA ToldFrame ==
    ASSUME TypeOK, ToldInv, ToldAlike, ctxDone \subseteq ctxDone',
           \A d \in Calls :
              /\ pc[d] = "returned" <=> pc'[d] = "returned"
              /\ pc'[d] = "joined" =>
                    \/ leaderOf'[d] \in Calls
                    \/ pc[d] = "joined" /\ leaderOf'[d] = leaderOf[d]
              /\ pc[d] = "returned" =>
                    /\ leaderOf'[d] = leaderOf[d]
                    /\ ret'[d] = ret[d]
                    /\ flightErr'[d] = flightErr[d]
    PROVE  ToldInv' /\ ToldAlike'
BY DEF ToldInv, ToldAlike

LEMMA ToldNext ==
    TypeOK /\ LeaderInv /\ ToldInv /\ ToldAlike /\ [Next]_vars => ToldInv' /\ ToldAlike'
<1> SUFFICES ASSUME TypeOK, LeaderInv, ToldInv, ToldAlike, [Next]_vars
             PROVE  ToldInv' /\ ToldAlike'
  OBVIOUS
<1> USE DEF vars, callVars, flightVars, laneVars, limitVars, Goto, Settle
<1>1. ASSUME NEW c \in Calls, Join(c) \/ Lead(c) PROVE ToldInv' /\ ToldAlike'
  <2>1. KeyOf(c) \in Keys
    BY RequestType
  <2> QED
    BY <1>1, <2>1, ToldFrame DEF Join, Lead, TypeOK
<1>2. ASSUME NEW c \in Calls, JoinerReturns(c) PROVE ToldInv' /\ ToldAlike'
  <2> DEFINE l == leaderOf[c]
  <2>1. /\ pc[c] = "joined" /\ pc' = [pc EXCEPT ![c] = "returned"]
        /\ ret' = [ret EXCEPT ![c] = flightErr[l]]
        /\ UNCHANGED <<leaderOf, flightErr, ctxDone>>
    BY <1>2 DEF JoinerReturns
  <2>2. l \in Calls /\ pc[l] = "returned" /\ leaderOf[l] = l /\ l # c
    BY <1>2, <2>1 DEF JoinerReturns, LeaderInv, TypeOK
  <2>3. ret[l] = flightErr[l]
    BY <2>2 DEF ToldInv
  <2> HIDE DEF l
  <2>4. ToldInv'
    BY <2>1, <2>2 DEF ToldInv, TypeOK, l
  <2>5. ToldAlike'
    <3> SUFFICES ASSUME NEW d \in Calls, pc'[d] = "returned"
                 PROVE  \/ pc'[leaderOf[d]] = "returned" /\ ret'[d] = ret'[leaderOf[d]]
                        \/ d \in ctxDone /\ ret'[d] = "canceled"
      BY <2>1 DEF ToldAlike
    <3>1. CASE d = c
      BY <2>1, <2>2, <2>3, <3>1 DEF TypeOK, l
    <3>2. CASE d # c
      <4>1. pc[d] = "returned" /\ leaderOf[d] \in Calls
        BY <2>1, <3>2 DEF TypeOK, ToldInv
      <4> QED
        BY <2>1, <3>2, <4>1 DEF ToldAlike, TypeOK
    <3> QED
      BY <3>1, <3>2
  <2> QED
    BY <2>4, <2>5
<1>3. ASSUME NEW c \in Calls, JoinerGivesUp(c) PROVE ToldInv' /\ ToldAlike'
  <2>1. /\ pc[c] = "joined" /\ pc' = [pc EXCEPT ![c] = "returned"]
        /\ ret' = [ret EXCEPT ![c] = "canceled"] /\ c \in ctxDone
        /\ UNCHANGED <<leaderOf, flightErr, ctxDone>>
    BY <1>3 DEF JoinerGivesUp
  <2>2. leaderOf[c] # c /\ leaderOf[c] \in Calls
    BY <2>1 DEF LeaderInv, ToldInv
  <2>3. ToldInv'
    BY <2>1, <2>2 DEF ToldInv, TypeOK
  <2>4. \A d \in Calls : pc[d] = "returned" => leaderOf[d] \in Calls
    BY DEF ToldInv
  <2>5. ToldAlike'
    BY <2>1, <2>4 DEF ToldAlike, TypeOK
  <2> QED
    BY <2>3, <2>5
<1>4. ASSUME NEW c \in Calls, Acquire(c) \/ Attempt(c) PROVE ToldInv' /\ ToldAlike'
  <2>1. /\ pc[c] # "returned"
        /\ \E s \in Stages \ {"joined", "returned"} : pc' = [pc EXCEPT ![c] = s]
        /\ UNCHANGED <<leaderOf, ctxDone>>
        /\ \/ UNCHANGED <<flightErr, ret>>
           \/ \E e \in Outcomes : /\ flightErr' = [flightErr EXCEPT ![c] = e]
                                  /\ ret' = [ret EXCEPT ![c] = e]
    BY <1>4
    DEF Acquire, CheckContext, RefuseContext, TakeFreeSlot, Preempt, Enqueue,
        StartGranted, AbandonQueue, Attempt, FnSucceeds, FnFails, FnFailsTransiently,
        FnExhaustsRetries, BackoffElapses, BackoffCanceled, Stages, Outcomes
  <2> QED
    BY <2>1, ToldFrame DEF TypeOK
<1>5. ASSUME NEW c \in Calls, Release(c) \/ Broadcast(c) \/ DropFlight(c)
      PROVE  ToldInv' /\ ToldAlike'
  BY <1>5, ToldFrame DEF Release, Broadcast, Woken, DropFlight, TypeOK
<1>6. ASSUME NEW c \in Calls, CloseFlight(c) PROVE ToldInv' /\ ToldAlike'
  <2>1. /\ pc' = [pc EXCEPT ![c] = "returned"] /\ leaderOf[c] = c /\ ret[c] = flightErr[c]
        /\ UNCHANGED <<leaderOf, flightErr, ret, ctxDone>>
    BY <1>6 DEF CloseFlight, LeaderInv
  <2> QED
    BY <2>1 DEF ToldInv, ToldAlike, TypeOK
<1>7. CASE NotifyUpdate
  BY <1>7, ToldFrame DEF NotifyUpdate, Woken, TypeOK
<1>8. ASSUME UNCHANGED <<pc, leaderOf, flightErr, ret>>, ctxDone \subseteq ctxDone'
      PROVE  ToldInv' /\ ToldAlike'
  BY <1>8, ToldFrame
<1> QED
  BY <1>1, <1>2, <1>3, <1>4, <1>5, <1>6, <1>7, <1>8
  DEF Next, Continue, Unwind, CancelContext, SetMaxPerCluster, AllReturned

\* Whoever took part in a flight is told what its leader was told, unless the
\* own request ended, for any number of joiners, attempts and preemptions.
THEOREM SharersAreToldAlike == Spec => []ToldAlike
<1>1. Init => LeaderInv /\ ToldInv /\ ToldAlike
  BY LeaderInit DEF Init, ToldInv, ToldAlike
<1>2. SchedulerInv /\ LeaderInv /\ [Next]_vars => LeaderInv'
  BY LeaderNext DEF SchedulerInv
<1>3. SchedulerInv /\ LeaderInv /\ ToldInv /\ ToldAlike /\ [Next]_vars
        => ToldInv' /\ ToldAlike'
  BY ToldNext DEF SchedulerInv
<1> QED
  BY <1>1, <1>2, <1>3, SchedulerInvariant, PTL DEF Spec

=============================================================================
