---------------------------- MODULE SingleFlight ----------------------------
(***************************************************************************)
(* What workScheduler.Run promises its callers, without lanes, slots,      *)
(* retries or preemption: calls for one key share one flight at a time,    *)
(* and everybody who waits for a flight gets its outcome.                  *)
(*                                                                         *)
(* Scheduler implements this module; SnapshotExec is built on it.          *)
(***************************************************************************)
CONSTANTS
    Calls,      \* the invocations of Run
    Keys,       \* the work keys
    Outcomes,   \* what a flight can end with
    Canceled,   \* what a call returns whose own context ended first
    None

ASSUME SingleFlightAssumption ==
    /\ None \notin Calls \cup Outcomes
    /\ Canceled \in Outcomes

VARIABLES
    keyOf,      \* the key each call asks for
    stage,      \* the progress of each call
    flight,     \* the call that leads each key, if one does
    leader,     \* the leader of the flight a call takes part in
    outcome,    \* the outcome of the flight a call leads
    answer      \* what each call was told

sfVars == <<keyOf, stage, flight, leader, outcome, answer>>

SFInit ==
    /\ keyOf \in [Calls -> Keys]
    /\ stage = [c \in Calls |-> "idle"]
    /\ flight = [k \in Keys |-> None]
    /\ leader = [c \in Calls |-> None]
    /\ outcome = [c \in Calls |-> None]
    /\ answer = [c \in Calls |-> None]

\* No flight for the key: the call leads a new one.
StartFlight(c) ==
    /\ stage[c] = "idle"
    /\ flight[keyOf[c]] = None
    /\ stage' = [stage EXCEPT ![c] = "leading"]
    /\ flight' = [flight EXCEPT ![keyOf[c]] = c]
    /\ leader' = [leader EXCEPT ![c] = c]
    /\ UNCHANGED <<keyOf, outcome, answer>>

\* A flight for the key is under way, possibly settled already.
JoinFlight(c) ==
    /\ stage[c] = "idle"
    /\ flight[keyOf[c]] # None
    /\ stage' = [stage EXCEPT ![c] = "joined"]
    /\ leader' = [leader EXCEPT ![c] = flight[keyOf[c]]]
    /\ UNCHANGED <<keyOf, flight, outcome, answer>>

\* The outcome of the flight is known; it never changes after that.
SettleFlight(c, o) ==
    /\ stage[c] = "leading"
    /\ outcome[c] = None
    /\ outcome' = [outcome EXCEPT ![c] = o]
    /\ UNCHANGED <<keyOf, stage, flight, leader, answer>>

\* No call can join any more; the next one starts a flight of its own.
RetireFlight(c) ==
    /\ stage[c] = "leading"
    /\ outcome[c] # None
    /\ flight[keyOf[c]] = c
    /\ flight' = [flight EXCEPT ![keyOf[c]] = None]
    /\ UNCHANGED <<keyOf, stage, leader, outcome, answer>>

\* The leader returns, and the flight's waiters may.
EndFlight(c) ==
    /\ stage[c] = "leading"
    /\ outcome[c] # None
    /\ flight[keyOf[c]] # c
    /\ stage' = [stage EXCEPT ![c] = "returned"]
    /\ answer' = [answer EXCEPT ![c] = outcome[c]]
    /\ UNCHANGED <<keyOf, flight, leader, outcome>>

LeaveFlight(c) ==
    /\ stage[c] = "joined"
    /\ stage' = [stage EXCEPT ![c] = "returned"]
    /\ \/ /\ stage[leader[c]] = "returned"
          /\ answer' = [answer EXCEPT ![c] = outcome[leader[c]]]
       \/ answer' = [answer EXCEPT ![c] = Canceled]
    /\ UNCHANGED <<keyOf, flight, leader, outcome>>

SFNext ==
    \E c \in Calls :
        \/ StartFlight(c)
        \/ JoinFlight(c)
        \/ \E o \in Outcomes : SettleFlight(c, o)
        \/ RetireFlight(c)
        \/ EndFlight(c)
        \/ LeaveFlight(c)

SFSpec == SFInit /\ [][SFNext]_sfVars
=============================================================================
