---------------------------- MODULE MCScheduler ----------------------------
(* Small instances of Scheduler. *)
EXTENDS Scheduler, TLC

CONSTANTS k1, k2, k3, k4, east, west

OneLane  == [k \in Keys |-> east]
TwoLanes == [k \in Keys |-> IF k = k4 THEN west ELSE east]

\* Requests of three priorities in one lane, two of them for one key, and one
\* in another lane: enough to join, to queue behind an equal, to preempt the
\* worse of two runs, and to tell the lanes apart.
LaneRequests ==
    {[key |-> k1, prio |-> 2], [key |-> k1, prio |-> 1], [key |-> k2, prio |-> 1],
     [key |-> k3, prio |-> 0], [key |-> k4, prio |-> 1]}

\* An urgent and a background request for k1, a background request for k2, and
\* an urgent one for k3.
MixedRequests ==
    {[key |-> k1, prio |-> 1], [key |-> k2, prio |-> 1],
     [key |-> k3, prio |-> 0], [key |-> k1, prio |-> 0]}

\* Two requests for k1, of either priority, and a background one for k2.
SharedRequests ==
    {[key |-> k1, prio |-> 1], [key |-> k1, prio |-> 0], [key |-> k2, prio |-> 1]}

\* Calls are alike: they differ only in what req says, and in whether their
\* context may be cancelled.
CallSymmetry == Permutations(Cancellable) \cup Permutations(Calls \ Cancellable)
=============================================================================
