------------------------------ MODULE PageRows ------------------------------
(***************************************************************************)
(* What useListQuery promises a list page, without the calls, generations, *)
(* intervals and revisions it takes to keep the promise: the rows shown    *)
(* belong to the key the page was last turned to, and are rows the server  *)
(* held for it at some moment since then, never older ones.                *)
(*                                                                         *)
(* ListQuery implements this module.                                       *)
(***************************************************************************)
EXTENDS Naturals

CONSTANTS
  Keys,       \* what a page can ask for
  Sources,    \* what the server holds lists for
  Origin,     \* the source that answers each key
  None        \* no rows

VARIABLES
  held,       \* how often each source has changed
  viewKey,    \* the key the page was last turned to
  since,      \* what was held for it then
  rows        \* what is shown: None, or a version of a key's rows

prVars == <<held, viewKey, since, rows>>

Held(k) == held[Origin[k]]

PRInit ==
  /\ held = [b \in Sources |-> 0]
  /\ viewKey \in Keys
  /\ since = 0 /\ rows = None

ServerChanges(b) ==
  /\ held' = [held EXCEPT ![b] = @ + 1]
  /\ UNCHANGED <<viewKey, since, rows>>

\* Nothing of the former key stays.
Turn(k) ==
  /\ viewKey' = k /\ since' = Held(k)
  /\ rows' = None
  /\ UNCHANGED held

\* Of two answers the older one may come last.
Show ==
  /\ \E v \in since..Held(viewKey) :
       rows' = [key |-> viewKey, version |-> v]
  /\ UNCHANGED <<held, viewKey, since>>

PRNext ==
  \/ \E b \in Sources : ServerChanges(b)
  \/ \E k \in Keys : Turn(k)
  \/ Show

PRSpec == PRInit /\ [][PRNext]_prVars
=============================================================================
