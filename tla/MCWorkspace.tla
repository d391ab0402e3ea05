---------------------------- MODULE MCWorkspace ----------------------------
(* Small instances of Workspace. *)
EXTENDS Workspace, TLC

CONSTANTS east, west, blue

\* The kubeconfig names a namespace for one of the contexts.
MCConfigNamespace == [c \in Contexts |-> IF c = west THEN blue ELSE None]

\* Either the user does more, or the connection.
Left(user, calls, world) ==
  [what \in {"user", "calls", "world"} |->
     CASE what = "user" -> user [] what = "calls" -> calls
       [] what = "world" -> world]
MCBudgets == {Left(3, 0, 0), Left(2, 1, 0), Left(0, 1, 1)}
=============================================================================
