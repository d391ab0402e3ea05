---------------------------- MODULE MCListQuery ----------------------------
(* Small instances of ListQuery. *)
EXTENDS ListQuery, TLC

CallSymmetry == Permutations(Calls)
=============================================================================
