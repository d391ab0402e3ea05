--------------------------- MODULE MCSnapshotExec ---------------------------
(* Small instances of SnapshotExec. *)
EXTENDS SnapshotExec, TLC

\* Executions differ only in the key they ask for.
CallSymmetry == Permutations(Calls)
=============================================================================
