--------------------------- MODULE MCSyncRuntime ---------------------------
(* One connection, two scheduler tasks and one user refresh for TLC.       *)
EXTENDS SyncRuntime, TLC

CONSTANTS c1, a1, a2, f1

OneTarget == [t \in Task |-> c1]

Symmetric == Permutations(AutoTask)
=============================================================================
