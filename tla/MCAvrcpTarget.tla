---------------------------- MODULE MCAvrcpTarget ----------------------------
(* A queue of four holds the reports of two connections, and two volumes are  *)
(* enough to see the wrong one. One handle of a task is as good as another.   *)
EXTENDS AvrcpTarget, TLC

AnyHandle == Permutations(Tasks)
=============================================================================
