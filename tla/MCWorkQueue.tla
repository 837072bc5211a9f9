---------------------------- MODULE MCWorkQueue ----------------------------
(* Two slots in either queue: each fills while the other task is waiting.  *)
EXTENDS WorkQueue
=============================================================================
