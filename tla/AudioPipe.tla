----------------------------- MODULE AudioPipe -----------------------------
(***************************************************************************)
(* What the audio path promises the listener, without tasks, semaphores or *)
(* modes: playback starts, and restarts after every gap, only with a full  *)
(* prefetch in store; every accepted byte is played in its turn or given   *)
(* up when the connection closes; a gap occurs only on an empty store. A   *)
(* store may be opened while a delivery to the last one is still under     *)
(* way: what that delivery has measured may count for the new one.         *)
(***************************************************************************)
EXTENDS Integers

CONSTANTS Capacity, Prefetch, Chunk, Packets

VARIABLES
  phase,  (* "down", "filling", "playing" or "closing"                      *)
  level,  (* bytes accepted and neither played nor given up                 *)
  early   (* may playback start on the measure of an earlier store?         *)

pipeVars == <<phase, level, early>>

Init == phase = "down" /\ level = 0 /\ early = FALSE

Prepare == phase = "down" /\ early' \in BOOLEAN /\ UNCHANGED <<phase, level>>

Open == phase = "down" /\ phase' = "filling" /\ UNCHANGED <<level, early>>

Accept(size) ==
  /\ phase # "down"
  /\ level + size <= Capacity
  /\ level' = level + size
  /\ UNCHANGED <<phase, early>>

Start ==
  /\ phase = "filling"
  /\ early \/ level >= Prefetch
  /\ phase' = "playing"
  /\ UNCHANGED <<level, early>>

Play(n) ==
  /\ phase = "playing"
  /\ n <= level
  /\ level' = level - n
  /\ UNCHANGED <<phase, early>>

Starve ==
  /\ phase = "playing"
  /\ level = 0
  /\ phase' = "filling"
  /\ UNCHANGED <<level, early>>

Halt ==
  /\ phase \in {"filling", "playing"}
  /\ phase' = "closing"
  /\ UNCHANGED <<level, early>>

Close ==
  phase = "closing" /\ phase' = "down" /\ level' = 0 /\ UNCHANGED early

Next ==
  \/ Prepare \/ Open \/ Start \/ Starve \/ Halt \/ Close
  \/ \E size \in Packets : Accept(size)
  \/ \E n \in 1 .. Chunk : Play(n)

Spec == Init /\ [][Next]_pipeVars
=============================================================================
