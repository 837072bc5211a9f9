----------------------------- MODULE EventQueue -----------------------------
(***************************************************************************)
(* What the hand-over of WorkQueue promises, whatever becomes of the       *)
(* memory: events are numbered as they happen, an event is accepted or     *)
(* refused before the next one happens, and of the accepted ones the       *)
(* oldest is handled next, one at a time and once.                         *)
(***************************************************************************)
EXTENDS Naturals

VARIABLES
  newest,     (* number of the last event                                   *)
  offered,    (* is it still neither accepted nor refused?                  *)
  waiting,    (* the accepted events that wait                              *)
  handling    (* the event being handled, or 0                              *)

eventVars == <<newest, offered, waiting, handling>>

Init ==
  /\ newest = 1
  /\ offered = TRUE
  /\ waiting = {}
  /\ handling = 0

Happen ==
  /\ ~offered
  /\ newest' = newest + 1
  /\ offered' = TRUE
  /\ UNCHANGED <<waiting, handling>>

Accept ==
  /\ offered
  /\ waiting' = waiting \cup {newest}
  /\ offered' = FALSE
  /\ UNCHANGED <<newest, handling>>

Refuse ==
  /\ offered
  /\ offered' = FALSE
  /\ UNCHANGED <<newest, waiting, handling>>

Oldest(e) == e \in waiting /\ \A f \in waiting : e <= f

Take ==
  /\ handling = 0
  /\ \E e \in waiting :
       /\ Oldest(e)
       /\ handling' = e
       /\ waiting' = waiting \ {e}
  /\ UNCHANGED <<newest, offered>>

Finish ==
  /\ handling # 0
  /\ handling' = 0
  /\ UNCHANGED <<newest, offered, waiting>>

(* The chip restarts and forgets.                                          *)
Forget ==
  /\ newest' = 1
  /\ offered' = TRUE
  /\ waiting' = {}
  /\ handling' = 0

Next == Happen \/ Accept \/ Refuse \/ Take \/ Finish \/ Forget

Spec == Init /\ [][Next]_eventVars
=============================================================================
