---------------------------- MODULE MCAudioRing ----------------------------
(* A ring of 8 units with the prefetch mark at 5 and packets of 1 to 3:    *)
(* packets of different sizes overflow it with and without room to spare.  *)
EXTENDS AudioRing

MCPacketSizes == {1, 2, 3}
=============================================================================
