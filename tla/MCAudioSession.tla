--------------------------- MODULE MCAudioSession ---------------------------
(* A ring of 3 units with the prefetch mark at 2, packets of 1 unit.       *)
EXTENDS AudioSession

MCPacketSizes == {1}
=============================================================================
