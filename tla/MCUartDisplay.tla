--------------------------- MODULE MCUartDisplay ---------------------------
(* Voltages on both sides of two thresholds and a full battery; numbers of   *)
(* one and of two digits.                                                    *)
EXTENDS UartDisplay
=============================================================================
