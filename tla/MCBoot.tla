------------------------------- MODULE MCBoot -------------------------------
(* A buffer of two bytes: a response of one fits, one of three is cut off.  *)
EXTENDS Boot
=============================================================================
