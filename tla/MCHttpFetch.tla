---------------------------- MODULE MCHttpFetch ----------------------------
(* A buffer of four bytes: a response of three fits, one of five is cut off. *)
EXTENDS HttpFetch
=============================================================================
