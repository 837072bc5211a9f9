----------------------------- MODULE MCA2dpSink -----------------------------
(* A queue of four holds a whole connection, from CONNECTING to             *)
(* DISCONNECTED, that the handler has not seen yet.                         *)
EXTENDS A2dpSink
=============================================================================
