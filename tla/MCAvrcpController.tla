-------------------------- MODULE MCAvrcpController --------------------------
(* Two phones that have one event in common, so that a record of the wrong   *)
(* phone is neither empty nor right.                                         *)
EXTENDS AvrcpController

MCPeers == {{"TRACK_CHANGE", "PLAY_STATUS_CHANGE"},
            {"TRACK_CHANGE", "PLAY_POS_CHANGED"}}
=============================================================================
