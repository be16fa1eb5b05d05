---------------------------- MODULE MCPtySessions ----------------------------
(* Two ids, one of them the desktop's own, and one worker. *)
EXTENDS PtySessions

=============================================================================
