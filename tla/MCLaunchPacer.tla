--------------------------- MODULE MCLaunchPacer ----------------------------
(* LaunchPacer.cfg: two pickers and one conversation.  LaunchNames.cfg: one *)
(* picker and two conversations.                                            *)
EXTENDS LaunchPacer
=============================================================================
