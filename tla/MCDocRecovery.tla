---------------------------- MODULE MCDocRecovery ----------------------------
(* Small instances of DocRecovery.                                           *)
EXTENDS DocRecovery

CONSTANTS d1, d2, d3, w1, w2, w3
===============================================================================
