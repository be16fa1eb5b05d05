---------------------------- MODULE MCLaptopRuns ----------------------------
(* Two desktops, one or two profiles and two process numbers. *)
EXTENDS LaptopRuns, TLC

Symmetry == Permutations(Surface) \cup Permutations(Pid) \cup Permutations(Profile)
=============================================================================
