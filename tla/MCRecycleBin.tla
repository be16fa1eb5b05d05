---------------------------- MODULE MCRecycleBin ----------------------------
(* Two desktops, two files of one name. *)
EXTENDS RecycleBin, TLC

Symmetry == Permutations(Desktop) \cup Permutations(File)
=============================================================================
