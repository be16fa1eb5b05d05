------------------------- MODULE MCDesktopMigration -------------------------
(* A small instance of DesktopMigration: Kilix Land, with a configuration   *)
(* and a state file, and Kilix 95, with a configuration, a tree and the     *)
(* desktop policy.                                                          *)
EXTENDS DesktopMigration

CONSTANTS landConfig, landState, k95Config, k95Tree, policy, profile, a, b, v1, v2, folder, absent

MCItem == {landConfig, landState, k95Config, k95Tree, policy}
MCPlan == <<  <<landConfig, landState>>,  <<k95Config, k95Tree, policy>> >>
MCEntries == [i \in MCItem |->
    CASE i = landState -> {profile}
      [] i = k95Tree -> {a, b}
      [] OTHER -> {i}]
MCTree == {k95Tree}
MCDocument == {landConfig, k95Config, policy}
\* Land's configuration is partly its native desktop.conf.
MCUnlocked == {landConfig, profile, a, b}
\* One file of the tree is not there yet.
MCStart == {[e \in Path |-> IF e = b THEN absent ELSE v1]}
=============================================================================
