------------------------- MODULE MCDirectoryMonitor -------------------------
(***************************************************************************)
(* An instance of DirectoryMonitor: one view, two directories (a is shown    *)
(* first), the two scanner threads of the code.                            *)
(***************************************************************************)
EXTENDS DirectoryMonitor

CONSTANTS a, b

Dirs       == {a, b}
OnlyB      == {b}
AnyWatch   == {Dir}        \* every watch is added
=============================================================================
