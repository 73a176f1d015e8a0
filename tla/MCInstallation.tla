--------------------------- MODULE MCInstallation ---------------------------
(* Installation for TLC: two processes of one release and one of an older. *)
EXTENDS Installation
CONSTANT p3
Releases == [p \in Process |-> IF p = p3 THEN 1 ELSE 2]
=============================================================================
