------------------------------ MODULE MCFat32 ------------------------------
(* Fat32 on a volume of four clusters of two slots. *)
EXTENDS Fat32

CONSTANTS file, dirA, dirB

\* A lower-case name needs a long-name entry, an upper-case one does not.  The entry of
\* dirA lies across two clusters of the root directory.
MCSlotsOf == [n \in Names |-> IF n = dirA THEN 2 ELSE 1]

MCFiles == <<file>>

MCPaths == {<<file>>, <<dirA>>, <<dirA, dirB>>}
=============================================================================
