----------------------------- MODULE MountTable -----------------------------
(***************************************************************************)
(* What the mount table promises: file systems attached to paths, and      *)
(* every path served by the file system attached to its longest prefix.    *)
(* The order in which file systems were attached does not matter.          *)
(***************************************************************************)
EXTENDS Naturals, SequencesExt

CONSTANTS MountPaths, Systems, PathSet

VARIABLES
    table,      \* the file system attached to each mount point
    files,      \* what exists: pairs of a file system and a path in it
    last        \* the path of the last operation

\* The mount points that path lies at or below, and the innermost of them.
Covering(path) == {m \in DOMAIN table : IsPrefix(m, path)}
Innermost(path) == CHOOSE m \in Covering(path) : \A n \in Covering(path) : Len(n) <= Len(m)

\* Where path leads to.
Place(path) ==
    LET m == Innermost(path) IN <<table[m], SubSeq(path, Len(m) + 1, Len(path))>>

Init == table = <<>> /\ files = {} /\ last = <<>>

Attach(m, fs) ==
    /\ m \notin DOMAIN table /\ \A n \in DOMAIN table : table[n] # fs
    /\ table' = [n \in DOMAIN table \cup {m} |-> IF n = m THEN fs ELSE table[n]]
    /\ last' = m
    /\ UNCHANGED files

Detach(m) ==
    /\ m \in DOMAIN table
    /\ table' = [n \in DOMAIN table \ {m} |-> table[n]]
    /\ files' = {f \in files : f[1] # table[m]}
    /\ last' = m

Create(path) ==
    /\ Covering(path) # {}
    /\ files' = files \cup {Place(path)}
    /\ last' = path
    /\ UNCHANGED table

Delete(path) ==
    /\ Covering(path) # {}
    /\ files' = files \ {Place(path)}
    /\ last' = path
    /\ UNCHANGED table

Next ==
    \/ \E m \in MountPaths : Detach(m) \/ \E fs \in Systems : Attach(m, fs)
    \/ \E path \in PathSet : Create(path) \/ Delete(path)

Spec == Init /\ [][Next]_<<table, files, last>>
=============================================================================
