------------------------------- MODULE MCVfs -------------------------------
(* Names and mount points for TLC: a and ab, so that a mount point is a string prefix *)
(* of its neighbour and of what lies below the neighbour.                             *)
EXTENDS Vfs

Letters == <<<<"a">>, <<"a", "b">>>>

\* The file systems are alike.
Alike == Permutations(Systems)

\* "/", "/a", "/ab", "/a/ab" and "/ab/../a/.".
Points == {<<>>, <<1>>, <<2>>, <<1, 2>>, <<2, DOTDOT, 1, DOT>>}

\* Paths at, below and beside the mount points, with "." and "..".
Used == {<<1>>, <<2>>, <<1, 2>>, <<2, 1>>, <<2, DOTDOT, DOTDOT, 1, 1>>}
=============================================================================
