-------------------------------- MODULE Vfs --------------------------------
(***************************************************************************)
(* The mount table of vfs/mod.rs: a vector of mounts kept sorted by the    *)
(* length of their paths, searched from the front by comparing strings.    *)
(*                                                                         *)
(* Strings matter here: the order is by length in bytes, and a mount at    *)
(* /a is a string prefix of /ab/c without covering it. So a name has a     *)
(* text, and a path of names is the string with a slash before each.       *)
(*                                                                         *)
(* Every operation holds the VFS lock from beginning to end: one step.     *)
(***************************************************************************)
EXTENDS Paths

CONSTANTS
    Text,       \* the text of each name, a sequence of characters
    RawPaths,   \* paths passed to the operations: parts, normalised or not
    MountAt,    \* paths passed to mount and unmount
    Systems     \* the file systems there are to mount

ASSUME TextAssumption ==
    /\ DOMAIN Text \subseteq Nat \ {0}
    /\ \A n \in DOMAIN Text : Text[n] \in Seq(Range(Text[n])) /\ Text[n] # <<>>

\* Paths are made of names and the two special parts.
ASSUME PartsAssumption ==
    RawPaths \cup MountAt \subseteq Seq(DOMAIN Text \cup {DOT, DOTDOT})

VARIABLES
    mounts,     \* Vfs::mounts, of [path, fs]
    files,      \* what the mounted file systems hold: pairs <<fs, path in it>>
    last        \* history: the path of the last operation that succeeded

vars == <<mounts, files, last>>

Init == mounts = <<>> /\ files = {} /\ last = <<>>

\* path.len(): bytes of the normalised string, 1 for "/".
len(path) ==
    IF path = <<>> THEN 1 ELSE FoldLeft(LAMBDA sum, n : sum + 1 + Len(Text[n]), 0, path)

\* A stable sort by decreasing length: each mount goes before the first shorter one.
SortedPlace(s, m) ==
    Min({i \in 1 .. Len(s) + 1 : i <= Len(s) => len(s[i].path) < len(m.path)})

sort_by_len(s) == FoldLeft(LAMBDA done, m : InsertAt(done, SortedPlace(done, m), m), <<>>, s)

mount(parts, fs) ==
    LET path == normalize_path(parts) IN
    /\ \A i \in DOMAIN mounts : mounts[i].fs # fs       \* mount owns its file system
    /\ IF \E i \in DOMAIN mounts : mounts[i].path = path
         THEN UNCHANGED vars                            \* AlreadyExists
         ELSE /\ mounts' = sort_by_len(Append(mounts, [path |-> path, fs |-> fs]))
              /\ last' = path
              /\ UNCHANGED files

\* The file system is dropped with its mount, and what it holds with it.
unmount(parts) ==
    LET path == normalize_path(parts)
        at   == {i \in DOMAIN mounts : mounts[i].path = path} IN
    IF at = {}
      THEN UNCHANGED vars                               \* NotFound
      ELSE \E i \in at :
             /\ mounts' = RemoveAt(mounts, i)
             /\ files' = {f \in files : f[1] # mounts[i].fs}
             /\ last' = path

\* path.starts_with(&mount.path), for a mount not at "/": the last name of the mount
\* need only be the beginning of the name it meets.
starts_with(path, m) ==
    /\ Len(path) >= Len(m)
    /\ Front(m) = SubSeq(path, 1, Len(m) - 1)
    /\ IsPrefix(Text[Last(m)], Text[path[Len(m)]])

\* Mutant: the string comparison alone decides.
Bug_NoBoundary(path, m) ==
    m = <<>> \/ path = m \/ starts_with(path, m)

\* The loop of resolve returns at this mount: "/" takes every path; otherwise the path is
\* the mount's, or begins with it and goes on with a slash (else: continue).
Takes(path, m) ==
    \/ m = <<>>
    \/ path = m
    \/ starts_with(path, m) /\ path[Len(m)] = Last(m)

\* The first mount that takes the path; 0 for NotFound.
resolve(path) == SelectInSeq(mounts, LAMBDA m : Takes(path, m.path))

\* What resolve returns for the path: the file system, and the path within it.
Target(path) ==
    LET m == mounts[resolve(path)] IN <<m.fs, SubSeq(path, Len(m.path) + 1, Len(path))>>

\* open with O_CREAT and mkdir, as far as the table is concerned.
create(parts) ==
    LET path == normalize_path(parts) IN
    /\ resolve(path) # 0
    /\ files' = files \cup {Target(path)}
    /\ last' = path
    /\ UNCHANGED mounts

\* remove and rmdir.
remove(parts) ==
    LET path == normalize_path(parts) IN
    /\ resolve(path) # 0
    /\ files' = files \ {Target(path)}
    /\ last' = path
    /\ UNCHANGED mounts

Next ==
    \/ \E p \in MountAt : unmount(p) \/ \E fs \in Systems : mount(p, fs)
    \/ \E p \in RawPaths : create(p) \/ remove(p)

Spec == Init /\ [][Next]_vars
-----------------------------------------------------------------------------
Normal(raw) == {normalize_path(p) : p \in raw}

\* The table as the callers of mount see it: from mount points to file systems.
Attached ==
    [p \in {mounts[i].path : i \in DOMAIN mounts} |->
        mounts[CHOOSE i \in DOMAIN mounts : mounts[i].path = p].fs]

Abstract == INSTANCE MountTable WITH
    MountPaths <- Normal(MountAt), PathSet <- Normal(RawPaths), table <- Attached

(* The sorted vector and its string comparisons implement a table of mount points: a   *)
(* path always leads to the innermost file system mounted above it, and to the right   *)
(* place in it, in whatever order things were mounted and unmounted, also when one     *)
(* mount point's name is the beginning of another's (resolve, mount, unmount).         *)
IsMountTable == Abstract!Spec
=============================================================================
