------------------------------ MODULE Files ------------------------------
(***************************************************************************)
(* The file system calls of cpu/syscall.rs, the descriptor tables of       *)
(* vfs/fd.rs, path resolution of vfs/mod.rs and the in-memory file system  *)
(* of vfs/tmpfs.rs, the root file system when no FAT32 partition can be    *)
(* mounted.                                                                *)
(*                                                                         *)
(* A tmpfs handle holds a copy of the whole file, made by open; write      *)
(* changes the copy and stores all of it back under the handle's path.     *)
(*                                                                         *)
(* A system call is one step.  The kernel has one system-call stack for    *)
(* all tasks, so a call that another one interrupts has no meaning the     *)
(* file layer could be checked for.                                        *)
(***************************************************************************)
EXTENDS Paths

CONSTANTS
  Tasks,
  Names,        \* names of files and directories: numbers, in name order
  MAX_FDS,
  UserPaths,    \* paths that tasks pass: [abs, parts]
  OpenFlags,    \* flags that tasks pass to open: [mode, opts]
  Bytes,        \* the bytes that are written
  MaxLen,       \* bound on the length of a file
  MaxDepth,     \* bound on the depth of the paths used
  BufLens       \* buffer sizes that tasks pass to getdents

ASSUME NamesAssumption == Names \subseteq Nat \ {0}
ASSUME PathsAssumption ==
  UserPaths \subseteq [abs : BOOLEAN, parts : Seq(Names \cup {DOT, DOTDOT})]
ASSUME BufLensAssumption == BufLens \subseteq Nat
ASSUME FdsAssumption == MAX_FDS \in Nat /\ MAX_FDS >= 3
ASSUME FlagsAssumption ==
  OpenFlags \subseteq
    [mode : 0..3, opts : SUBSET {"O_CREAT", "O_TRUNC", "O_APPEND", "O_DIRECTORY"}]

VARIABLES
  tree,   \* the nodes of the file system, by path: [type, data]
  fds,    \* the descriptor table of each task
  cwd     \* the working directory of each task

vars == <<tree, fds, cwd>>

Fd == 0 .. (MAX_FDS - 1)

None == [kind |-> "None"]

Directory == [type |-> "Directory", data |-> <<>>]

File(data) == [type |-> "File", data |-> data]

\* FdTable::new
NewTable ==
  [fd \in Fd |-> CASE fd = 0 -> [kind |-> "Stdin"]
                   [] fd = 1 -> [kind |-> "Stdout"]
                   [] fd = 2 -> [kind |-> "Stderr"]
                   [] OTHER  -> None]

Init ==
  /\ tree = [path \in {<<>>} |-> Directory]
  /\ fds = [t \in Tasks |-> NewTable]
  /\ cwd = [t \in Tasks |-> <<>>]

-----------------------------------------------------------------------------
(* The tree *)

IsDir(path)  == path \in DOMAIN tree /\ tree[path].type = "Directory"
IsFile(path) == path \in DOMAIN tree /\ tree[path].type = "File"

\* The tree with a node put at a path, and with the node at a path taken out.
With(path, node) ==
  [p \in DOMAIN tree \cup {path} |-> IF p = path THEN node ELSE tree[p]]
Without(path) == [p \in DOMAIN tree \ {path} |-> tree[p]]

Children(path) == {p \in DOMAIN tree : p # <<>> /\ Front(p) = path}

\* navigate: NotADirectory when a file is met on the way, else NotFound.
NotFound(path) ==
  /\ path \notin DOMAIN tree
  /\ \A i \in 0 .. (Len(path) - 1) : ~IsFile(SubSeq(path, 1, i))

\* navigate_to_parent succeeds with a directory.
HasParent(path) == path # <<>> /\ IsDir(Front(path))

-----------------------------------------------------------------------------
(* Handles *)

is_readable(flags) == flags.mode \in {0, 2}
is_writable(flags) == flags.mode \in {1, 2}

\* History: fresh, as long as the handle's copy should be what the file holds.
Handle(data, position, path, flags, fresh) ==
  [kind |-> "File", data |-> data, position |-> position, path |-> path,
   flags |-> flags, fresh |-> fresh]

\* Mutant: the position is taken before the truncation.
Bug_PositionAfterTruncate(path, flags) ==
  LET old  == tree[path].data
      data == IF "O_TRUNC" \in flags.opts THEN <<>> ELSE old
  IN  Handle(data, IF "O_APPEND" \in flags.opts THEN Len(old) ELSE 0,
             path, flags, "O_TRUNC" \notin flags.opts)

\* The handle open makes for a file that exists.
OpenedHandle(path, flags) ==
  LET data == IF "O_TRUNC" \in flags.opts THEN <<>> ELSE tree[path].data
  IN  Handle(data, IF "O_APPEND" \in flags.opts THEN Len(data) ELSE 0,
             path, flags, "O_TRUNC" \notin flags.opts)

\* History: the handles of a table on a path are no longer fresh.
Outdated(table, path) ==
  [fd \in Fd |-> IF table[fd].kind = "File" /\ table[fd].path = path
                 THEN [table[fd] EXCEPT !.fresh = FALSE] ELSE table[fd]]

AllOutdated(path) == [t \in Tasks |-> Outdated(fds[t], path)]

-----------------------------------------------------------------------------
(* The descriptor table *)

FreeFds(t) == {fd \in Fd : fds[t][fd] = None}

\* Mutant: the slot is not tested.
Bug_AllocAny(t, entry) == [fds EXCEPT ![t][MAX_FDS - 1] = entry]

\* FdTable::alloc: the lowest free descriptor, or NoSpace and the entry is
\* dropped.
fd_alloc(t, entry) ==
  IF FreeFds(t) = {} THEN fds
  ELSE [fds EXCEPT ![t][Min(FreeFds(t))] = entry]

-----------------------------------------------------------------------------
(* System calls.  A call that fails changes nothing, and is left out. *)

\* What the paths a task passes resolve to.
PathsOf(t) ==
  {path \in {resolve_path(user, cwd[t]) : user \in UserPaths} :
     Len(path) <= MaxDepth}

\* The names in a directory, in order.
DirEntries(path) ==
  LET names  == {Last(p) : p \in Children(path)}
      nth(i) == CHOOSE n \in names : Cardinality({m \in names : m < n}) = i - 1
  IN  [i \in 1 .. Cardinality(names) |->
         [name |-> nth(i), type |-> tree[Append(path, nth(i))].type]]

\* SYS_OPEN with O_DIRECTORY: a copy of the listing.
open_directory(t, path) ==
  /\ IsDir(path)
  /\ fds' = fd_alloc(t, [kind |-> "Directory", path |-> path,
                              entries |-> DirEntries(path), position |-> 0])
  /\ UNCHANGED <<tree, cwd>>

\* Mutant: O_CREAT inserts over a file that exists.
Bug_CreateOverExisting(t, path, flags) ==
  /\ path # <<>> /\ ~IsDir(path) /\ HasParent(path) /\ "O_CREAT" \in flags.opts
  /\ tree' = With(path, File(<<>>))
  /\ fds' = fd_alloc(t, Handle(<<>>, 0, path, flags, TRUE))
  /\ UNCHANGED cwd

\* SYS_OPEN of a file.  The file stays when the table has no room for it.
open_file(t, path, flags) ==
  /\ \/ /\ IsFile(path)
        /\ fds' = fd_alloc(t, OpenedHandle(path, flags))
        /\ UNCHANGED tree
     \/ /\ NotFound(path) /\ "O_CREAT" \in flags.opts /\ HasParent(path)
        /\ tree' = With(path, File(<<>>))
        /\ fds' = fd_alloc(t, Handle(<<>>, 0, path, flags, TRUE))
  /\ UNCHANGED cwd

sys_open(t) ==
  \E path \in PathsOf(t), flags \in OpenFlags :
    IF "O_DIRECTORY" \in flags.opts THEN open_directory(t, path)
    ELSE open_file(t, path, flags)

\* SYS_READ of one byte from a file; the end of the file reads nothing.
sys_read(t) ==
  \E fd \in Fd :
    /\ fds[t][fd].kind = "File" /\ is_readable(fds[t][fd].flags)
    /\ fds[t][fd].position < Len(fds[t][fd].data)
    /\ fds' = [fds EXCEPT ![t][fd].position = @ + 1]
    /\ UNCHANGED <<tree, cwd>>

\* Where a write begins.
WriteAt(h) == IF "O_APPEND" \in h.flags.opts THEN Len(h.data) ELSE h.position

\* The copy after writing one byte: grown with zeros if need be.
Written(h, byte) ==
  LET end == WriteAt(h) + 1
  IN  [i \in 1 .. (IF end > Len(h.data) THEN end ELSE Len(h.data)) |->
         IF i = end THEN byte ELSE IF i <= Len(h.data) THEN h.data[i] ELSE 0]

\* Mutant: the copy is stored before it is changed.
Bug_StoreFirst(h, data) ==
  IF IsFile(h.path) THEN [tree EXCEPT ![h.path].data = h.data] ELSE tree

\* The tree after the copy is stored under its path, if that is a file still.
Stored(h, data) ==
  IF IsFile(h.path) THEN [tree EXCEPT ![h.path].data = data] ELSE tree

\* SYS_WRITE of one byte to a file.
sys_write(t) ==
  \E fd \in Fd, byte \in Bytes :
    /\ fds[t][fd].kind = "File" /\ is_writable(fds[t][fd].flags)
    /\ LET h    == fds[t][fd]
           data == Written(h, byte)
       IN  /\ Len(data) <= MaxLen
           /\ tree' = Stored(h, data)
           /\ fds' = [AllOutdated(h.path) EXCEPT
                        ![t][fd] = Handle(data, WriteAt(h) + 1, h.path, h.flags,
                                          IsFile(h.path))]
    /\ UNCHANGED cwd

\* SYS_CLOSE: the standard descriptors stay.
sys_close(t) ==
  \E fd \in Fd :
    /\ fd >= 3 /\ fds[t][fd] # None
    /\ fds' = [fds EXCEPT ![t][fd] = None]
    /\ UNCHANGED <<tree, cwd>>

-----------------------------------------------------------------------------
(* SYS_GETDENTS *)

\* The names differ in length: name n has n bytes.
NameLen(name) == name

\* Type, length and name.
entry_size(entry) == 1 + 2 + NameLen(entry.name)

\* The entries still to come.
Rest(dir) == SubSeq(dir.entries, dir.position + 1, Len(dir.entries))

\* Mutant: the test leaves out the entry to be packed.
Bug_SizeLeftOut(dir, buf_len) ==
  FoldLeft(LAMBDA p, entry :
             IF p.full \/ p.offset >= buf_len
             THEN [p EXCEPT !.full = TRUE]
             ELSE [p EXCEPT !.count = @ + 1, !.offset = @ + entry_size(entry)],
           [count |-> 0, offset |-> 0, full |-> FALSE], Rest(dir))

\* What one call packs: entries up to the first that does not fit.
Packed(dir, buf_len) ==
  FoldLeft(LAMBDA p, entry :
             IF p.full \/ p.offset + entry_size(entry) > buf_len
             THEN [p EXCEPT !.full = TRUE]
             ELSE [p EXCEPT !.count = @ + 1, !.offset = @ + entry_size(entry)],
           [count |-> 0, offset |-> 0, full |-> FALSE], Rest(dir))

sys_getdents(t) ==
  \E fd \in Fd, buf_len \in BufLens :
    /\ fds[t][fd].kind = "Directory"
    /\ fds' = [fds EXCEPT ![t][fd].position = @ + Packed(fds[t][fd], buf_len).count]
    /\ UNCHANGED <<tree, cwd>>

-----------------------------------------------------------------------------
(* Calls on directories *)

sys_mkdir(t) ==
  \E path \in PathsOf(t) :
    /\ HasParent(path) /\ path \notin DOMAIN tree
    /\ tree' = With(path, Directory)
    /\ UNCHANGED <<fds, cwd>>

sys_unlink(t) ==
  \E path \in PathsOf(t) :
    /\ HasParent(path) /\ IsFile(path)
    /\ tree' = Without(path)
    /\ fds' = AllOutdated(path)
    /\ UNCHANGED cwd

sys_rmdir(t) ==
  \E path \in PathsOf(t) :
    /\ HasParent(path) /\ IsDir(path) /\ Children(path) = {}
    /\ tree' = Without(path)
    /\ UNCHANGED <<fds, cwd>>

sys_chdir(t) ==
  \E path \in PathsOf(t) :
    /\ IsDir(path)
    /\ cwd' = [cwd EXCEPT ![t] = path]
    /\ UNCHANGED <<tree, fds>>

Next == \E t \in Tasks :
  \/ sys_open(t)
  \/ sys_read(t)
  \/ sys_write(t)
  \/ sys_close(t)
  \/ sys_getdents(t)
  \/ sys_mkdir(t)
  \/ sys_unlink(t)
  \/ sys_rmdir(t)
  \/ sys_chdir(t)

Spec == Init /\ [][Next]_vars

-----------------------------------------------------------------------------
(* Properties *)

(***************************************************************************)
(* A handle's copy is what the file holds, unless the handle was opened    *)
(* with O_TRUNC and has not written yet, or since its open or its last     *)
(* write another handle wrote the file or the file was unlinked.  Those    *)
(* are the only ways to read old data, and to overwrite the data of        *)
(* others, through tmpfs.                                                  *)
(***************************************************************************)
CopyIsCurrent ==
  \A t \in Tasks, fd \in Fd :
    LET h == fds[t][fd]
    IN  h.kind = "File" /\ h.fresh => IsFile(h.path) /\ tree[h.path].data = h.data

(***************************************************************************)
(* The position of a handle is within its copy, so that the slice          *)
(* data[position..] in read cannot panic: no system call reaches seek.     *)
(***************************************************************************)
PositionInData ==
  \A t \in Tasks, fd \in Fd :
    fds[t][fd].kind = "File" => fds[t][fd].position <= Len(fds[t][fd].data)

(***************************************************************************)
(* A call of getdents never packs more bytes than the buffer has, and it   *)
(* returns 0, which the shell takes for the end of the listing, only there *)
(* or when the next entry alone exceeds the buffer.                        *)
(***************************************************************************)
GetdentsSound ==
  \A t \in Tasks, fd \in Fd, buf_len \in BufLens :
    LET d == fds[t][fd]
    IN  d.kind = "Directory" =>
          /\ Packed(d, buf_len).offset <= buf_len
          /\ Packed(d, buf_len).offset = 0 =>
               Rest(d) = <<>> \/ entry_size(Head(Rest(d))) > buf_len

(***************************************************************************)
(* Nothing disappears by accident: only nodes without children are removed *)
(* and the data of a file changes only to the copy of a writable handle    *)
(* that was open on it.  In particular open never changes a file.          *)
(***************************************************************************)
NothingLost ==
  [][\A p \in DOMAIN tree :
       IF p \notin DOMAIN tree' THEN Children(p) = {}
       ELSE /\ tree'[p].type = tree[p].type
            /\ \/ tree'[p].data = tree[p].data
               \/ \E t \in Tasks, fd \in Fd :
                    LET h == fds[t][fd]
                    IN  /\ h.kind = "File" /\ h.path = p /\ is_writable(h.flags)
                        /\ fds'[t][fd].kind = "File"
                        /\ fds'[t][fd].data = tree'[p].data]_vars

(***************************************************************************)
(* A descriptor denotes what it was opened on until it is closed, whatever *)
(* is opened, removed or made meanwhile, by this task or another; its      *)
(* position never moves back, and the standard descriptors stay.           *)
(***************************************************************************)
DescriptorStable ==
  [][\A t \in Tasks, fd \in Fd :
       LET old == fds[t][fd]
           new == fds'[t][fd]
       IN  \/ old = None
           \/ new = None /\ fd >= 3
           \/ /\ new.kind = old.kind
              /\ old.kind \in {"File", "Directory"} =>
                   new.path = old.path /\ new.position >= old.position
              /\ old.kind = "File" => new.flags = old.flags
              /\ old.kind = "Directory" => new.entries = old.entries]_vars

=============================================================================
