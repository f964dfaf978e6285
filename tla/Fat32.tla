------------------------------- MODULE Fat32 -------------------------------
(***************************************************************************)
(* The FAT32 driver of the Vyper kernel (vcore/src/vfs/fat32.rs): the      *)
(* allocation table, directories as cluster chains, and file handles that  *)
(* keep a whole file in memory and write it back when they are dropped.    *)
(*                                                                         *)
(* An operation holds the volume's lock from its first read to its last    *)
(* write, so the sector writes it will make are a function of the volume   *)
(* it finds: the action of a call computes that list, and the disk then    *)
(* performs it one write at a time.  Between two writes the device may     *)
(* report an error (the operation returns and the rest is not written) or  *)
(* the machine may lose power.                                             *)
(*                                                                         *)
(* A cluster is K units.  A unit is a 32-byte directory slot or, in a      *)
(* file, one piece of data; paths have one or two components.  Names have  *)
(* the 8.3 shape: one needs a long-name entry only to keep its case, and a *)
(* name that lost it (a fault between two writes) still compares equal.    *)
(***************************************************************************)
EXTENDS Integers, Sequences, FiniteSets, SequencesExt, FiniteSetsExt

CONSTANTS MaxCluster,   \* the volume has the clusters 2 .. MaxCluster
          K,            \* units in a cluster
          Names,        \* file names, upper and lower case identified
          Paths,        \* the paths callers use: one or two names
          SlotsOf,      \* directory slots of a name: the short entry, and an LFN one before it
          Files,        \* the names of the files the formatter put in the root directory
          MaxData,      \* bound: units in a file
          Handles,      \* file handles (fd table entries)
          Faults        \* subset of {"io", "crash"}

ASSUME VolumeAssumption ==
    /\ MaxCluster \in Nat /\ MaxCluster > 2
    /\ K \in Nat /\ K >= 2
    /\ SlotsOf \in [Names -> 1 .. 2]
    /\ Files \in Seq(Names) /\ IsInjective(Files)
    /\ \A p \in Paths : p \in Seq(Names) /\ Len(p) \in {1, 2}
    /\ MaxData \in Nat
    /\ Faults \subseteq {"io", "crash"}

VARIABLES disk,      \* [fat, units]: the allocation table and the clusters' contents
          handle,    \* per handle: FatFileHandle, or Closed
          op,        \* the operation that holds the lock, with the writes it has still to make
          reply,     \* what the last call returned, "none" while one is in progress
          synced,    \* history: per file of the root, the data of its last write-back
          torn       \* history: a fault hit between a free_chain and its directory update

vars == <<disk, handle, op, reply, synced, torn>>

Root == 2
Clusters == 2 .. MaxCluster
FREE == 0
EOC == MaxCluster + 1

Zero == [t |-> "zero"]
Deleted == [t |-> "deleted"]
Dot == [t |-> "dot"]
Lfn(n) == [t |-> "lfn", name |-> n]
Entry(n, d, c, s) == [t |-> "entry", name |-> n, dir |-> d, cluster |-> c, size |-> s]
Data(p, i) == [t |-> "data", path |-> p, at |-> i]

Closed == [open |-> FALSE]
Unknown == [known |-> FALSE, data |-> <<>>]
Idle == [kind |-> "idle", path |-> <<>>, todo |-> <<>>, ok |-> TRUE, frees |-> FALSE,
         begun |-> FALSE]

-----------------------------------------------------------------------------
(* The allocation table *)

\* The chain of cluster c, followed like read_chain and free_chain do.
Chain(fat, c) ==
    LET walk[n \in 0 .. MaxCluster] ==
            IF n = 0 THEN IF c \in Clusters THEN <<c>> ELSE <<>>
            ELSE LET s == walk[n - 1]
                 IN IF Len(s) = n /\ fat[Last(s)] \in Clusters
                    THEN Append(s, fat[Last(s)]) ELSE s
    IN walk[MaxCluster]

SetFat(c, v) == [what |-> "fat", cluster |-> c, value |-> v]
PutCluster(c, us) == [what |-> "units", cluster |-> c, value |-> us]

Apply(d, w) == IF w.what = "fat" THEN [d EXCEPT !.fat[w.cluster] = w.value]
                                 ELSE [d EXCEPT !.units[w.cluster] = w.value]

\* The volume once the first k of the writes ws are done, and once all are.
Stage(d, ws, k) ==
    LET after[i \in 0 .. Len(ws)] == IF i = 0 THEN d ELSE Apply(after[i - 1], ws[i])
    IN after[k]

Run(d, ws) == Stage(d, ws, Len(ws))

Zeros(n) == [i \in 1 .. n |-> Zero]

\* The free clusters in the order in which allocate_cluster hands them out.
FreeClusters(fat) ==
    LET found[c \in 0 .. MaxCluster] ==
            IF c = 0 THEN <<>>
            ELSE IF c \in Clusters /\ fat[c] = FREE THEN Append(found[c - 1], c) ELSE found[c - 1]
    IN found[MaxCluster]

\* allocate_cluster, once it has found cluster c.
Allocate(c) == <<SetFat(c, EOC), PutCluster(c, Zeros(K))>>

Bug_LinkFirst(last, c) == <<SetFat(last, c)>> \o Allocate(c)

extend_chain(last, c) == Append(Allocate(c), SetFat(last, c))

Bug_FreeFirstOnly(fat, c) == IF c \in Clusters THEN <<SetFat(c, FREE)>> ELSE <<>>

free_chain(fat, c) == LET s == Chain(fat, c) IN [i \in DOMAIN s |-> SetFat(s[i], FREE)]

\* The units of the data that go to its i-th cluster, padded with zeros.
Piece(data, i) == SubSeq(data \o Zeros(K), (i - 1) * K + 1, i * K)

Needed(data) == (Len(data) + K - 1) \div K

\* The clusters it writes to: those of the chain, then free ones while there are any.
Targets(fat, start, data) ==
    LET all == Chain(fat, start) \o FreeClusters(fat)
    IN SubSeq(all, 1, IF Needed(data) < Len(all) THEN Needed(data) ELSE Len(all))

\* The writes of the loop's first n rounds; old is the length of the chain.
Rounds(old, cl, data, n) ==
    LET done[i \in 0 .. Len(cl)] ==
            IF i = 0 THEN IF old = 0 THEN Allocate(cl[1]) ELSE <<>>
            ELSE done[i - 1] \o <<PutCluster(cl[i], Piece(data, i))>>
                 \o IF i >= old /\ i < Len(cl) THEN extend_chain(cl[i], cl[i + 1]) ELSE <<>>
    IN done[n]

(***************************************************************************)
(* write_chain: overwrite the chain of `start` with the data, extending it *)
(* as needed; when the volume is full it stops where it is.  The chain is  *)
(* cut after the last cluster written; what followed it is not freed.      *)
(***************************************************************************)
write_chain(fat, start, data) ==
    LET cl == Targets(fat, start, data)
        todo == Rounds(Len(Chain(fat, start)), cl, data, Len(cl))
    IN IF cl = <<>> THEN [todo |-> <<>>, first |-> start, ok |-> Needed(data) = 0]
       ELSE [todo |-> IF Len(cl) = Needed(data) THEN Append(todo, SetFat(Last(cl), EOC)) ELSE todo,
             first |-> cl[1],
             ok |-> Len(cl) = Needed(data)]

-----------------------------------------------------------------------------
(* Directories *)

\* Where the i-th unit of a chain is: in which of its clusters, and at which place in it.
ClusterNo(i) == (i - 1) \div K + 1
Within(i) == ((i - 1) % K) + 1

read_chain(d, c) ==
    LET s == Chain(d.fat, c)
    IN [i \in 1 .. Len(s) * K |-> d.units[s[ClusterNo(i)]][Within(i)]]

\* read_directory: the short entries before the end marker, by their slot number.
DirSlots(us) == {i \in DOMAIN us : /\ us[i].t = "entry"
                                   /\ \A j \in 1 .. i - 1 : us[j].t # "zero"}

\* find_in_directory: the slot of the first entry of that name, 0 if there is none.
FindIn(us, n) == LET S == {i \in DirSlots(us) : us[i].name = n}
                 IN IF S = {} THEN 0 ELSE Min(S)

IsFree(u) == u.t \in {"zero", "deleted"}

\* The slots at which n consecutive ones are free.
FreeRuns(us, n) == {i \in 1 .. Len(us) - n + 1 : \A j \in i .. i + n - 1 : IsFree(us[j])}

\* find_free_dir_slots: the directory's units, one cluster longer if it is full.
Room(us, n) == IF FreeRuns(us, n) # {} THEN us ELSE us \o Zeros(K)

\* The units with the entry e in the n slots from `at`, its short entry in the last of them.
WithEntry(us, at, n, e) ==
    [i \in 1 .. Len(us) |-> IF i = at + n - 1 THEN e
                         ELSE IF i \in at .. at + n - 2 THEN Lfn(e.name)
                         ELSE us[i]]

Bug_LastFreeSlot(d, dir, e) ==
    LET n == SlotsOf[e.name]
        us == Room(read_chain(d, dir), n)
        at == Max(FreeRuns(us, n))
    IN write_chain(d.fat, dir, WithEntry(us, at, n, e))

add_dir_entry(d, dir, e) ==
    LET n == SlotsOf[e.name]
        us == Room(read_chain(d, dir), n)
        at == Min(FreeRuns(us, n))
    IN write_chain(d.fat, dir, WithEntry(us, at, n, e))

update_dir_entry(d, dir, slot, e) ==
    write_chain(d.fat, dir, [read_chain(d, dir) EXCEPT ![slot] = e])

\* The units without the entry at the slot and the LFN one before it, if it has that.
Without(us, slot) ==
    [i \in 1 .. Len(us) |-> IF i = slot \/ (i = slot - 1 /\ us[i].t = "lfn") THEN Deleted ELSE us[i]]

Bug_ClearFirst(d, dir, slot) ==
    LET w == write_chain(d.fat, dir, Without(read_chain(d, dir), slot))
    IN [w EXCEPT !.todo = <<PutCluster(dir, Zeros(K))>> \o @]

remove_dir_entry(d, dir, slot) ==
    write_chain(d.fat, dir, Without(read_chain(d, dir), slot))

\* split_path: the cluster of the directory that holds (or would hold) the path, 0 if none.
ParentOf(d, p) ==
    IF Len(p) = 1 THEN Root
    ELSE LET us == read_chain(d, Root)
             i == FindIn(us, p[1])
         IN IF i # 0 /\ us[i].dir THEN us[i].cluster ELSE 0

\* The slot of the path in its directory, 0 if it does not exist (resolve_path).
SlotOf(d, p) == IF ParentOf(d, p) = 0 THEN 0
                ELSE FindIn(read_chain(d, ParentOf(d, p)), Last(p))

EntryAt(d, p) == read_chain(d, ParentOf(d, p))[SlotOf(d, p)]

Exists(d, p) == SlotOf(d, p) # 0
IsDir(d, p) == Exists(d, p) /\ EntryAt(d, p).dir

\* What open reads: the chain, truncated to the size in the directory entry.
Contents(d, p) ==
    LET e == EntryAt(d, p)
        us == read_chain(d, e.cluster)
    IN SubSeq(us, 1, IF e.size < Len(us) THEN e.size ELSE Len(us))

-----------------------------------------------------------------------------
(* Calls *)

\* What a call returns: drop discards the error of a write-back, close reports success.
Reply(kind, ok) == IF ok \/ kind = "sync" THEN "Ok" ELSE "IoError"

\* The call starts making its writes, or returns an error when it has none to make.
Start(kind, p, todo, ok, frees) ==
    /\ IF todo = <<>>
       THEN op' = Idle /\ reply' = Reply(kind, ok)
       ELSE /\ op' = [kind |-> kind, path |-> p, todo |-> todo, ok |-> ok, frees |-> frees,
                     begun |-> FALSE]
            /\ reply' = "none"
    /\ UNCHANGED <<disk, torn>>

Refuse(error) == reply' = error /\ UNCHANGED <<disk, handle, op, synced, torn>>

\* A caller may enter: nobody holds the lock, the kernel has not panicked, and the volume
\* has not been torn by a fault.
Enter == op = Idle /\ ~torn /\ reply # "panic"

mkdir(p) ==
    /\ Enter
    /\ \/ ParentOf(disk, p) = 0 /\ Refuse("InvalidPath")
       \/ Exists(disk, p) /\ Refuse("AlreadyExists")
       \/ /\ ParentOf(disk, p) # 0
          /\ ~Exists(disk, p)
          /\ FreeClusters(disk.fat) = <<>>
          /\ Refuse("IoError")
       \/ /\ ParentOf(disk, p) # 0
          /\ ~Exists(disk, p)
          /\ FreeClusters(disk.fat) # <<>>
          /\ LET c == Head(FreeClusters(disk.fat))
                 body == Append(Allocate(c), PutCluster(c, <<Dot, Dot>> \o Zeros(K - 2)))
                 link == add_dir_entry(Run(disk, body), ParentOf(disk, p), Entry(Last(p), TRUE, c, 0))
             IN Start("mkdir", p, body \o link.todo, link.ok, FALSE)
          /\ UNCHANGED <<handle, synced>>

\* No handle is open on the path: the caller's discipline, the driver does not check it.
Unused(p) == \A h \in Handles : handle[h].open => handle[h].path # p

remove(p) ==
    /\ Enter
    /\ Unused(p)
    /\ \/ ParentOf(disk, p) = 0 /\ Refuse("InvalidPath")
       \/ ParentOf(disk, p) # 0 /\ ~Exists(disk, p) /\ Refuse("NotFound")
       \/ IsDir(disk, p) /\ Refuse("IsADirectory")
       \/ /\ Exists(disk, p)
          /\ ~IsDir(disk, p)
          /\ LET free == free_chain(disk.fat, EntryAt(disk, p).cluster)
                 unlink == remove_dir_entry(Run(disk, free), ParentOf(disk, p), SlotOf(disk, p))
             IN Start("remove", p, free \o unlink.todo, unlink.ok, free # <<>>)
          /\ synced' = [synced EXCEPT ![p] = Unknown]
          /\ UNCHANGED handle

rmdir(p) ==
    /\ Enter
    /\ \/ ParentOf(disk, p) = 0 /\ Refuse("InvalidPath")
       \/ ParentOf(disk, p) # 0 /\ ~Exists(disk, p) /\ Refuse("NotFound")
       \/ Exists(disk, p) /\ ~IsDir(disk, p) /\ Refuse("NotADirectory")
       \/ /\ IsDir(disk, p)
          /\ DirSlots(read_chain(disk, EntryAt(disk, p).cluster)) # {}
          /\ Refuse("NotEmpty")
       \/ /\ IsDir(disk, p)
          /\ DirSlots(read_chain(disk, EntryAt(disk, p).cluster)) = {}
          /\ LET free == free_chain(disk.fat, EntryAt(disk, p).cluster)
                 unlink == remove_dir_entry(Run(disk, free), ParentOf(disk, p), SlotOf(disk, p))
             IN Start("rmdir", p, free \o unlink.todo, unlink.ok, free # <<>>)
          /\ UNCHANGED <<handle, synced>>

\* The flags of cat, of write, of an overwriting and of a truncating caller, and of both.
Flags == {{}, {"O_WRITE", "O_APPEND", "O_CREAT"}, {"O_WRITE"}, {"O_WRITE", "O_TRUNC", "O_CREAT"},
          {"O_WRITE", "O_APPEND", "O_TRUNC"}}

\* open: resolve_path fails on a missing file before O_CREAT is looked at.
open(h, p, flags) ==
    /\ Enter
    /\ ~handle[h].open
    /\ Unused(p)
    /\ \/ ~Exists(disk, p) /\ Refuse("NotFound")
       \/ IsDir(disk, p) /\ Refuse("IsADirectory")
       \/ /\ Exists(disk, p)
          /\ ~IsDir(disk, p)
          /\ handle' = [handle EXCEPT ![h] =
                [open |-> TRUE, path |-> p, cluster |-> EntryAt(disk, p).cluster,
                 data |-> IF "O_TRUNC" \in flags THEN <<>> ELSE Contents(disk, p),
                 position |-> IF "O_APPEND" \in flags THEN Len(Contents(disk, p)) ELSE 0,
                 dirty |-> "O_TRUNC" \in flags,
                 writable |-> "O_WRITE" \in flags]]
          /\ reply' = "Ok"
          /\ UNCHANGED <<disk, op, synced, torn>>

\* FatFileHandle::read and ::write only touch the copy in memory: they commute with
\* the disk's writes, so it is enough to let them happen between operations.
read(h, n) ==
    /\ Enter
    /\ handle[h].open
    /\ LET left == Len(handle[h].data) - handle[h].position
       IN left > 0 /\ handle' = [handle EXCEPT ![h].position = @ + IF n < left THEN n ELSE left]
    /\ UNCHANGED <<disk, op, reply, synced, torn>>

\* A position beyond the data (O_APPEND with O_TRUNC) makes read's slice panic.
read_panics(h) ==
    /\ Enter
    /\ handle[h].open
    /\ handle[h].position > Len(handle[h].data)
    /\ Refuse("panic")

write(h, n) ==
    /\ Enter
    /\ handle[h].open
    /\ handle[h].writable
    /\ LET from == handle[h].position
           old == handle[h].data
       IN /\ from + n <= MaxData
          /\ handle' = [handle EXCEPT
                ![h].data = [i \in 1 .. (IF from + n > Len(old) THEN from + n ELSE Len(old)) |->
                                IF i \in from + 1 .. from + n THEN Data(handle[h].path, i)
                                ELSE IF i <= Len(old) THEN old[i] ELSE Zero],
                ![h].position = from + n,
                ![h].dirty = TRUE]
    /\ UNCHANGED <<disk, op, reply, synced, torn>>

Bug_KeepSize(d, p, old_cluster, data) ==
    LET body == IF data = <<>>
                THEN [todo |-> free_chain(d.fat, old_cluster), first |-> 0, ok |-> TRUE]
                ELSE write_chain(d.fat, old_cluster, data)
        e == [EntryAt(d, p) EXCEPT !.cluster = body.first]
        link == update_dir_entry(Run(d, body.todo), ParentOf(d, p), SlotOf(d, p), e)
    IN IF ~Exists(d, p) THEN [todo |-> <<>>, ok |-> FALSE]
       ELSE IF ~body.ok THEN [todo |-> body.todo, ok |-> FALSE]
       ELSE [todo |-> body.todo \o link.todo, ok |-> link.ok]

\* sync_file: the writes that store the data under the path, and whether they all succeed.
sync_file(d, p, old_cluster, data) ==
    LET body == IF data = <<>>
                THEN [todo |-> free_chain(d.fat, old_cluster), first |-> 0, ok |-> TRUE]
                ELSE write_chain(d.fat, old_cluster, data)
        e == [EntryAt(d, p) EXCEPT !.cluster = body.first, !.size = Len(data)]
        link == update_dir_entry(Run(d, body.todo), ParentOf(d, p), SlotOf(d, p), e)
    IN IF ~Exists(d, p) THEN [todo |-> <<>>, ok |-> FALSE]
       ELSE IF ~body.ok THEN [todo |-> body.todo, ok |-> FALSE]
       ELSE [todo |-> body.todo \o link.todo, ok |-> link.ok]

\* close drops the handle: a dirty one is written back, and an error of that is ignored.
close(h) ==
    /\ Enter
    /\ handle[h].open
    /\ handle' = [handle EXCEPT ![h] = Closed]
    /\ \/ /\ ~handle[h].dirty
          /\ reply' = "Ok"
          /\ UNCHANGED <<disk, op, synced, torn>>
       \/ /\ handle[h].dirty
          /\ \E s \in {sync_file(disk, handle[h].path, handle[h].cluster, handle[h].data)} :
                /\ Start("sync", handle[h].path, s.todo, s.ok,
                         handle[h].data = <<>> /\ handle[h].cluster \in Clusters)
                /\ synced' = [synced EXCEPT ![handle[h].path] =
                                IF s.ok THEN [known |-> TRUE, data |-> handle[h].data]
                                        ELSE Unknown]

-----------------------------------------------------------------------------
(* The disk *)

disk_write ==
    /\ op # Idle
    /\ disk' = Apply(disk, Head(op.todo))
    /\ IF Tail(op.todo) = <<>>
       THEN op' = Idle /\ reply' = Reply(op.kind, op.ok)
       ELSE op' = [op EXCEPT !.todo = Tail(@), !.begun = TRUE] /\ UNCHANGED reply
    /\ UNCHANGED <<handle, synced, torn>>

\* Clusters have been freed and the directory entry that owns them is still to be updated.
InWindow ==
    /\ op.frees
    /\ op.begun
    /\ \E i \in DOMAIN op.todo : op.todo[i].what = "units" /\ Apply(disk, op.todo[i]) # disk

\* A write fails: `?` passes the error up, the operation leaves the rest undone.
io_error ==
    /\ "io" \in Faults
    /\ op # Idle
    /\ op' = Idle
    /\ reply' = Reply(op.kind, FALSE)
    /\ torn' = InWindow
    /\ synced' = IF op.kind = "sync" THEN [synced EXCEPT ![op.path] = Unknown] ELSE synced
    /\ UNCHANGED <<disk, handle>>

\* Power is lost: what is in memory is gone, the volume is mounted again as it is.
crash ==
    /\ "crash" \in Faults
    /\ op' = Idle
    /\ handle' = [h \in Handles |-> Closed]
    /\ torn' = (torn \/ InWindow)
    /\ synced' = IF op.kind = "sync" THEN [synced EXCEPT ![op.path] = Unknown] ELSE synced
    /\ reply' = "none"
    /\ UNCHANGED disk

-----------------------------------------------------------------------------
(* The formatter's image: the files lie in a root directory of one cluster *)

\* Copying a file of that name and as many units of data: the writes of its data, then of its entry.
CopyData(d, n, units) == write_chain(d.fat, 0, [i \in 1 .. units |-> Data(<<n>>, i)])

CopyEntry(d, n, units) ==
    LET s == CopyData(d, n, units)
    IN add_dir_entry(Run(d, s.todo), Root, Entry(n, FALSE, s.first, units))

WithFile(d, n, units) ==
    Run(Run(d, CopyData(d, n, units).todo), CopyEntry(d, n, units).todo)

\* The image with the first k files.
ImageWith(len, k) ==
    LET blank == [fat |-> [c \in Clusters |-> IF c = Root THEN EOC ELSE FREE],
                  units |-> [c \in Clusters |-> Zeros(K)]]
        image[i \in 0 .. Len(Files)] ==
            IF i = 0 THEN blank ELSE WithFile(image[i - 1], Files[i], len[Files[i]])
    IN image[k]

\* The makefile stops when a file cannot be copied: there is no image without room for them all.
HasRoom(len) ==
    \A i \in 1 .. Len(Files) : LET d == ImageWith(len, i - 1)
                                   units == len[Files[i]]
                               IN CopyData(d, Files[i], units).ok /\ CopyEntry(d, Files[i], units).ok

Image(len) == ImageWith(len, Len(Files))

Init ==
    /\ \E len \in [Range(Files) -> {0, MaxData}] :
          /\ HasRoom(len)
          /\ disk = Image(len)
          /\ synced = [p \in Paths |->
                         IF Len(p) = 1 /\ p[1] \in Range(Files)
                         THEN [known |-> TRUE, data |-> [i \in 1 .. len[p[1]] |-> Data(p, i)]]
                         ELSE Unknown]
    /\ handle = [h \in Handles |-> Closed]
    /\ op = Idle
    /\ reply = "none"
    /\ torn = FALSE

Next ==
    \/ \E p \in Paths : mkdir(p) \/ remove(p) \/ rmdir(p)
    \/ \E h \in Handles, p \in Paths, flags \in Flags : open(h, p, flags)
    \/ \E h \in Handles, n \in {1, K} : read(h, n) \/ write(h, n)
    \/ \E h \in Handles : close(h) \/ read_panics(h)
    \/ disk_write
    \/ io_error
    \/ crash

Spec == Init /\ [][Next]_vars
-----------------------------------------------------------------------------
(* Properties *)

Units == {Zero, Deleted, Dot} \cup {Lfn(n) : n \in Names}
         \cup {Entry(n, b, c, s) : n \in Names, b \in BOOLEAN, c \in Clusters \cup {0}, s \in 0 .. MaxData}
         \cup {Data(p, i) : p \in Paths \cup {<<n>> : n \in Names}, i \in 1 .. MaxData}

\* Types of the volume and of the handles; a handle never reaches beyond its data plus a hole.
TypeOK ==
    /\ \A c \in Clusters : /\ disk.fat[c] \in {FREE, EOC} \cup Clusters
                           /\ DOMAIN disk.units[c] = 1 .. K
                           /\ \A k \in 1 .. K : disk.units[c][k] \in Units
    /\ \A h \in Handles : handle[h].open =>
          /\ handle[h].path \in Paths
          /\ handle[h].cluster \in Clusters \cup {0}
          /\ Len(handle[h].data) <= MaxData
          /\ handle[h].position <= MaxData
    /\ op # Idle => op.todo # <<>>
    /\ torn \in BOOLEAN

\* The directories paths lead into, by their first clusters: the root and those in it.
Dirs(d) == LET top == read_chain(d, Root)
           IN {Root} \cup {top[i].cluster : i \in {j \in DirSlots(top) : top[j].dir}}

\* The entries of the tree, each as <<first cluster of its directory, slot>>.
TreeSlots(d) == UNION {{c} \X DirSlots(read_chain(d, c)) : c \in Dirs(d)}

EntryOf(d, s) == read_chain(d, s[1])[s[2]]

WellFormed(fat, c) ==
    LET s == Chain(fat, c)
    IN /\ IsInjective(s)
       /\ s # <<>> => fat[Last(s)] = EOC

EndsWithZeros(us) == \A i, j \in DOMAIN us : i < j /\ us[i] = Zero => us[j] = Zero

Owned(d, s) == Range(Chain(d.fat, EntryOf(d, s).cluster))

(***************************************************************************)
(* A volume fsck would accept, lost clusters aside: every chain that the   *)
(* tree owns is acyclic, allocated to its end and shared with nobody, a    *)
(* directory has one; in a directory no slot is used after the end marker  *)
(* and no name occurs twice.                                               *)
(***************************************************************************)
Consistent(d) ==
    \A T \in {TreeSlots(d)} :
    \A own \in {[s \in T |-> Owned(d, s)]} :
        /\ WellFormed(d.fat, Root)
        /\ \A s \in T : LET e == EntryOf(d, s) IN
              /\ WellFormed(d.fat, e.cluster)
              /\ own[s] \cap Range(Chain(d.fat, Root)) = {}
              /\ e.dir => /\ own[s] # {}
                          /\ EndsWithZeros(read_chain(d, e.cluster))
              /\ \A r \in T \ {s} :
                    /\ own[s] \cap own[r] = {}
                    /\ r[1] = s[1] => EntryOf(d, r).name # e.name
        /\ EndsWithZeros(read_chain(d, Root))

(***************************************************************************)
(* The volume is consistent at every moment at which the power may fail or *)
(* a write be refused, except between the free_chain and the directory     *)
(* update of remove, rmdir and a write-back of an emptied file: allocation *)
(* links a cluster only after it is marked and initialised.                *)
(***************************************************************************)
OnDiskConsistent == ~torn /\ ~InWindow => Consistent(disk)

(***************************************************************************)
(* A fault in that window costs no more than the entry it concerns: there  *)
(* is one directory entry without which the volume is consistent, so that  *)
(* deleting it repairs the volume, and lost clusters are all that is left. *)
(***************************************************************************)
DamageConfined ==
    torn \/ InWindow =>
        \E c \in Clusters, k \in 1 .. K :
            /\ disk.units[c][k].t = "entry"
            /\ Consistent([disk EXCEPT !.units[c][k] = Deleted])

Allocated(fat) == {c \in Clusters : fat[c] # FREE}

\* Allocated clusters that no entry of the tree leads to.
Lost(d) == Allocated(d.fat) \ (Range(Chain(d.fat, Root)) \cup UNION {Owned(d, s) : s \in TreeSlots(d)})

\* The clusters write_chain cuts off when a file got shorter: the tail it forgets to free.
CutOff(h) ==
    LET s == Chain(disk.fat, handle[h].cluster)
        needed == (Len(handle[h].data) + K - 1) \div K
    IN IF needed = 0 THEN {} ELSE {s[i] : i \in {j \in DOMAIN s : j > needed}}

(***************************************************************************)
(* No call that succeeds loses clusters, but for the tail of a file that   *)
(* is written back shorter than it was: what mkdir, remove, rmdir and      *)
(* close allocate or give up is all accounted for once they return.        *)
(***************************************************************************)
LosesOnlyTails ==
    [][op = Idle /\ op' # Idle /\ op'.ok =>
        LET after == Lost(Run(disk, op'.todo))
        IN IF op'.kind # "sync" THEN after = Lost(disk)
           ELSE \E h \in Handles :
                   /\ handle[h].open /\ handle[h].path = op'.path
                   /\ after = Lost(disk) \cup CutOff(h)]_vars

(***************************************************************************)
(* Durability: a file reads as it was last written back (by close, or by   *)
(* the formatter), whatever is created, removed or written in the          *)
(* meantime, also after a crash.  A write-back that failed is excepted.    *)
(***************************************************************************)
ReadsBack ==
    op = Idle /\ ~torn =>
        \A p \in Paths : (synced[p].known /\ Exists(disk, p) /\ ~IsDir(disk, p))
                            => Contents(disk, p) = synced[p].data

\* A directory that mkdir reports created can be found and is empty; one removed is gone.
ReportedIsDone ==
    [][(op # Idle /\ op' = Idle /\ reply' = "Ok") =>
        /\ op.kind = "mkdir" => /\ IsDir(disk', op.path)
                                /\ DirSlots(read_chain(disk', EntryAt(disk', op.path).cluster)) = {}
        /\ op.kind \in {"remove", "rmdir"} => ~Exists(disk', op.path)]_vars

(***************************************************************************)
(* "touch <file> - create a file" (user/shell/src/commands/help.rs):       *)
(* opening a file that does not exist with O_CREAT, in a directory that    *)
(* does, does not fail with NotFound.                                      *)
(***************************************************************************)
CreateMakesFile ==
    [][\A h \in Handles, p \in Paths, flags \in Flags :
          ("O_CREAT" \in flags /\ ParentOf(disk, p) # 0 /\ open(h, p, flags))
              => reply' # "NotFound"]_vars
=============================================================================
