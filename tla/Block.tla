------------------------------- MODULE Block -------------------------------
(***************************************************************************)
(* The block layer of vfs/block: the partition table that mount_fat32      *)
(* reads, the Partition that the file system works on, and DevFs, through  *)
(* which tasks read and write the bytes of the same disk as /dev/ata0.     *)
(*                                                                         *)
(* A handle's write reads a sector, changes some bytes and writes it back, *)
(* holding DevFs.devices but not the disk: reading and writing one sector  *)
(* are the steps that are atomic (the ATA lock).  Any of them may fail.    *)
(***************************************************************************)
EXTENDS Disk, Sequences, FiniteSetsExt

CONSTANTS
  SECTOR_SIZE,
  Bytes,          \* contents of a byte
  Buffers,        \* what tasks write: sequences of bytes
  Lengths,        \* how many bytes they ask for
  Seeks,          \* the offsets they seek by
  MaxPosition,    \* bound: a position beyond the disk and below U32 sectors
  U32,            \* 2^32
  MaxEntries,     \* 128: the entries of a GPT that are looked at
  Labels,         \* the partition tables a disk may have
  None

ASSUME BlockAssumption ==
  /\ SECTOR_SIZE \in Nat \ {0}
  /\ U32 \in Nat /\ LastSector + 1 < U32
  /\ MaxPosition \in Nat /\ MaxPosition < SECTOR_SIZE * U32
  /\ MaxEntries \in Nat
  /\ Buffers \subseteq Seq(Bytes)
  /\ Lengths \subseteq Nat /\ Seeks \subseteq Int
  /\ None \notin Tasks /\ None \notin Nat

\* The tables are those of this disk: a partition in use ends on it, and the sectors
\* of a GPT hold as many entries as are looked at.
ASSUME LabelAssumption ==
  \A l \in Labels :
    /\ l.mbr \in Seq([ptype : STRING, start : Nat, count : Nat]) /\ l.mbr # <<>>
    /\ \A i \in DOMAIN l.mbr :
         l.mbr[i].ptype \notin {"empty", "gpt"} => l.mbr[i].start + l.mbr[i].count <= LastSector + 1
    /\ l.gpt.num_entries \in Nat /\ l.gpt.per_sector \in Nat \ {0}
    /\ l.gpt.sectors \in Seq(Seq([used : BOOLEAN, start : Nat, last : Nat]))
    /\ \A i \in DOMAIN l.gpt.sectors :
         /\ Len(l.gpt.sectors[i]) = l.gpt.per_sector
         /\ \A j \in DOMAIN l.gpt.sectors[i] :
              LET e == l.gpt.sectors[i][j] IN e.used => e.start <= e.last /\ e.last <= LastSector
    /\ \/ l.gpt.num_entries <= l.gpt.per_sector * Len(l.gpt.sectors)
       \/ MaxEntries <= l.gpt.per_sector * Len(l.gpt.sectors)

VARIABLES
  label,       \* the table of the disk
  part,        \* the Partition that / is mounted on, or None
  registered,  \* "ata0" is in DevFs
  devices,     \* who holds DevFs.devices
  position,    \* of the handle a task has open, None without one
  pending,     \* the write a task has in progress: its sector, to be written
  sectors,     \* the bytes of each sector
  raced        \* history: the file system wrote the sector of a pending write

block_vars == <<label, part, registered, devices, position, pending, sectors, raced>>

Offsets == 0 .. (SECTOR_SIZE - 1)

BlockInit ==
  /\ label \in Labels
  /\ part = None
  /\ registered = FALSE
  /\ devices = None
  /\ position = [t \in Tasks |-> None]
  /\ pending = [t \in Tasks |-> None]
  /\ sectors = [s \in Sectors |-> [o \in Offsets |-> CHOOSE b \in Bytes : TRUE]]
  /\ raced = FALSE

-----------------------------------------------------------------------------
(* Partition tables *)

Info(start, count) == [start_lba |-> start, sector_count |-> count]

\* The loop of both parsers: what is pushed for the entries in use, in their order.
InUse(entries) ==
  LET found[i \in 0 .. Len(entries)] ==
        IF i = 0 THEN <<>>
        ELSE IF entries[i].used THEN Append(found[i - 1], entries[i].info)
        ELSE found[i - 1]
  IN  found[Len(entries)]

\* parse_mbr: entries of type 0 are empty, a protective one is passed over.
parse_mbr(mbr) ==
  InUse([i \in 1 .. Len(mbr) |-> [used |-> mbr[i].ptype \notin {"empty", "gpt"},
                                 info |-> Info(mbr[i].start, mbr[i].count)]])

\* Entry i of a GPT, from 0: it lies in sector i / entries_per_sector of the array.
GptEntry(gpt, i) == gpt.sectors[(i \div gpt.per_sector) + 1][(i % gpt.per_sector) + 1]

\* Mutant: the last sector of a partition is taken for the one after it.
Bug_EndExclusive(gpt) ==
  InUse([i \in 1 .. Min({gpt.num_entries, MaxEntries}) |->
           LET e == GptEntry(gpt, i - 1)
           IN  [used |-> e.used, info |-> Info(e.start, (e.last - e.start) % U32)]])

\* parse_gpt: the sector count is a u32.
parse_gpt(gpt) ==
  InUse([i \in 1 .. Min({gpt.num_entries, MaxEntries}) |->
           LET e == GptEntry(gpt, i - 1)
           IN  [used |-> e.used, info |-> Info(e.start, (e.last - e.start + 1) % U32)]])

\* parse_partitions: the type of the first MBR entry decides.
parse_partitions(l) ==
  IF l.mbr[1].ptype = "gpt" THEN parse_gpt(l.gpt) ELSE parse_mbr(l.mbr)

\* mount_fat32: AtaDisk::new, first_partition, Partition::new.
mount_fat32 ==
  /\ part = None /\ ~registered
  /\ label.signature
  /\ parse_partitions(label) # <<>>
  /\ part' = Head(parse_partitions(label))
  /\ UNCHANGED <<label, registered, devices, position, pending, sectors, raced>>

\* setup_fs goes on with or without a file system on the disk.
register_device ==
  /\ ~registered
  /\ registered' = TRUE
  /\ UNCHANGED <<label, part, devices, position, pending, sectors, raced>>

-----------------------------------------------------------------------------
(* The file system's side *)

\* The bounds check of Partition::read_sector and write_sector.
InPartition(lba) == lba < part.sector_count

\* Partition::write_sector, called by the file system with a whole sector.
partition_write(lba, content) ==
  /\ part # None
  /\ InPartition(lba)
  /\ part.start_lba + lba \in Sectors
  /\ sectors' = [sectors EXCEPT ![part.start_lba + lba] = content]
  /\ raced' = (raced \/ \E t \in Tasks : /\ pending[t] # None
                                      /\ pending[t].sector = part.start_lba + lba)
  /\ UNCHANGED <<label, part, registered, devices, position, pending>>

-----------------------------------------------------------------------------
(* DevFs and its handles *)

BlockNum(pos) == (pos \div SECTOR_SIZE) % U32
BlockOffset(pos) == pos % SECTOR_SIZE

dev_open(t) ==
  /\ registered /\ devices = None
  /\ position[t] = None
  /\ position' = [position EXCEPT ![t] = 0]
  /\ UNCHANGED <<label, part, registered, devices, pending, sectors, raced>>

dev_close(t) ==
  /\ position[t] # None /\ pending[t] = None
  /\ position' = [position EXCEPT ![t] = None]
  /\ UNCHANGED <<label, part, registered, devices, pending, sectors, raced>>

\* Mutant: DevFs.devices is not locked.
Bug_NoLock(t) == position[t] # None /\ pending[t] = None /\ registered

\* A call takes DevFs.devices and finds the device.
with_device(t) ==
  /\ position[t] # None /\ pending[t] = None
  /\ devices = None /\ registered

Advance(t, n) ==
  /\ position[t] + n <= MaxPosition
  /\ position' = [position EXCEPT ![t] = @ + n]

\* read ends with the sector; beyond the disk, or when the device fails, the
\* call returns IoError and nothing changes.
dev_read(t, len) ==
  /\ with_device(t)
  /\ BlockNum(position[t]) \in Sectors
  /\ Advance(t, Min({len, SECTOR_SIZE - BlockOffset(position[t])}))
  /\ UNCHANGED <<label, part, registered, devices, pending, sectors, raced>>

\* The bytes of a write that fit in the sector.
ToWrite(t, buf) == Min({Len(buf), SECTOR_SIZE - BlockOffset(position[t])})

\* Whether the rest of the sector has to be kept.
MustRead(t, buf) == BlockOffset(position[t]) # 0 \/ Len(buf) < SECTOR_SIZE

\* write, up to the point where the sector is ready to be written back.
write_prepare(t, buf) ==
  LET num == BlockNum(position[t])
      first == BlockOffset(position[t])
      old == IF MustRead(t, buf) THEN sectors[num] ELSE [o \in Offsets |-> 0]
  IN  /\ with_device(t)
      /\ MustRead(t, buf) => num \in Sectors
      /\ devices' = t
      /\ pending' = [pending EXCEPT ![t] =
           [sector |-> num, len |-> ToWrite(t, buf), buf |-> buf,
            content |-> [o \in Offsets |->
              IF o \in first .. (first + ToWrite(t, buf) - 1)
              THEN buf[o - first + 1] ELSE old[o]]]]
      /\ raced' = FALSE
      /\ UNCHANGED <<label, part, registered, position, sectors>>

\* The sector is written back and the handle moves on.
write_back(t) ==
  /\ pending[t] # None
  /\ pending[t].sector \in Sectors
  /\ sectors' = [sectors EXCEPT ![pending[t].sector] = pending[t].content]
  /\ Advance(t, pending[t].len)
  /\ devices' = None
  /\ pending' = [pending EXCEPT ![t] = None]
  /\ UNCHANGED <<label, part, registered, raced>>

\* The device refuses: IoError, and the handle stays where it was.
write_fails(t) ==
  /\ pending[t] # None
  /\ devices' = None
  /\ pending' = [pending EXCEPT ![t] = None]
  /\ UNCHANGED <<label, part, registered, position, sectors, raced>>

\* The size of the device: AtaDisk does not tell its number of sectors, so
\* num_blocks is 0.
DeviceSize == 0

\* seek: only from the end does it need the device; before the start it fails.
dev_seek(t, n) ==
  /\ position[t] # None /\ pending[t] = None
  /\ \E base \in {0, position[t]} \cup (IF with_device(t) THEN {DeviceSize} ELSE {}) :
       /\ base + n \in 0 .. MaxPosition
       /\ position' = [position EXCEPT ![t] = base + n]
  /\ UNCHANGED <<label, part, registered, devices, pending, sectors, raced>>

\* unregister_device: handles that are open find the device no more.
unregister_device ==
  /\ registered /\ devices = None
  /\ registered' = FALSE
  /\ UNCHANGED <<label, part, devices, position, pending, sectors, raced>>

BlockNext ==
  \/ mount_fat32
  \/ register_device \/ unregister_device
  \/ \E lba \in Sectors, content \in [Offsets -> Bytes] :
       partition_write(lba, content)
  \/ \E t \in Tasks :
       \/ dev_open(t) \/ dev_close(t)
       \/ \E len \in Lengths : dev_read(t, len)
       \/ \E buf \in Buffers : write_prepare(t, buf)
       \/ write_back(t) \/ write_fails(t)
       \/ \E n \in Seeks : dev_seek(t, n)

BlockSpec == BlockInit /\ [][BlockNext]_block_vars

-----------------------------------------------------------------------------
(* Properties *)

\* The order of a GPT's entries: by the sector they lie in, then by their place in it.
Before(p, q) == p[1] < q[1] \/ (p[1] = q[1] /\ p[2] < q[2])

\* The sectors of the first partition in use, from the table itself.
FirstRegion ==
  IF label.mbr[1].ptype = "gpt"
  THEN LET s == label.gpt.sectors
           used == {p \in (DOMAIN s) \X (1 .. label.gpt.per_sector) : s[p[1]][p[2]].used}
           first == CHOOSE p \in used : \A q \in used : ~Before(q, p)
           e == s[first[1]][first[2]]
       IN  e.start .. e.last
  ELSE LET used == {j \in DOMAIN label.mbr : label.mbr[j].ptype \notin {"empty", "gpt"}}
           e == label.mbr[CHOOSE j \in used : \A k \in used : j <= k]
       IN  e.start .. (e.start + e.count - 1)

(***************************************************************************)
(* The file system has exactly the sectors of the first partition of the   *)
(* table, whichever kind of table it is: all of them can be reached and    *)
(* nothing beyond.                                                         *)
(***************************************************************************)
PartitionExact ==
  part # None =>
    {part.start_lba + lba : lba \in {l \in Sectors : InPartition(l)}}
      \cap Sectors = FirstRegion

\* The bytes of the disk as one sequence, from 0.
ByteOf(d, pos) == d[pos \div SECTOR_SIZE][pos % SECTOR_SIZE]

DiskBytes == 0 .. (SECTOR_SIZE * (LastSector + 1) - 1)

(***************************************************************************)
(* A write through /dev changes the bytes at the handle's position to the  *)
(* bytes that were given and no other byte of the disk: not the rest of    *)
(* the sectors at its ends, nor what other handles have written meanwhile. *)
(* The exception is a sector that the file system wrote while the call was *)
(* between its two halves: DevFs.devices does not keep it away.            *)
(***************************************************************************)
WritesOnlyAsked ==
  [][\A t \in Tasks :
       write_back(t) /\ ~raced =>
         LET n == position'[t] - position[t]
         IN  \A pos \in DiskBytes :
               ByteOf(sectors', pos) =
                 IF pos \in position[t] .. (position[t] + n - 1)
                 THEN pending[t].buf[pos - position[t] + 1]
                 ELSE ByteOf(sectors, pos)]_block_vars

=============================================================================
