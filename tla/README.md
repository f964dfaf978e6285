# Verification of the Vyper kernel

Vyper is a small x86-64 kernel (`vcore/`) with a user library and a shell
(`user/`). It runs on one CPU, preemptively, with spin locks that are taken with
interrupts enabled; its root file system is FAT32 on an ATA disk. This directory
holds TLA+ modules that model its parts, TLC configurations that check them on
small instances, and TLAPS proofs of the properties that matter most.

## The system and its parts

| part | state | operations | interacts with |
|---|---|---|---|
| scheduler (`sched/`) | `SCHEDULER` (queue, `current`), `NEXT_ID`, per task: state, saved `%rsp`, `%cr3`, kernel stack, alarm | `schedule` (reap, wake, pick, switch), `spawn`, `yield_now`, `sleep`, `exit`, `with_fd_table`, `get_cwd`, `set_cwd` | timer interrupt calls `schedule`; system calls lock `SCHEDULER`; reaping frees memory |
| interrupts (`cpu/interrupts.rs`) | `TICKS` | timer, keyboard | scheduler, keyboard driver |
| system calls (`cpu/syscall.rs`) | `CPU_LOCAL`, `SYSCALL_STACK` | entry, dispatch of eleven calls | scheduler, VFS, keyboard, terminal |
| keyboard (`drivers/keyboard.rs`) | `KEYBOARD`: ring, modifiers, release prefix | `handle_scancode`, `has_input`, `read_char` | keyboard interrupt against the reading task |
| VFS (`vfs/mod.rs`, `types.rs`, `fd.rs`) | mount table, fd tables, working directories | mount, resolve, open, close, ... | all file systems |
| FAT32 (`vfs/fat32.rs`) | volume (allocation table, directories, data) behind one lock, open handles with a copy of the file | open, read, write, close (write-back), mkdir, remove, rmdir, readdir, metadata | block device |
| tmpfs, memfs, tasksfs (`vfs/`) | tree of nodes; nothing; nothing | same interface | PMM counts, `SCHEDULER` |
| block layer (`vfs/block/`) | device list of `/dev`, positions of handles; bounds of a partition | partition scan, register, open, read, write, seek | FAT32 and `/dev` on the same disk |
| ATA driver (`drivers/ata.rs`) | `ATA` lock; registers of the drive | identify, sector read and write by bounded polling | block layer; a drive that answers in its own time |
| memory (`mem/`, `elf.rs`) | frame bitmap and counts; page tables; heap | alloc, free, map, load an ELF image | `spawn_elf`, heap, APIC registers |
| terminal (`fb/`, `font/`) | cursor, colours | print, scroll, backspace | system calls |
| shell and library (`user/`) | line buffer | commands | system calls |

What is hard here is not the single operation but what can happen between two
instructions: an interrupt strikes a task that holds a spin lock or that has just
marked itself Sleeping or Dead; a task is removed from the queue that `current`
indexes; a keyboard interrupt comes between a test and a `hlt`; a sector write
fails or the power goes between two of the writes of one operation; the volume,
the ring, the directory or memory is full; a task is preempted on the one stack
that all system calls share; a drive answers after the driver has given up. `PROJECT.json` lists these places under
`hazards`, each with its line and the properties that would show it going wrong.

What makes each part correct:

* scheduler: `current` is the task on the CPU; a switch loads a stack pointer that
  was saved; page table and interrupt stack are those of the running task; nobody
  frees the stack it runs on; sleepers wake, the dead are freed and never run,
  the ready run in round-robin order; no lock is waited for in vain (which the code does not
  achieve, see the findings);
* keyboard: what is typed arrives once, in order, in the form that shifts and caps lock
  ask for; a reader with input waiting is served;
* FAT32: no cluster belongs to two owners, no chain runs into a free cluster, also
  when a write fails; a closed file reads back; no cluster is lost;
* tmpfs, fd table, system calls: a descriptor denotes the file it was opened on
  until it is closed, a handle's copy differs from the file only in the ways its
  design implies, nothing vanishes that nobody removed, a listing is complete;
* frames: none has two owners, none is reserved memory, the free count is that of
  the bitmap;
* VFS mounts: a path leads to the innermost file system mounted above it;
* system call entry: a call comes back to its caller with its registers and stack,
  and the handler gets the arguments that were passed;
* memory and images: a task has exactly the bytes its image asks for, no frame
  serves two purposes, the kernel's half is the same under every `%cr3`;
* block layer: the file system has the sectors of its partition and no others, and
  a write to a device changes the bytes it was given and no others;
* ATA: what is reported as read or written is, and no call waits forever.

## The modules

### Sched, MCSched, SchedProofs

`Sched` models `sched/mod.rs`, `task.rs`, `switch.rs` and the timer handler.
`tasks` and `current` are the fields of `Scheduler` (with indices from 1), `cpu`
is what the processor holds (whose stack, `%cr3`, TSS `rsp0`, and whether the last
`%rsp` loaded was a saved one), `pc` where each task stands in the scheduler's
interface. Code that runs with interrupts disabled is one step; code that runs
with them enabled is cut at each point where the timer can strike: `sleep` is
`sleep_read` (the clock), `sleep_mark` (the critical section), `sleep_schedule`;
`exit` likewise. `schedule` is one operator used by the timer and by the calls:
reap (`Kept`, `Reaped`, `ReapedCurrent`), `Wake`, `NextReady`, `Dispatch`. A stored
stack pointer is `saved` or `stale`: it goes stale as soon as its task runs.
`lock_scheduler`, `lock_heap` and `lock_disk` stand for any system call that takes
`SCHEDULER`, any allocation, and any call that goes into the file system, with
interrupts enabled. `schedule` needs the first always, the heap when it drops a dead
task, and the locks of volume and drive when that task left a file open that is to be
written back (`unsaved`: the handles of its descriptor table are dropped with it). If it
finds one held that it needs it is `stuck` for good.

Deadlines are kept relative (ticks still to come), which is exact as the code only
compares a deadline with the clock, and keeps the model finite. Tasks are created
at boot, as `kmain` does, in any number up to `MaxTasks`, of both kinds; only
kernel tasks sleep or yield, as no system call does.

`MCSched` adds a history variable for the round-robin property and repeats the
fairness of `Sched`.

### Keyboard, KeyQueue, MCKeyboard, KeyboardProofs

`Keyboard` models the decoder and ring of `drivers/keyboard.rs`, the keyboard
interrupt, and `SYS_READ` of fd 0 step by step: `lock_keyboard`, `has_input`,
`hlt`, `read_char`, `sys_read_return`. The environment presses and releases keys;
their scancodes wait on the `wire` for the interrupt. The scancode table is
abstracted to one key of each class that the code tells apart (letters, keys with
two forms, Enter, unmapped keys, two shifts, caps lock). A keyboard interrupt that
finds `KEYBOARD` held by the task it interrupted is `stuck`. `down` and `caps`
are the shifts held and the lock as the person at the keyboard has them. `owed` is
history: for every character typed and neither delivered nor dropped, what it may come
out as.
`KeyQueue` is the abstract specification, a bounded queue, that the ring
implements under the mapping `queue <- Pending`.

`MCKeyboard` lets a behaviour type on two or three of the keys, chosen at its
beginning (variable `hands`): every pair of classes that the decoder treats
together occurs (both shifts with a letter, a shift or caps lock with each kind of key,
Enter with characters), the product of all of them does not.

What a key means (`Meant`) is defined by the keys held, not by the decoder's flags. In
one case the code does something else: it has one flag for two shift keys, and the
release of either clears it while the other is still held (`keyboard.rs:133`). From
there to the next shift key (`halved`) both forms are accepted (`Acceptable`), which is
the one exception of `TypedInOrder`. An `E0` prefix is an unmapped key to the code and
to the model.

### Fat32, MCFat32, FatProofs

`Fat32` models `vfs/fat32.rs`. An operation holds the volume lock from its first
read to its last write, so its writes are a function of the volume it finds. The
action of a call (`mkdir`, `remove`, `rmdir`, `close`) makes all its checks,
computes the list of its writes with operators named after the functions
(`write_chain`, `extend_chain`, `free_chain`, `add_dir_entry`, ...) and stores it
in `op`; `disk_write` performs one of them, `io_error` makes one fail (the
operation returns, the rest is not written), `crash` loses everything in memory. What
a call reports is `Reply`: `close` reports success even if its write-back failed, as
`drop` discards the error.
A cluster is `K` units; a unit is a directory slot (end marker, deleted, long-name
part, dot, entry) or a piece of file data that remembers where it was written.
Handles keep a copy of the file, as in the code, and are written back when
dropped. Files come from the formatter's image only: the code cannot create one
(see the findings).

The driver trusts its callers not to open a path twice nor to remove an open one;
the model makes that discipline explicit (`Unused`). Path components are compared
as the code does, case-insensitively: names are model values. They have the 8.3 shape:
a name needs one long-name entry, to keep its case, or none (`SlotsOf`), and paths have
one or two components. The two slots of an entry may lie in two clusters; a fault
between their writes leaves a short entry without its long name, which still compares
equal. Of a longer name only the abbreviation would be left, which the model does not
cover. A cluster is written in one step: a fault within a cluster of several sectors
is not modelled. Only the first copy of the allocation table is modelled, the one the
driver reads.

### Pmm, MCPmm, PmmProofs

`Pmm` models `mem/pmm.rs`. `clear` is the set of zero bits of the bitmap. `init`
runs before anything else can; its loops over the memory map are steps
(`init_scan`, `init_place`, `init_clear`, one entry at a time, `init_reserve`),
which makes the counting a matter of induction over steps. `alloc` and
`free_owned` are `alloc_page` and `free_page`; `owned` is history. The memory map
is what the Limine protocol promises: usable entries overlap no other entry;
alignment and order are arbitrary, as the code rounds. Callers free frames they
own, frames already freed (ignored by the code) or addresses beyond memory; the
code could not tell a reserved frame from an allocated one.

### Files, MCFiles, FilesProofs

`Files` models `vfs/tmpfs.rs` (the root when FAT32 cannot be mounted), `vfs/fd.rs`,
the path functions of `vfs/mod.rs` (module `Paths`) and the file calls of `cpu/syscall.rs`. The tree
is a function from paths to nodes; a path is the sequence of its names after
`normalize_path`. A handle carries the copy of the file that `open` makes;
`sys_write` stores it back under the handle's path if that is a file still, which
may be another file than the one opened. `MCFiles` chooses at the beginning of a
behaviour between two situations (variable `shared`): two tasks on files of one
name, or one task with directories of several entries. `fresh` is history: it is FALSE from
`O_TRUNC` until the first write, and after another handle wrote the file or it was
unlinked. A call is one step: the kernel has one system-call stack, and what
happens to calls that overlap is the subject of `SyscallEntry`. Calls that fail change nothing and are left out; reads and writes
move one byte. Names are numbers in name order, the n-th of n bytes.

### SyscallEntry, SyscallProofs

`SyscallEntry` models `syscall_entry` of `cpu/syscall.rs` one instruction at a time,
between the `syscall` of `user/vlib/src/syscalls.rs` and `sysretq`. A register value
is written `<<t, r>>`, what task `t` had in `r`, so that a mix-up is visible. Three
things are shared by all tasks: the GS base, which `swapgs` exchanges and no context
switch saves; the slot `CPU_LOCAL.user_rsp`; and `SYSCALL_STACK`, on which every call
starts at the top. `SFMask` is empty (`cpu/syscall.rs:40`), so the timer may strike
between any two instructions; its own frame goes below the stack pointer of the task
it interrupts, over the frame of another task that sleeps there (`intact`). An access
through GS with the user's base in force is a page fault, and the handler of
`cpu/idt.rs` panics and halts. `SYS_EXIT` never comes back to the second `swapgs`, so
the bases stay exchanged afterwards. `overlapped` is history: a call began while
another was under way, or after an exit.

`kmain` spawns one user task (two more are commented out at `main.rs:140`), for which
`ExclusiveCallsSound` is all that is needed. With two user tasks calls may overlap:
the kernel then halts on a fault before either task returns with the other's
registers (`FaultsBeforeCorruption`). With three this protection ends, as a third
`swapgs` makes the base right again; the code does not claim to support it.

### Paths, Vfs, MountTable, MCVfs, StorageProofs

`Paths` holds `normalize_path` and `resolve_path` as folds over the parts of a path;
`Files` and `Vfs` use them. `Vfs` models `Vfs` of `vfs/mod.rs`: the vector of mounts,
sorted by the length of their strings after each `mount`, and `resolve`, which takes
the first one whose string begins the path and is followed by a slash. Names have a
text, because `/a` begins `/ab/c`. `files` is what the mounted file systems hold, as
pairs of a file system and a path in it, which is how `create` and `remove` (open
with `O_CREAT`, mkdir, remove, rmdir) show where a path led. `MountTable` is the
abstract specification, a function from mount points to file systems and the longest
prefix; `IsMountTable` is the refinement, with `table <- Attached`.

### Loader, MCLoader, LoaderProofs

`Loader` models `AddressSpace` and `map_page_alloc` of `mem/vmm.rs`, `heap::init`, the
APIC mappings, `elf::load_into` and the part of `spawn_elf` that builds a space. Page
tables have two levels instead of four: a PML4 whose slots refer to tables of
`Entries` pages. The kernel's slots are copied by value when a space is made. Loops
are actions, one per page or piece, so that memory can run out anywhere; frames
contain `Junk` until they are wiped; a failing `spawn_elf` keeps the frames it took,
as `AddressSpace::drop` frees nothing. `kmain` stops when a spawn fails; the model
lets the caller go on, as later callers may. The frame allocator is the one that
`Pmm` is about, seen here as a set from which the lowest frame is taken.

### Disk, Ata, StorageProofs

`Disk` declares what the two modules below share: the tasks and the sectors.

`Ata` models `drivers/ata.rs` against a drive. The driver polls the status a bounded
number of times (`MaxPolls`), under the `ATA` lock; the drive is external, known by
the bits the driver reads, and does everything in its own time or not at all: spin
up, offer data, store, refuse, ignore. It may answer a call that was given up during
a later one. The address registers hold 28 bits (`TaskFile`), and the properties are
about numbers below that limit. `confused` is history: the drive ignored a command
because it was still offering the data of an earlier, abandoned one; the driver
cannot tell, and nothing is claimed from there on.

A call is also made with `SCHEDULER` held: by `with_fd_table` (`SYS_CLOSE` writes a file
back, `/dev` is read and written in it), with interrupts enabled, so that a tick stops
the kernel for good (`timer_handler`, `stuck`), and by `schedule` that drops a dead task
(`reap_dead` to `reaped`), with interrupts disabled, which stops the kernel if it finds
`ATA` held by a preempted call. The holder of `ATA` can take a step only if the kernel
has not stopped and nobody else holds `SCHEDULER` (`CanRun`).

### Disk, Block, MCBlock, StorageProofs

`Block` models the partition scan (MBR and GPT), the `Partition` that FAT32 is mounted
on, and `DevFs`, through which tasks read and write the same disk as bytes. A device
write reads a sector, changes it and writes it back: two steps, between which the
lock of `DevFs` keeps other handles away but not the file system (`raced`, history).
Every sector access may fail. `Ata` is what lies below: here a sector access is
atomic.

## The runs

| run | shows | bounds |
|---|---|---|
| `sched` | the safety properties, the inductive invariant, round-robin order, and liveness with a periodic timer | the idle task and three others: enough to remove one before `current` while another waits and a third overtakes; sleeps of up to two ticks |
| `sched_hang` | violation: a system call in a `SCHEDULER` section hangs when the timer strikes | three tasks |
| `keyboard` | queue refinement, order and form of what is typed, modifiers, the reader's contract and its liveness | both shifts together with a letter, and five more sets of keys; a ring of three slots fills, wraps and drops; three scancodes in flight, so that a release and another key overlap; reads of up to two characters |
| `fat32` | consistency after every write, damage of a fault in the one window confined to one entry, accounting of clusters, durability, what a call reports, with device errors and power losses at every write and the volume used on afterwards | four clusters of two slots: a directory is full at once, the volume after two allocations, a file has up to two clusters |
| `fat32_touch` | violation: `O_CREAT` on a missing file fails | the same volume without faults |
| `pmm` | the frame allocator | 486 memory maps of up to three entries with pages of two bytes: entries that begin or end within a page or are empty, the bitmap in one or several frames, a last frame that is whole or partial, no room for the bitmap at all |
| `files` | every way in which two handles can meet on a path; `getdents` while the directory changes | two symmetric tasks with one free descriptor each, depth two, files of two bytes, so that an append, an overwrite and a lost write differ; entries of 4, 5 and 6 bytes with buffers of 4, 5 and 9: too small, one entry, exactly two |
| `vfs` | the vector of mounts implements the mount table | three file systems at `/`, `/a`, `/ab`, `/a/ab`, also given as `/ab/../a/.`: nesting, string prefixes that cover nothing, every order |
| `syscall_entry` | calls that exclude each other are sound; calls that overlap halt the kernel before they corrupt | two user tasks, which is as many as can overlap without a corruption |
| `loader` | images, spaces and the kernel half | nine images (shared pages, bss within a page and of its own, damaged files, a segment over the stack), 18 sets of free frames from none to 17 |
| `ata` | successful reads are true, successful writes done, the lock is released unless the kernel has stopped | two callers after boot, two sectors, addresses inside, outside and beyond the register width, two polls per wait |
| `block` | the partition is exact, a device write changes what it was given | three sectors of two bytes, six partition tables, two handles, writes within, up to and across a sector |

`NeverFreesOwnStack`, `NoDoubleOvertake`, `LosesOnlyTails`, `ReportedIsDone` and
`WritesOnlyAsked` are action properties. `OnDiskConsistent` excepts one window: the
code frees clusters before it deletes or updates the entry that owns them
(`InWindow`); a fault there is recorded in `torn`, after which the volume is not
used any more. `DamageConfined` says what such a fault costs: there is one directory
entry without which the volume is consistent. `LosesOnlyTails` names the one leak of a successful call: a file
that is written back shorter keeps its tail allocated but unreachable.

`NothingLost`, `DescriptorStable` and `FailsOnlyWhenEmpty` are action properties
too. `CopyIsCurrent` says what tmpfs does guarantee; updates through a handle that
is not fresh overwrite those of others, by the design of the code.

Deadlock is checked in every run; a CPU that spins or has halted for good is an
explicit self-loop.

### Fairness

`Sched`: the APIC timer is periodic, hence weak fairness of `timer_handler`; kmain
enables interrupts after its spawns; a task that is switched to for the first time
reaches the instruction that enables interrupts. Nothing is assumed of what tasks
do. `sched_hang` adds strong fairness of leaving a critical section, so that the
counterexample is the hang and not a task that idles in it. `Keyboard`: the timer,
and the reader's own steps.

`Ata`: a holder of `ATA` that is preempted is Ready and gets the CPU again and again
while `SCHEDULER` is free (`ReadyRuns`), hence strong fairness of its steps; weak
fairness would not do, as other tasks take and release `SCHEDULER` in between. A task
that stays in `with_fd_table` meets the periodic timer, hence weak fairness of
`timer_handler`. Nothing is assumed of the drive, nor of how long a task that holds
`SCHEDULER` spins on `ATA`.

### What the properties except

Where the code itself goes wrong the properties say so and hold for the rest. They do
not show that these cases do not happen; TLC reaches each of them:

* liveness, `TypedInOrder`, `NoStuckShift` and parts of `SchedInv` are stated "unless
  stuck": an interrupt handler or `schedule` spins on `SCHEDULER`, the heap, the locks of
  the disk or `KEYBOARD`. `sched_hang` shows the first of these;
* `TypedInOrder`: two shifts held, one let go;
* `OnDiskConsistent`: a fault between `free_chain` and the directory update
  (`DamageConfined` bounds it);
* `ReadsBack`: a file whose write-back failed, which `close` does not report. A read at a
  position beyond the data panics the kernel (`read_panics`), and no property forbids it;
* `ExclusiveCallsSound`: calls that overlap, or follow an exit;
* `WriteIsDone`: a write that the drive refused at its end, which the driver reports as
  done; both ATA properties: a drive that ignored a command, numbers beyond 28 bits;
* `WritesOnlyAsked`: a sector that the file system wrote in the middle of a device write;
* `CopyIsCurrent`: handles that another one has overtaken.

## What is proved

For every value of the constants (`MaxTasks >= 2`, any `MaxSleep`):
`SchedProofs` proves `Spec => []SchedInv` and from it type correctness,
`SwitchesToSavedStack`, `CurrentIsOnCpu /\ CpuContextMatchesTask`,
`DeadNeverResumes` and the action property `NeverFreesOwnStack`; with the history of
`MCSched` it proves `NoDoubleOvertake`.

The argument. That `schedule` never loads a stale stack pointer is not inductive:
it needs that a task off the CPU is not Running and has a saved one
(`OffCpuSaved`), and that `next_ready` does not come back to `current`, which holds
as the current task is never Ready (`CurrentState`) and because the idle task
stands first, never sleeps or exits, and is Ready whenever it is not current
(`IdleFirst`). That `current` follows the task through `reap_dead` rests on
`RankBijection`: the rank among the kept indices is a bijection onto the new queue,
so the kept tasks keep their order and their states (`ReapedProperties`). `exit`
is final because a task past its critical section is Dead (`PcMatchesState`) and no
step makes a Dead task Ready. The proof goes action by action (`NextStep`), with
one lemma for `schedule` (`ScheduleStep`) shared by the timer and the calls.

`RoundRobin` is about order, not about states. `OrderInv` says that a task that has
overtaken t and is still queued either has the CPU or stands after t, going around the
queue from `current` (`Cyclic`). `reap_dead` keeps it since it is monotone on positions
(`ReapedOrder`), a new task since it goes to the end while `current` is the first, and a
switch since `next_ready` passes over no Ready task (`NextReadyFirst`): whoever gets the
CPU stood before t, so it is none of the overtakers.

`KeyboardProofs` proves `Spec => IsQueue` for every ring size of at least two:
`AfterWraps` turns the code's remainder into a case distinction, `PushAppends` and
`PopTakesHead` show that the two operations act on the sequence of pending
characters as on a queue, `StepOfQueue` that nothing else touches it. The only
invariant needed is that both positions lie in the ring (`RingOK`).

That a read returns something (`ReadIsNotEmpty`) needs to know why: the loop of
`read_char` is entered only after the test saw a character, and until the first one
is taken only the interrupt touches the ring, which never empties it (`ReaderInv`).
For what is typed (`KeysInOrder`, `ShiftIsReleased`) the difficulty is that the
person is ahead of the decoder by what is on the wire. `TypedInv` therefore says
that decoding the rest of the wire, from the decoder's flags as they are now, would
leave the flags as the person's keys have them (`Shifted`: a shift is held, and none was
let go since one was last pressed; `FlagsRun`) and add as many characters as are still
owed, each in the set that `owed` has for it (`CharsRun`). Both are runs, functions on
the positions of the wire; handling a scancode drops the first position of a run,
pressing or releasing a key extends it by one or two.

`PmmProofs` proves for every page size and every set of memory maps with disjoint
usable entries: the free count is exact and no frame is lost or handed out twice
(`FramesAccounted`), frames handed out are usable memory outside the bitmap
(`OnlyUsableFrames`), bit operations stay in the bitmap (`BitmapStaysInBounds`),
and `alloc` fails only when nothing is free (`AllocFailsOnlyWhenEmpty`). The
rounding is settled once: `CeilPageBound` and `PageOfBound` turn comparisons of
frame numbers into comparisons of byte addresses, so that `PagesOfEntry` can say
which frames lie in an entry and `ApartPages` that disjoint entries share none;
this is why counting entry by entry is right. The invariant `PmmInv` adds what the
properties do not say of themselves: the scan has bounded every entry
(`HighestBounds`), every frame that is or was free lies in a usable entry already
visited (`FromUsable`), the bitmap lies in one (`BitmapPlaced`) and its frames stay
taken (`BitmapTaken`).

`SyscallProofs` proves for any set of user tasks and any preemption that calls which
exclude each other return intact (`CallsReturn`) and with their arguments in order
(`ArgumentsInOrder`). `FrameMatches` settles once that the fifteen pops undo the
fifteen pushes. The invariant `EntryInv` says that while nothing has overlapped at
most one task is in a call, that the kernel's base is active exactly while one is
inside, and, instruction by instruction (`Context`), which registers, which words of
the stack and which slot already or still hold the caller's values. The proof goes
through the instructions one by one: `OwnStep` says that an instruction keeps the
context of its own task, `OthersKeep` when it keeps that of another, `TimerKeeps` when
an interrupt does, and `Moves` where it takes the task and the base.

`CorruptionFaults` proves `FaultsBeforeCorruption` from the same lemmas without asking
that calls exclude each other, under the one hypothesis `AtMostTwoUsers`. `PairInv`
says that the kernel's base is active exactly when one task alone is inside, and that
when both are, one of them is still at `save_rsp`: there it faults, or waits until the
other has executed its second `swapgs`. So the stack and the slot never serve two
calls. With three tasks the number of exchanges no longer tells this, and TLC finds
the counterexample.

`StorageProofs` covers what lies around the file system: the drive, the block layer and
the mounts. It proves `ReadIsTrue` and `WriteIsDone` for any drive, any number of callers
and any poll limit. `AtaInv` adds to the types what drive and driver know of each other:
what the drive offers is what the medium holds (`DriveInv`), and as long as it has
ignored no command it works on the call of the holder or has refused it (`InStep`). The late answer is the reason for the invariant: a call may begin while
the drive is still busy with an abandoned one, but it passes `wait_ready` only when
that has ended.

For the block layer it proves `PartitionExact` (`PartitionIsExact`) for every MBR and
GPT, and `WritesOnlyAsked` (`WritesAreExact`) for any sector size, buffers and number of
handles. `LabelAssumption` states what the parsers do not check: that partitions in use
end on the disk, and that the array of a GPT holds the entries that are looked at.
`InUseFirst` says what the loop of the parsers finds first; `GptExact` that the entry
number, by way of quotient and remainder, orders the entries as they lie on the disk.
For a write, `WriteInv` says that whoever has prepared one holds `DevFs.devices` and that
the sector in memory is the one on the disk but for the bytes given, unless the file
system wrote it meanwhile; `BackWritten` carries that from the sector to the bytes of the
disk. `BlockAssumption` says that positions stay below 2^32 sectors, where `block_num` is
not truncated.

For the mounts it proves the refinement `Spec => IsMountTable` for any names, paths and
file systems. `MountInv` says that the vector is sorted by string length and has no path
twice. `SortSorts` shows that the sort orders the mounts and neither loses nor
doubles one, `TakesPrefix` that the string comparison of `resolve` with its test for a
slash is the prefix relation on names, `PrefixIsShorter` that a path that begins
another is the shorter string. So the first mount that takes a path is the innermost
one (`FirstIsInnermost`, `ResolveInnermost`), although the order is one of strings and
the table one of names. `TextAssumption` and `PartsAssumption` say that names are
strings that are not empty and that paths are made of names, `.` and `..`.

`FatProofs` proves type correctness (`FatTyped`) and what the run `fat32` checks, but for
`DamageConfined`:
`OnDiskConsistent` (`FatConsistent`), `ReadsBack` (`FatReadsBack`) and the action
properties `ReportedIsDone` (`FatReportedIsDone`) and `LosesOnlyTails`
(`FatLosesOnlyTails`), for every volume, cluster size of at least two slots, number of
handles and order of calls, with writes that fail and power losses anywhere.
`VolumeAssumption` says what the model is about: paths of one or two names, names of at
most two slots, an image whose files have different names. None of them is inductive:
a call computes all its writes from the volume it finds, and the volume of the moment
says nothing of the writes that are still to come. `FatInv` therefore speaks of every
volume ahead (`StagesGood`; `Stage` is the volume once k pending writes are done): each is
good, or clusters have been freed and a later write still changes the directory
(`Ahead`), which is the window that `OnDiskConsistent` excepts. A volume is good
(`Good`) when it is consistent and every open handle still has its file where it was
opened: without that a write-back would overwrite clusters of others. In each good volume
ahead every file but the one being written back reads as it last was (`Spared`); in the
last one that file does too (`AllBack`), and what the call will report is done
(`Achieved`). A write then only moves on by one stage (`disk_write_inv`), and a fault
leaves a stage; the work is in what a call plans:

* `Sound` is `Consistent` stated about one or two entries at a time. `Edits` says that two
  volumes differ in one slot of one directory, in what that entry owns and in clusters
  the tree does not use; an edit of a sound volume whose new entry fits is sound
  (Section "The tree of a volume"), and leaves all other paths where they are;
* `Shape` is the volume within `write_chain`: so many clusters written, so many linked, the
  last of them marked as an end before it is linked. `Progress` gives it for every stage,
  by induction over the rounds of the loop;
* a directory that is rewritten in place is mixed of old and new clusters (`Mixed`); as
  the new one differs in the slots of one entry, each mixture is one of the directory
  before, the directory after, or the long-name half of an entry (`SlotEdit`);
* `Safe` puts these together for the list of writes of a call: file body and entry
  (`FilledSafe`), freed chain and entry (`EmptySafe`, `RemoveSafe`), new directory and
  entry (`MkdirSafe`).

Data and lost clusters come on top of these lemmas. An edit leaves what all other entries
lead to, so their files read as before (`EditReads`); what `write_chain` stores and
`update_dir_entry` enters reads back as the data that was written (`StoredReads`,
`SyncBack`). For the list of writes of each call `WroteBack`, `MadeDir` and the lemmas
named `*_begins` say which clusters the tree uses afterwards: for `close`, those it used
but for the tail that was cut off (`Forgotten`, which is `CutOff`).

`ImageSound` shows the same for the volume of the formatter, file by file, so `Init` is
not a consistent volume by decree, and `ImageBack` that its files read as they were
copied. That needs room for them: the makefile stops when `mcopy` fails, which is
`HasRoom` in `Init`.

`FilesProofs` proves all that the run `files` checks, for any number of tasks, any
`MAX_FDS >= 3`, any names, paths and buffer lengths: `CopiesAreCurrent`,
`PositionsInData`, `GetdentsIsSound` and the action properties `NothingIsLost` and
`DescriptorsStable`. `FilesInv` adds to the two invariants the types and that the
parent of every node is a directory (`Rooted`); without it `open` with `O_CREAT`
could not be known to make a new node where there was none. `OutdatedSlots` says once
what `unlink` and a write do to the `fresh` flags of all other handles. `PathsAssumption`
and `BufLensAssumption` only say that user paths are made of names, `.` and `..`, and
that lengths are natural numbers.

`LoaderProofs` proves `FramesApart` and `KernelIsShared` for any memory, any layout of
heap, devices and stack, any images, and memory that runs out at any page. A use of
a frame is a holding, a tuple of space, slot, index and frame (`HoldingsOf`), and each
way of changing the tables has a lemma about the holdings: `map_to` with and without
a new table, a new PML4, and a failure that loses a frame. `LoaderInv` adds the types,
what each stage of the loader knows (`StageInv`), that before the devices are mapped
the kernel holds no device frame (`DeviceInv`), and that the kernel's slots of all
spaces are equal (`KernelShared`), which is why nothing may be mapped into an empty
kernel slot once there are spaces: user segments and the stack lie in the lower half.
`load_into` does not check that of the segments; `ImagesAssumption` states it, as the
linker scripts of `user/` place the programs there. `DevicesAssumption` says that the
APIC registers are distinct and no memory of `pmm`.

`ImagesAreLoaded` rests on a second invariant, proved relative to the first. A `View`
says of the lower half of a space which pages are mapped (a set of pages), which bytes
they hold (a set of cells, address and byte; zero where there is no cell), and that
the page of the entry point, once mapped, may be executed. `ImageInv` gives the view
of the space in progress at every stage (`PagesAt`, `CellsAt`: the segments before the
current one, and as much of that as is mapped or copied) and the final view of every
space whose task was added. Three lemmas say how a view changes: not at all
(`ViewUntouched`; by `SpacesApart` no step touches a frame of another space), by one
wiped page (`ViewMapped`), by bytes stored at addresses that had none (`ViewStored`).
Page arithmetic is needed once, in `StoreIs`: a piece never crosses its page, so the
offsets in the frame are the addresses in the space. `zero` then adds no cell: the
bytes of the tail are zero already, as the frame was wiped and no other segment has
been copied there. `LinkedAssumption` is what this needs of the images and
`load_into` does not check: segments do not overlap, an empty one does not begin
inside a page, `filesz` stays in the lower half even where it exceeds `memsz`, and
the first segment in the page of the entry point is the code. The linker scripts in
`user/` guarantee it: one section after another, code with `_start` first. Without it
the code does something else: a later segment overwrites an earlier one, and a page
shared with read-only data that came first cannot be executed.

Folds occur in all of `Paths`, `Files` and `Vfs`, recursive functions in `Fat32`. The
provers cannot use an induction theorem with an operator parameter, so the induction is
on a set of numbers instead: a nonempty set of natural numbers has a least element
(`LeastNumber`, from `WFMin`), hence the function that defines a fold exists
(`FoldExtends`, `FoldExists`), and its value for the first j elements is one step applied
to that for the first j - 1 (`FoldRuns`). `UpTo` and `IterationRecurs` are the same for
the recursive functions of `Fat32`.

Every safety invariant, action property and refinement that a passing run checks, except
`DamageConfined`, is stated by a theorem. Only model-checked besides it is liveness (`ReadyRuns`, `SleeperWakes`,
`DeadReaped`, `ReaderServed`, `LockReleased`), which the prover does not handle.

Neither checked nor proved is how the layers of the storage stack fit together: `Ata`,
`Block` and `Fat32` are separate specifications, and each takes the one below at its word.

## Findings

* Holding `SCHEDULER` with interrupts enabled hangs the machine when the timer
  strikes (`sched_hang`).
* `touch` cannot create a file on the FAT32 root (`fat32_touch`).

## Plan

Done: scheduler, keyboard, FAT32, physical memory, tmpfs with the file system calls,
mounts and paths, system call entry, address spaces and the ELF loader, block layer,
ATA driver; proofs of the safety properties of all of them.

Left, in this order:

1. `Fat32` without the discipline of its callers (several handles on a path): what
   remains true when a stale first cluster is written back (`fat32.rs:1115`);
2. the long-name and 8.3 conversions as algorithms, checked by round trip;
3. the line editor of the shell on the terminal's screen.

## Not modelled

* Terminal, framebuffer and font: a single sequential writer of pixels that nothing
  reads back.
* The shell beyond its system calls, and the formatting in the user library.
* APIC, GDT and IDT programming: register output with no state a property could tell
  apart; what it establishes (a periodic timer, interrupt stacks, a page fault that
  halts) is in the modules that rely on it.
* The text of `/live` files and of messages.
* Code that nothing calls: `elf::load`, `unmap_page`, `virt_to_phys`,
  `find_partition`, `Terminal::clear`.
* The inside of the heap allocator, a library; its lock is in `Sched`.
