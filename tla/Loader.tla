------------------------------ MODULE Loader ------------------------------
(***************************************************************************)
(* Page tables, the kernel's own mappings and the ELF loader: mem/vmm.rs,  *)
(* mem/heap.rs, elf.rs (load_into) and the part of sched::spawn_elf that   *)
(* builds an address space.                                                *)
(*                                                                         *)
(* A page table has two levels here: the PML4, one slot of which refers to *)
(* a table of Entries pages, in place of the three levels of tables below  *)
(* it.  The upper half of the PML4 belongs to the kernel, and a new space  *)
(* copies it, so that the tables below it are shared.  Virtual addresses   *)
(* are byte numbers, pages are address \div PAGE_SIZE.                     *)
(*                                                                         *)
(* kmain maps the heap and the APIC registers, then spawns tasks, all      *)
(* before it enables interrupts: nothing runs beside the loader.  Its      *)
(* loops are actions, one for each page or piece, so that memory may run   *)
(* out anywhere.  spawn_elf may be called again and again, and its caller  *)
(* goes on when it fails.                                                  *)
(***************************************************************************)
EXTENDS Integers, Sequences, FiniteSets, FiniteSetsExt

CONSTANTS
  PAGE_SIZE,         \* bytes in a page
  Entries,           \* pages under one slot of the PML4
  Half,              \* slots of the lower half; as many lie above
  Frames,            \* the frames pmm manages
  FreeSets,          \* the sets of frames that may be free at boot
  KERNEL,            \* the boot loader's PML4
  BootTable,         \* the table under the first slot of its upper half
  HeapPages,         \* the pages of the kernel heap, in order
  Devices,           \* <<page, frame>> of the APIC registers, in order
  StackTop,          \* the highest page of a user stack
  user_stack_pages,
  Images,            \* the ELF files that may be loaded
  None,
  Junk               \* a byte of memory nobody has written yet

Slots == 0 .. (2 * Half - 1)
KernelSlots == Half .. (2 * Half - 1)
UserPages == 0 .. (Half * Entries - 1)
SlotOf(page) == page \div Entries
IndexOf(page) == page % Entries
PageOf(addr) == addr \div PAGE_SIZE

ASSUME SizesAssumption ==
  PAGE_SIZE \in Nat \ {0} /\ Entries \in Nat \ {0} /\ Half \in Nat \ {0}

ASSUME FramesAssumption ==
  /\ Frames \subseteq Nat
  /\ FreeSets \subseteq SUBSET Frames
  /\ KERNEL \notin Frames /\ BootTable \notin Frames /\ None \notin Frames
  /\ None \notin [frame : Nat, nx : BOOLEAN]

\* The registers of two devices are different pages and frames, and not memory.
ASSUME DevicesAssumption ==
  /\ Devices \in Seq(Nat \X Nat)
  /\ \A i \in 1..Len(Devices) : Devices[i][2] \notin Frames \cup {None, BootTable}
  /\ \A i, j \in 1..Len(Devices) : Devices[i][2] = Devices[j][2] => i = j

ASSUME LayoutAssumption ==
  /\ HeapPages \in Seq(Nat)
  /\ \A i \in 1..Len(HeapPages) : SlotOf(HeapPages[i]) \in KernelSlots
  /\ \A i \in 1..Len(Devices) : SlotOf(Devices[i][1]) \in KernelSlots
  /\ user_stack_pages \in Nat
  /\ StackTop \in UserPages /\ StackTop - user_stack_pages >= 0

\* The page after the last one of a segment, its pages and its addresses.
EndPage(seg) == PageOf(seg.vaddr + seg.memsz + PAGE_SIZE - 1)
SegmentPages(seg) == PageOf(seg.vaddr) .. (EndPage(seg) - 1)
Extent(seg) ==
  (seg.vaddr .. (seg.vaddr + seg.filesz - 1)) \cup (seg.vaddr .. (seg.vaddr + seg.memsz - 1))

Header == [load : BOOLEAN, x : BOOLEAN, offset : Nat, vaddr : Nat, filesz : Nat, memsz : Nat]

\* The programs' linker scripts put them in the lower half, which load_into
\* takes for granted.
ASSUME ImagesAssumption ==
  \A image \in Images :
    /\ image.phnum \in Nat /\ image.headers \in Seq(Header)
    /\ \A i \in 1..Len(image.headers) :
         LET s == image.headers[i]
         IN  s.load => EndPage(s) <= Half * Entries

LoadHeaders(image) == {i \in 1..Len(image.headers) : image.headers[i].load}

\* They lay out one section after another, the code with _start first.  Where
\* sections of two segments share a page, the first one decides its flags, so
\* that the entry point must be in the first segment of its page.
ASSUME LinkedAssumption ==
  \A image \in Images :
    /\ image.entry \in Nat /\ PageOf(image.entry) \in UserPages
    /\ \A i, j \in LoadHeaders(image) :
         i # j => Extent(image.headers[i]) \cap Extent(image.headers[j]) = {}
    /\ \A i \in LoadHeaders(image) :
         LET s == image.headers[i]
         IN  /\ PageOf(s.vaddr + s.filesz + PAGE_SIZE - 1) <= Half * Entries
             /\ s.memsz = 0 => s.vaddr % PAGE_SIZE = 0
             /\ \/ s.x
                \/ PageOf(image.entry) \notin SegmentPages(s)
                \/ \E j \in LoadHeaders(image) :
                     j < i /\ PageOf(image.entry) \in SegmentPages(image.headers[j])

VARIABLES
  free,      \* the frames pmm would still hand out
  pml4,      \* for each frame used as a PML4: slot -> table or None
  table,     \* for each frame used as a table: index -> entry or None
  bytes,     \* for each frame used as memory: its contents
  stage,     \* what the loader does next
  job,       \* the spawn_elf in progress: image, space, segment and position
  loaded,    \* the spaces whose task was added to the scheduler
  failed     \* history: some spawn_elf has returned an error

vars == <<free, pml4, table, bytes, stage, job, loaded, failed>>
memory == <<free, pml4, table, bytes>>

Empty == [i \in 0..(Entries - 1) |-> None]
Zeros == [o \in 0..(PAGE_SIZE - 1) |-> 0]

Idle == [image |-> None, space |-> None, seg |-> 0, pos |-> 0]

Init ==
  /\ free \in FreeSets
  /\ pml4 = [f \in Frames \cup {KERNEL} |->
               [s \in Slots |-> IF f = KERNEL /\ s = Half THEN BootTable
                                ELSE None]]
  /\ table = [f \in Frames \cup {BootTable} |-> Empty]
  /\ bytes = [f \in Frames |-> [o \in 0..(PAGE_SIZE - 1) |-> Junk]]
  /\ stage = "heap"
  /\ job = [Idle EXCEPT !.pos = 1]
  /\ loaded = {}
  /\ failed = FALSE

-----------------------------------------------------------------------------
(* Page tables *)

\* translate_addr, for the page an address lies in: its entry, or None.
translate(space, page) ==
  LET t == pml4[space][SlotOf(page)]
  IN  IF t = None THEN None ELSE table[t][IndexOf(page)]

is_mapped(space, page) == translate(space, page) # None

\* What map_to needs from pmm besides the frame that is mapped.
NeedsTable(space, page) == pml4[space][SlotOf(page)] = None

\* map_to, when the page is not mapped and `avail' has a frame for its table.
map_to(space, page, entry, avail) ==
  LET slot == SlotOf(page)
      index == IndexOf(page)
  IN  IF NeedsTable(space, page)
      THEN LET t == Min(avail)
           IN  /\ free' = avail \ {t}
               /\ pml4' = [pml4 EXCEPT ![space][slot] = t]
               /\ table' = [table EXCEPT ![t] = [Empty EXCEPT ![index] = entry]]
      ELSE /\ free' = avail
           /\ table' = [table EXCEPT ![pml4[space][slot]][index] = entry]
           /\ UNCHANGED pml4

\* The frames that map_to finds free after one was taken for the page.
Rest == free \ {Min(free)}

CanMapAlloc(space, page) ==
  /\ free # {}
  /\ ~is_mapped(space, page)
  /\ NeedsTable(space, page) => Rest # {}

\* Mutant: the frame keeps what was in it.
Bug_NotWiped(space, page, nx) ==
  /\ CanMapAlloc(space, page)
  /\ map_to(space, page, [frame |-> Min(free), nx |-> nx], Rest)
  /\ UNCHANGED bytes

\* Mutant: the table takes the frame that was meant for the page.
Bug_TableTakesFrame(space, page, nx) ==
  /\ CanMapAlloc(space, page)
  /\ map_to(space, page, [frame |-> Min(free), nx |-> nx],
            IF NeedsTable(space, page) THEN free ELSE Rest)
  /\ bytes' = [bytes EXCEPT ![Min(free)] = Zeros]

\* map_page_alloc returns Ok: the lowest free frame, wiped, is mapped.
map_page_alloc(space, page, nx) ==
  /\ CanMapAlloc(space, page)
  /\ map_to(space, page, [frame |-> Min(free), nx |-> nx], Rest)
  /\ bytes' = [bytes EXCEPT ![Min(free)] = Zeros]

\* It returns Err: nothing is mapped, and a frame it has taken is lost.
map_page_alloc_fails(space, page) ==
  /\ ~CanMapAlloc(space, page)
  /\ IF free = {} THEN UNCHANGED <<free, bytes>>
     ELSE free' = Rest /\ bytes' = [bytes EXCEPT ![Min(free)] = Zeros]
  /\ UNCHANGED <<pml4, table>>

-----------------------------------------------------------------------------
(* Boot *)

Panic == stage' = "halted" /\ UNCHANGED <<job, loaded, failed>>

\* heap::init, one page.
heap_init ==
  /\ stage = "heap"
  /\ job.pos <= Len(HeapPages)
  /\ LET page == HeapPages[job.pos]
     IN  \/ /\ map_page_alloc(KERNEL, page, TRUE)
            /\ job' = [job EXCEPT !.pos = @ + 1]
            /\ UNCHANGED <<stage, loaded, failed>>
         \/ map_page_alloc_fails(KERNEL, page) /\ Panic

heap_ready ==
  /\ stage = "heap"
  /\ job.pos > Len(HeapPages)
  /\ stage' = "apic"
  /\ job' = [job EXCEPT !.pos = 1]
  /\ UNCHANGED <<memory, loaded, failed>>

\* apic::init maps the device registers: no frame of pmm but for a table.
apic_init ==
  /\ stage = "apic"
  /\ job.pos <= Len(Devices)
  /\ LET page == Devices[job.pos][1]
         entry == [frame |-> Devices[job.pos][2], nx |-> FALSE]
     IN  IF is_mapped(KERNEL, page) \/ (NeedsTable(KERNEL, page) /\ free = {})
         THEN Panic /\ UNCHANGED memory
         ELSE /\ map_to(KERNEL, page, entry, free)
              /\ job' = [job EXCEPT !.pos = @ + 1]
              /\ UNCHANGED <<bytes, stage, loaded, failed>>

apic_ready ==
  /\ stage = "apic"
  /\ job.pos > Len(Devices)
  /\ stage' = "idle"
  /\ job' = Idle
  /\ UNCHANGED <<memory, loaded, failed>>

\* The kernel has halted.
halted == stage = "halted" /\ UNCHANGED vars

-----------------------------------------------------------------------------
(* spawn_elf *)

\* spawn_elf returns an error.  Dropping the AddressSpace frees nothing.
Fail ==
  /\ stage' = "idle"
  /\ job' = Idle
  /\ failed' = TRUE
  /\ UNCHANGED loaded

Continue(next, seg, pos) ==
  /\ stage' = next
  /\ job' = [job EXCEPT !.seg = seg, !.pos = pos]
  /\ UNCHANGED <<loaded, failed>>

\* Mutant: the copy stops before the last slot.
Bug_SkipLastSlot == Half .. (2 * Half - 2)

\* The slots that AddressSpace::new copies from the kernel's PML4.
CopiedSlots == KernelSlots

new(image) ==
  /\ stage = "idle"
  /\ IF free = {} THEN Fail /\ UNCHANGED memory
     ELSE LET space == Min(free)
          IN  /\ free' = free \ {space}
              /\ pml4' = [pml4 EXCEPT ![space] = [s \in Slots |->
                            IF s \in CopiedSlots THEN pml4[KERNEL][s]
                            ELSE None]]
              /\ stage' = "header"
              /\ job' = [image |-> image, space |-> space, seg |-> 0, pos |-> 0]
              /\ UNCHANGED <<table, bytes, loaded, failed>>

\* load_into: size, magic, class and machine of the file.
check_header ==
  /\ stage = "header"
  /\ IF job.image.valid THEN Continue("segment", 1, 0) ELSE Fail
  /\ UNCHANGED memory

Segment == job.image.headers[job.seg]

\* The next program header; the file may end before the last of them.
next_segment ==
  /\ stage = "segment"
  /\ \/ job.seg > job.image.phnum /\ Continue("entry", job.seg, 0)
     \/ /\ job.seg <= job.image.phnum
        /\ job.seg > Len(job.image.headers)
        /\ Fail
     \/ /\ job.seg <= job.image.phnum
        /\ job.seg <= Len(job.image.headers)
        /\ IF Segment.load
           THEN Continue("map", job.seg, PageOf(Segment.vaddr))
           ELSE Continue("segment", job.seg + 1, 0)
  /\ UNCHANGED memory

\* One page of the segment.  A page that an earlier segment has mapped keeps
\* its frame and its flags.
map_segment ==
  /\ stage = "map"
  /\ job.pos < EndPage(Segment)
  /\ \/ /\ is_mapped(job.space, job.pos)
        /\ Continue("map", job.seg, job.pos + 1)
        /\ UNCHANGED memory
     \/ /\ map_page_alloc(job.space, job.pos, ~Segment.x)
        /\ Continue("map", job.seg, job.pos + 1)
     \/ /\ ~is_mapped(job.space, job.pos)
        /\ map_page_alloc_fails(job.space, job.pos)
        /\ Fail

\* Every page is mapped; the file must hold the segment's bytes.
check_bounds ==
  /\ stage = "map"
  /\ job.pos >= EndPage(Segment)
  /\ IF Segment.offset + Segment.filesz <= Len(job.image.file)
     THEN Continue("copy", job.seg, 0) ELSE Fail
  /\ UNCHANGED memory

\* The bytes up to `len' that lie in the page of virt + pos.
Piece(virt, len) ==
  Min({PAGE_SIZE - ((virt + job.pos) % PAGE_SIZE), len - job.pos})

\* AddressSpace::write and zero, one iteration: the part of the data that lies
\* in one page goes to its frame.
Store(virt, len, data) ==
  LET at == virt + job.pos
      first == at % PAGE_SIZE
      frame == translate(job.space, PageOf(at)).frame
  IN  /\ is_mapped(job.space, PageOf(at))
      /\ bytes' = [bytes EXCEPT ![frame] =
                     [o \in 0..(PAGE_SIZE - 1) |->
                        IF o \in first .. (first + Piece(virt, len) - 1)
                        THEN data[job.pos + o - first] ELSE @[o]]]
      /\ UNCHANGED <<free, pml4, table>>

FileBytes == [i \in 0..(Segment.filesz - 1) |-> job.image.file[Segment.offset + i + 1]]

write ==
  /\ stage = "copy"
  /\ job.pos < Segment.filesz
  /\ Store(Segment.vaddr, Segment.filesz, FileBytes)
  /\ Continue("copy", job.seg, job.pos + Piece(Segment.vaddr, Segment.filesz))

\* write meets a page that is not mapped: a segment whose filesz exceeds its
\* memsz.
write_fails ==
  /\ stage = "copy"
  /\ job.pos < Segment.filesz
  /\ ~is_mapped(job.space, PageOf(Segment.vaddr + job.pos))
  /\ Fail
  /\ UNCHANGED memory

written ==
  /\ stage = "copy"
  /\ job.pos >= Segment.filesz
  /\ Continue("zero", job.seg, 0)
  /\ UNCHANGED memory

\* Where the part of a segment that the file does not hold begins.
TailStart == Segment.vaddr + Segment.filesz

zero ==
  /\ stage = "zero"
  /\ LET len == Segment.memsz - Segment.filesz
     IN  /\ job.pos < len
         /\ Store(TailStart, len, [i \in 0..(len - 1) |-> 0])
         /\ Continue("zero", job.seg, job.pos + Piece(TailStart, len))

zeroed ==
  /\ stage = "zero"
  /\ job.pos >= Segment.memsz - Segment.filesz
  /\ Continue("segment", job.seg + 1, 0)
  /\ UNCHANGED memory

check_entry ==
  /\ stage = "entry"
  /\ IF is_mapped(job.space, PageOf(job.image.entry))
     THEN Continue("stack", 0, 0) ELSE Fail
  /\ UNCHANGED memory

\* One page of the user stack, from the top down.
map_stack ==
  /\ stage = "stack"
  /\ job.pos < user_stack_pages
  /\ LET page == StackTop - job.pos
     IN  \/ /\ map_page_alloc(job.space, page, TRUE)
            /\ Continue("stack", 0, job.pos + 1)
         \/ map_page_alloc_fails(job.space, page) /\ Fail

\* Task::new_user and add_task.
add_task ==
  /\ stage = "stack"
  /\ job.pos = user_stack_pages
  /\ loaded' = loaded \cup {[image |-> job.image, space |-> job.space]}
  /\ stage' = "idle"
  /\ job' = Idle
  /\ UNCHANGED <<memory, failed>>

Next ==
  \/ heap_init \/ heap_ready
  \/ apic_init \/ apic_ready
  \/ \E image \in Images : new(image)
  \/ check_header
  \/ next_segment \/ map_segment \/ check_bounds
  \/ write \/ write_fails \/ written
  \/ zero \/ zeroed
  \/ check_entry
  \/ map_stack \/ add_task
  \/ halted

Spec == Init /\ [][Next]_vars

-----------------------------------------------------------------------------
(* Properties *)

\* The segments of an image that load_into loads.
LoadSegments(image) ==
  {image.headers[i] : i \in {j \in 1..image.phnum : image.headers[j].load}}

StackPages == (StackTop - user_stack_pages + 1) .. StackTop

\* The pages an image asks for, those of its stack included.
AskedFor(image) ==
  StackPages \cup
    UNION {PageOf(s.vaddr) .. PageOf(s.vaddr + s.memsz - 1) :
             s \in {t \in LoadSegments(image) : t.memsz > 0}}

\* The byte an image puts at an address: one of the file or 0.
ByteAt(image, addr) ==
  LET in == {s \in LoadSegments(image) :
               addr \in s.vaddr .. (s.vaddr + s.filesz - 1)}
  IN  IF in = {} THEN 0
      ELSE LET s == CHOOSE t \in in : TRUE
           IN  image.file[s.offset + addr - s.vaddr + 1]

(***************************************************************************)
(* A task that was added to the scheduler has exactly the pages its image  *)
(* and its stack ask for; they hold the bytes of the file and zeros        *)
(* everywhere else, with nothing left over from earlier owners of the      *)
(* frames, also where two segments share a page and where the bss begins   *)
(* within one; its entry point may be executed.  Loading other images, or  *)
(* failing to, does not change that.                                       *)
(***************************************************************************)
ImageLoaded ==
  \A l \in loaded :
    /\ {p \in UserPages : is_mapped(l.space, p)} = AskedFor(l.image)
    /\ \A p \in AskedFor(l.image), o \in 0..(PAGE_SIZE - 1) :
         bytes[translate(l.space, p).frame][o] =
           ByteAt(l.image, p * PAGE_SIZE + o)
    /\ ~translate(l.space, PageOf(l.image.entry)).nx

\* The spaces that are in use, the one being built included.
Spaces == {l.space : l \in loaded} \cup ({job.space} \ {None})

\* The tables and pages that a space has under some slots, each with its place:
\* <<space, kind, slot or page, frame>>.
Under(space, slots) ==
  {<<space, "table", s, pml4[space][s]>> :
     s \in {t \in slots : pml4[space][t] # None}} \cup
  {<<space, "page", p, translate(space, p).frame>> :
     p \in {q \in 0 .. (2 * Half * Entries - 1) :
              SlotOf(q) \in slots /\ is_mapped(space, q)}}

Holdings ==
  Under(KERNEL, KernelSlots) \cup
  (UNION {Under(s, Slots \ KernelSlots) : s \in Spaces}) \cup
  {<<s, "pml4", 0, s>> : s \in Spaces}

(***************************************************************************)
(* No frame serves two purposes: the PML4s, tables and pages of all spaces *)
(* and of the kernel are different frames, and none of them is still free. *)
(***************************************************************************)
SpacesApart ==
  /\ \A h \in Holdings : h[4] \notin free
  /\ \A g, h \in Holdings : g[4] = h[4] => g = h

(***************************************************************************)
(* Every space maps the kernel's half as the kernel itself does (heap,     *)
(* APIC and the boot loader's part): an interrupt or a system call finds   *)
(* the heap under whatever %cr3 it happens to run.                         *)
(***************************************************************************)
KernelHalfShared ==
  \A s \in Spaces, p \in Half * Entries .. 2 * Half * Entries - 1 :
    translate(s, p) = translate(KERNEL, p)


=============================================================================
