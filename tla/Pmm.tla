------------------------------- MODULE Pmm -------------------------------
(***************************************************************************)
(* The physical memory manager of mem/pmm.rs: a bitmap with one bit for    *)
(* each page frame below the highest address of the boot loader's memory   *)
(* map.  init() places the bitmap in usable memory itself, clears the bit  *)
(* of every usable frame and sets again those of the frames it lies in.    *)
(* Its loops over the map are steps of their own, one for each entry;      *)
(* nothing else runs before init() returns.                                *)
(*                                                                         *)
(* Addresses are byte numbers, frames are page numbers.                    *)
(***************************************************************************)
EXTENDS Integers, Sequences, FiniteSets

CONSTANTS PAGE_SIZE,   \* bytes in a page
          MemMaps,     \* the memory maps a boot loader may report
          NoAddr       \* Option::None

Entries == [base : Nat, length : Nat, usable : BOOLEAN]

\* The end of an entry, exclusive.
End(e) == e.base + e.length

\* Two regions of memory that have no byte in common.
Apart(e, f) == End(e) <= f.base \/ End(f) <= e.base

ASSUME PageSizeAssumption == PAGE_SIZE \in Nat \ {0}

(***************************************************************************)
(* What the boot protocol promises of a memory map: usable entries overlap *)
(* no other entry.  The code needs no alignment and no order.              *)
(***************************************************************************)
ASSUME MapAssumption ==
  /\ MemMaps \subseteq Seq(Entries)
  /\ \A m \in MemMaps : \A i, j \in 1..Len(m) :
       i # j /\ m[i].usable => Apart(m[i], m[j])

ASSUME NoAddrAssumption == NoAddr \notin Nat

VARIABLES
  memmap,        \* the memory map given to init
  phase,         \* where init stands: scan, place, clear, reserve, ready, panic
  k,             \* the entry the current loop of init looks at
  highest_addr,
  bitmap_addr,   \* where the bitmap lies, NoAddr before
  clear,         \* the frames whose bit is 0
  free_pages,
  usable_pages,
  owned,         \* history: frames handed out by alloc and not freed since
  ret            \* the last value alloc returned

vars == <<memmap, phase, k, highest_addr, bitmap_addr, clear, free_pages,
          usable_pages, owned, ret>>

Init ==
  /\ memmap \in MemMaps
  /\ phase = "scan"
  /\ k = 1
  /\ highest_addr = 0
  /\ bitmap_addr = NoAddr
  /\ clear = {}
  /\ free_pages = 0
  /\ usable_pages = 0
  /\ owned = {}
  /\ ret = NoAddr

-----------------------------------------------------------------------------
(* Conversions between bytes and frames *)

\* The first frame that begins at or above an address.
CeilPage(a) == (a + PAGE_SIZE - 1) \div PAGE_SIZE

\* The frame an address lies in.
PageOf(a) == a \div PAGE_SIZE

total_pages == CeilPage(highest_addr)

\* Mutant: the last partial byte is forgotten.
Bug_SizeRoundedDown == total_pages \div 8

bitmap_size == (total_pages + 7) \div 8

\* Mutant: the first frame is rounded down.
Bug_StartRoundedDown(e) == PageOf(e.base) .. (PageOf(End(e)) - 1)

\* The frames that lie wholly in an entry.
PagesOf(e) == CeilPage(e.base) .. (PageOf(End(e)) - 1)

\* The frames that the bitmap touches.
BitmapPages ==
  PageOf(bitmap_addr) .. (CeilPage(bitmap_addr + bitmap_size) - 1)

-----------------------------------------------------------------------------
(* init *)

\* First loop: the highest address of any entry.
init_scan ==
  /\ phase = "scan"
  /\ IF k <= Len(memmap)
     THEN /\ highest_addr' = IF End(memmap[k]) > highest_addr
                             THEN End(memmap[k]) ELSE highest_addr
          /\ k' = k + 1
          /\ phase' = phase
     ELSE /\ k' = 1
          /\ phase' = "place"
          /\ highest_addr' = highest_addr
  /\ UNCHANGED <<memmap, bitmap_addr, clear, free_pages, usable_pages, owned,
                 ret>>

\* An entry that can hold the bitmap.
Fits(e) == e.usable /\ e.length >= bitmap_size

\* Second loop: the bitmap goes to the start of the first entry that can hold
\* it, all bits set; without one the kernel panics.
init_place ==
  /\ phase = "place"
  /\ \/ /\ k > Len(memmap)
        /\ phase' = "panic"
        /\ UNCHANGED <<k, bitmap_addr, clear>>
     \/ /\ k <= Len(memmap)
        /\ ~Fits(memmap[k])
        /\ k' = k + 1
        /\ UNCHANGED <<phase, bitmap_addr, clear>>
     \/ /\ k <= Len(memmap)
        /\ Fits(memmap[k])
        /\ bitmap_addr' = memmap[k].base
        /\ clear' = {}
        /\ phase' = "clear"
        /\ k' = 1
  /\ UNCHANGED <<memmap, highest_addr, free_pages, usable_pages, owned, ret>>

\* Third loop: the frames of a usable entry become free, counted one by one.
init_clear ==
  /\ phase = "clear"
  /\ IF k <= Len(memmap)
     THEN /\ IF memmap[k].usable
             THEN /\ clear' = clear \cup PagesOf(memmap[k])
                  /\ free_pages' = free_pages + Cardinality(PagesOf(memmap[k]))
             ELSE UNCHANGED <<clear, free_pages>>
          /\ k' = k + 1
          /\ phase' = phase
     ELSE /\ phase' = "reserve"
          /\ UNCHANGED <<k, clear, free_pages>>
  /\ UNCHANGED <<memmap, highest_addr, bitmap_addr, usable_pages, owned, ret>>

\* Last loop: the frames of the bitmap are taken again; PMM is set.
init_reserve ==
  /\ phase = "reserve"
  /\ clear' = clear \ BitmapPages
  /\ free_pages' = free_pages - Cardinality(clear \cap BitmapPages)
  /\ usable_pages' = free_pages'
  /\ phase' = "ready"
  /\ UNCHANGED <<memmap, k, highest_addr, bitmap_addr, owned, ret>>

-----------------------------------------------------------------------------
(* alloc and free *)

\* Mutant: the search stops one frame early.
Bug_SearchStopsEarly == {i \in clear : i < total_pages - 1}

\* The frames alloc_page finds free.
Searched == {i \in clear : i < total_pages}

\* The lowest frame below total_pages whose bit is 0 is taken.
alloc ==
  /\ phase = "ready"
  /\ \/ \E i \in Searched :
          /\ \A j \in Searched : i <= j
          /\ clear' = clear \ {i}
          /\ free_pages' = free_pages - 1
          /\ owned' = owned \cup {i}
          /\ ret' = i * PAGE_SIZE
     \/ /\ Searched = {}
        /\ ret' = NoAddr
        /\ UNCHANGED <<clear, free_pages, owned>>
  /\ UNCHANGED <<memmap, phase, k, highest_addr, bitmap_addr, usable_pages>>

\* Mutant: the bit is not tested, so that a repeated free counts twice.
Bug_FreeUntested(addr) ==
  /\ clear' = clear \cup {PageOf(addr)}
  /\ free_pages' = free_pages + 1
  /\ owned' = owned \ {PageOf(addr)}
  /\ UNCHANGED <<memmap, phase, k, highest_addr, bitmap_addr, usable_pages,
                 ret>>

\* free(addr), for any address in the page.
free(addr) ==
  /\ IF PageOf(addr) < total_pages /\ PageOf(addr) \notin clear
     THEN /\ clear' = clear \cup {PageOf(addr)}
          /\ free_pages' = free_pages + 1
     ELSE UNCHANGED <<clear, free_pages>>
  /\ owned' = owned \ {PageOf(addr)}
  /\ UNCHANGED <<memmap, phase, k, highest_addr, bitmap_addr, usable_pages,
                 ret>>

(***************************************************************************)
(* What callers may free: an address in a frame they own, one they freed   *)
(* already, or one beyond all memory.  Not a frame that was never handed   *)
(* out: free_page cannot tell a reserved frame from an allocated one.  (No *)
(* code of the kernel calls free yet.)                                     *)
(***************************************************************************)
Freeable(page) == page \in owned \/ page \in clear \/ page >= total_pages

free_owned ==
  /\ phase = "ready"
  /\ \E page \in 0 .. total_pages, offset \in 0 .. (PAGE_SIZE - 1) :
       Freeable(page) /\ free(page * PAGE_SIZE + offset)

\* The kernel has halted.
halted == phase = "panic" /\ UNCHANGED vars

Next ==
  \/ init_scan
  \/ init_place
  \/ init_clear
  \/ init_reserve
  \/ alloc
  \/ free_owned
  \/ halted

Spec == Init /\ [][Next]_vars

-----------------------------------------------------------------------------
(* Properties *)

Phases == {"scan", "place", "clear", "reserve", "ready", "panic"}

\* Type correctness of the allocator's state; no count goes below zero.
TypeOK ==
  /\ memmap \in MemMaps
  /\ phase \in Phases
  /\ k \in Nat \ {0}
  /\ highest_addr \in Nat
  /\ bitmap_addr \in Nat \cup {NoAddr}
  /\ clear \subseteq Nat /\ IsFiniteSet(clear)
  /\ free_pages \in Nat
  /\ usable_pages \in Nat
  /\ owned \subseteq Nat /\ IsFiniteSet(owned)
  /\ ret \in Nat \cup {NoAddr}

\* free_pages, which /live/mem reports, is the number of zero bits.
FreeCountExact == free_pages = Cardinality(clear)

\* Once init is done, every usable frame is either free or owned, never both.
FramesConserved ==
  phase = "ready" =>
    /\ clear \cap owned = {}
    /\ free_pages + Cardinality(owned) = usable_pages

(***************************************************************************)
(* No frame is lost, made up or handed out while somebody owns it, and the *)
(* count is exact, during init and after any sequence of alloc and free,   *)
(* repeated frees included.                                                *)
(***************************************************************************)
EveryFrameAccounted == FreeCountExact /\ FramesConserved

\* The bytes of a frame as a region.
Frame(p) == [base |-> p * PAGE_SIZE, length |-> PAGE_SIZE]

(***************************************************************************)
(* A frame handed out by alloc shares no byte with the bitmap, nor with    *)
(* memory that the map reports as not usable, whatever the alignment of    *)
(* the entries: the rounding in init goes the right way on both sides.     *)
(***************************************************************************)
FramesAreUsable ==
  \A p \in owned :
    /\ Apart(Frame(p), [base |-> bitmap_addr, length |-> bitmap_size])
    /\ \A i \in 1..Len(memmap) :
         ~memmap[i].usable => Apart(Frame(p), memmap[i])

(***************************************************************************)
(* set_bit and clear_bit write only the bitmap_size bytes at bitmap_addr,  *)
(* and those lie in one usable entry.                                      *)
(***************************************************************************)
BitmapInBounds ==
  bitmap_addr # NoAddr =>
    /\ \A p \in clear : p \div 8 < bitmap_size
    /\ \E i \in 1..Len(memmap) :
         /\ memmap[i].usable
         /\ memmap[i].base <= bitmap_addr
         /\ bitmap_addr + bitmap_size <= End(memmap[i])

(***************************************************************************)
(* alloc returns None only when the count of free pages is 0: no free      *)
(* frame is out of the reach of its search.                                *)
(***************************************************************************)
FailsOnlyWhenEmpty ==
  [][ret # NoAddr /\ ret' = NoAddr => free_pages = 0]_vars

=============================================================================
