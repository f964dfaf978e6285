---------------------------- MODULE PmmProofs ----------------------------
(***************************************************************************)
(* Proofs about the physical memory manager, for every page size and every *)
(* memory map in which usable entries overlap no other entry.              *)
(***************************************************************************)
EXTENDS Pmm, FiniteSetTheorems, TLAPS

-----------------------------------------------------------------------------
(* Rounding *)

\* What integer division by a positive number yields.
LEMMA DivBounds ==
  ASSUME NEW a \in Nat, NEW d \in Nat \ {0}
  PROVE  /\ a \div d \in Nat
         /\ (a \div d) * d <= a
         /\ a < (a \div d) * d + d
  BY SMT

\* A product is monotone in its first factor, strictly so by whole steps.
LEMMA MultMono ==
  ASSUME NEW a \in Nat, NEW b \in Nat, NEW d \in Nat \ {0}, a < b
  PROVE  a * d + d <= b * d
  BY SMT

\* A frame is at or above the rounded-up address iff it begins above it.
LEMMA CeilPageBound ==
  ASSUME NEW a \in Nat, NEW p \in Nat
  PROVE  /\ CeilPage(a) \in Nat
         /\ CeilPage(a) <= p <=> a <= p * PAGE_SIZE
<1> DEFINE q == CeilPage(a)
<1>1. a + PAGE_SIZE - 1 \in Nat
  BY PageSizeAssumption
<1>2. q \in Nat /\ q * PAGE_SIZE <= a + PAGE_SIZE - 1
             /\ a + PAGE_SIZE - 1 < q * PAGE_SIZE + PAGE_SIZE
  BY <1>1, DivBounds, PageSizeAssumption DEF CeilPage
<1>3. q <= p => q * PAGE_SIZE <= p * PAGE_SIZE
  BY <1>2, MultMono, PageSizeAssumption
<1>4. p < q => p * PAGE_SIZE + PAGE_SIZE <= q * PAGE_SIZE
  BY <1>2, MultMono, PageSizeAssumption
<1>5. p * PAGE_SIZE \in Nat /\ q * PAGE_SIZE \in Nat
  BY <1>2, PageSizeAssumption
<1> HIDE DEF q
<1>6. q <= p <=> a <= p * PAGE_SIZE
  BY <1>2, <1>3, <1>4, <1>5, PageSizeAssumption
<1> QED
  BY <1>2, <1>6 DEF q

\* A frame is below the rounded-down address iff it ends at or below it.
LEMMA PageOfBound ==
  ASSUME NEW a \in Nat, NEW p \in Nat
  PROVE  /\ PageOf(a) \in Nat
         /\ p < PageOf(a) <=> p * PAGE_SIZE + PAGE_SIZE <= a
<1> DEFINE q == PageOf(a)
<1>1. q \in Nat /\ q * PAGE_SIZE <= a /\ a < q * PAGE_SIZE + PAGE_SIZE
  BY DivBounds, PageSizeAssumption DEF PageOf
<1>2. p < q => p * PAGE_SIZE + PAGE_SIZE <= q * PAGE_SIZE
  BY <1>1, MultMono, PageSizeAssumption
<1>3. q <= p => q * PAGE_SIZE <= p * PAGE_SIZE
  BY <1>1, MultMono, PageSizeAssumption
<1>4. p * PAGE_SIZE \in Nat /\ q * PAGE_SIZE \in Nat
  BY <1>1, PageSizeAssumption
<1> HIDE DEF q
<1>5. p < q <=> p * PAGE_SIZE + PAGE_SIZE <= a
  BY <1>1, <1>2, <1>3, <1>4, PageSizeAssumption
<1> QED
  BY <1>1, <1>5 DEF q

\* Any address in a page belongs to that page.
LEMMA PageOfOffset ==
  ASSUME NEW p \in Nat, NEW o \in 0 .. (PAGE_SIZE - 1)
  PROVE  PageOf(p * PAGE_SIZE + o) = p
<1> DEFINE a == p * PAGE_SIZE + o
<1>0. PAGE_SIZE \in Nat \ {0} /\ o \in Nat /\ o < PAGE_SIZE
  BY PageSizeAssumption
<1>1. a \in Nat /\ p * PAGE_SIZE \in Nat
  BY <1>0
<1>2. ~(p < PageOf(a)) /\ PageOf(a) \in Nat
  BY <1>0, <1>1, PageOfBound
<1>3. PageOf(a) < p => PageOf(a) * PAGE_SIZE + PAGE_SIZE <= p * PAGE_SIZE
  BY <1>0, <1>2, MultMono
<1>4. a < PageOf(a) * PAGE_SIZE + PAGE_SIZE /\ PageOf(a) * PAGE_SIZE \in Nat
  BY <1>0, <1>1, DivBounds DEF PageOf
<1> QED
  BY <1>0, <1>1, <1>2, <1>3, <1>4

\* The frames of an entry are those that lie between its ends.
LEMMA PagesOfEntry ==
  ASSUME NEW e \in Entries
  PROVE  /\ PagesOf(e) \subseteq Nat
         /\ IsFiniteSet(PagesOf(e))
         /\ \A p \in Nat :
              p \in PagesOf(e) <=> /\ e.base <= p * PAGE_SIZE
                                   /\ p * PAGE_SIZE + PAGE_SIZE <= End(e)
<1>1. e.base \in Nat /\ End(e) \in Nat
  BY DEF Entries, End
<1>2. CeilPage(e.base) \in Nat /\ PageOf(End(e)) \in Nat
  BY <1>1, CeilPageBound, PageOfBound
<1>3. PagesOf(e) \subseteq Nat /\ IsFiniteSet(PagesOf(e))
  <2>1. CeilPage(e.base) \in Int /\ PageOf(End(e)) - 1 \in Int
    BY <1>2
  <2>2. IsFiniteSet(PagesOf(e))
    BY <2>1, FS_Interval, Zenon DEF PagesOf
  <2> QED
    BY <1>2, <2>2 DEF PagesOf
<1>4. ASSUME NEW p \in Nat
      PROVE  p \in PagesOf(e) <=> /\ e.base <= p * PAGE_SIZE
                                  /\ p * PAGE_SIZE + PAGE_SIZE <= End(e)
  <2>1. p \in PagesOf(e) <=> CeilPage(e.base) <= p /\ p < PageOf(End(e))
    BY <1>2 DEF PagesOf
  <2> QED
    BY <1>1, <2>1, CeilPageBound, PageOfBound
<1> QED
  BY <1>3, <1>4

\* Entries that are apart have no frame in common.
LEMMA ApartPages ==
  ASSUME NEW e \in Entries, NEW f \in Entries, Apart(e, f)
  PROVE  PagesOf(e) \cap PagesOf(f) = {}
<1> SUFFICES ASSUME NEW p \in PagesOf(e), p \in PagesOf(f) PROVE FALSE
  OBVIOUS
<1>1. p \in Nat
  BY PagesOfEntry
<1>2. /\ e.base <= p * PAGE_SIZE /\ p * PAGE_SIZE + PAGE_SIZE <= End(e)
      /\ f.base <= p * PAGE_SIZE /\ p * PAGE_SIZE + PAGE_SIZE <= End(f)
  BY <1>1, PagesOfEntry
<1>3. /\ p * PAGE_SIZE \in Nat /\ PAGE_SIZE \in Nat \ {0}
      /\ e.base \in Nat /\ f.base \in Nat /\ End(e) \in Nat /\ End(f) \in Nat
  BY <1>1, PageSizeAssumption DEF Entries, End
<1> QED
  BY <1>2, <1>3 DEF Apart

-----------------------------------------------------------------------------
(* The inductive invariant *)

\* Every entry the scan has passed ends at or below highest_addr.
HighestBounds ==
  \A i \in 1..Len(memmap) :
    phase # "scan" \/ i < k => End(memmap[i]) <= highest_addr

\* A frame that is or was free lies in a usable entry that init has cleared.
FromUsable ==
  \A p \in clear \cup owned : \E i \in 1..Len(memmap) :
    /\ memmap[i].usable
    /\ phase = "clear" => i < k
    /\ p \in PagesOf(memmap[i])

\* The bitmap lies at the start of a usable entry that holds it.
BitmapPlaced ==
  phase \in {"clear", "reserve", "ready"} =>
    \E i \in 1..Len(memmap) :
      Fits(memmap[i]) /\ bitmap_addr = memmap[i].base

\* Nothing is free before the bitmap exists, nothing owned before init ends.
InitOrder ==
  /\ phase \in {"scan", "place", "panic"} => clear = {} /\ bitmap_addr = NoAddr
  /\ phase # "ready" => owned = {}

\* The frames of the bitmap stay taken.
BitmapTaken == phase = "ready" => (clear \cup owned) \cap BitmapPages = {}

PmmInv ==
  /\ TypeOK
  /\ FreeCountExact
  /\ FramesConserved
  /\ HighestBounds
  /\ FromUsable
  /\ BitmapPlaced
  /\ InitOrder
  /\ BitmapTaken

-----------------------------------------------------------------------------

\* The entries of the map, and what the boot protocol says of them.
LEMMA MapFacts ==
  ASSUME TypeOK
  PROVE  /\ memmap \in Seq(Entries)
         /\ Len(memmap) \in Nat
         /\ \A i \in 1..Len(memmap) :
              /\ memmap[i] \in Entries
              /\ memmap[i].base \in Nat
              /\ End(memmap[i]) \in Nat
              /\ memmap[i].usable \in BOOLEAN
         /\ \A i, j \in 1..Len(memmap) :
              i # j /\ memmap[i].usable => Apart(memmap[i], memmap[j])
<1>1. memmap \in Seq(Entries) /\ memmap \in MemMaps
  BY MapAssumption DEF TypeOK
<1>2. Len(memmap) \in Nat /\ \A i \in 1..Len(memmap) : memmap[i] \in Entries
  BY <1>1
<1>3. \A e \in Entries : e.base \in Nat /\ End(e) \in Nat /\ e.usable \in BOOLEAN
  BY DEF Entries, End
<1>4. \A i, j \in 1..Len(memmap) :
        i # j /\ memmap[i].usable => Apart(memmap[i], memmap[j])
  BY <1>1, MapAssumption
<1> QED
  BY <1>1, <1>2, <1>3, <1>4

\* Every frame that is or was free has a bit in the bitmap.
LEMMA BelowTotal ==
  ASSUME TypeOK, FromUsable, HighestBounds, phase # "scan",
         NEW p \in clear \cup owned
  PROVE  p < total_pages
<1>1. p \in Nat /\ highest_addr \in Nat
  BY DEF TypeOK
<1>2. PICK i \in 1..Len(memmap) : p \in PagesOf(memmap[i])
  BY DEF FromUsable
<1>3. memmap[i] \in Entries /\ End(memmap[i]) \in Nat
      /\ End(memmap[i]) <= highest_addr
  BY MapFacts DEF HighestBounds
<1>4. p * PAGE_SIZE + PAGE_SIZE <= End(memmap[i])
  BY <1>1, <1>2, <1>3, PagesOfEntry
<1>5. p * PAGE_SIZE \in Nat /\ PAGE_SIZE \in Nat \ {0}
  BY <1>1, PageSizeAssumption
<1>6. ~(highest_addr <= p * PAGE_SIZE)
  BY <1>1, <1>3, <1>4, <1>5
<1>7. CeilPage(highest_addr) \in Nat /\ ~(CeilPage(highest_addr) <= p)
  BY <1>1, <1>6, CeilPageBound
<1> QED
  BY <1>1, <1>7 DEF total_pages

LEMMA TotalPagesType ==
  ASSUME TypeOK
  PROVE  total_pages \in Nat /\ bitmap_size \in Nat
<1>1. total_pages \in Nat
  BY CeilPageBound DEF TypeOK, total_pages
<1> QED
  BY <1>1 DEF bitmap_size

\* The initial state satisfies the invariant.
LEMMA InitInv == Init => PmmInv
<1> SUFFICES ASSUME Init PROVE PmmInv
  OBVIOUS
<1>1. IsFiniteSet({}) /\ Cardinality({}) = 0
  BY FS_EmptySet
<1>2. TypeOK
  BY <1>1 DEF Init, TypeOK, Phases
<1>3. Len(memmap) \in Nat
  BY <1>2, MapFacts
<1> QED
  BY <1>1, <1>2, <1>3 DEF Init, PmmInv, FreeCountExact, FramesConserved,
     HighestBounds, FromUsable, BitmapPlaced, InitOrder, BitmapTaken

-----------------------------------------------------------------------------
(* Each action preserves the invariant *)

LEMMA ScanStep ==
  ASSUME PmmInv, init_scan
  PROVE  PmmInv'
<1> USE DEF PmmInv, init_scan
<1>1. TypeOK /\ clear = {} /\ bitmap_addr = NoAddr /\ owned = {} /\ Len(memmap) \in Nat
  BY MapFacts DEF InitOrder
<1>2. clear' = {} /\ owned' = {} /\ bitmap_addr' = NoAddr /\ memmap' = memmap
  BY <1>1
<1>3. phase' \in {"scan", "place"}
  OBVIOUS
<1>4. k \in Nat \ {0} /\ highest_addr \in Nat
  BY <1>1 DEF TypeOK
<1>5. k' \in Nat \ {0} /\ highest_addr' \in Nat
  <2>1. k <= Len(memmap) => End(memmap[k]) \in Nat
    BY <1>1, <1>4, MapFacts
  <2> QED
    BY <1>4, <2>1
<1>6. TypeOK'
  BY <1>1, <1>3, <1>5 DEF TypeOK, Phases
<1>7. HighestBounds'
  <2> SUFFICES ASSUME NEW i \in 1..Len(memmap), phase' # "scan" \/ i < k'
               PROVE  End(memmap[i]) <= highest_addr'
    BY <1>2 DEF HighestBounds
  <2>1. End(memmap[i]) \in Nat /\ (i < k => End(memmap[i]) <= highest_addr)
    BY <1>1, MapFacts DEF HighestBounds
  <2>2. CASE k <= Len(memmap)
    BY <1>1, <1>4, <2>1, <2>2, MapFacts
  <2>3. CASE ~(k <= Len(memmap))
    BY <1>1, <1>4, <2>1, <2>3
  <2> QED
    BY <2>2, <2>3
<1>8. FreeCountExact'
  BY DEF FreeCountExact
<1> QED
  BY <1>2, <1>3, <1>6, <1>7, <1>8
     DEF FramesConserved, FromUsable, BitmapPlaced, InitOrder, BitmapTaken

LEMMA PlaceStep ==
  ASSUME PmmInv, init_place
  PROVE  PmmInv'
<1> USE DEF PmmInv, init_place
<1>1. TypeOK /\ clear = {} /\ bitmap_addr = NoAddr /\ owned = {} /\ Len(memmap) \in Nat
  BY MapFacts DEF InitOrder
<1>2. clear' = {} /\ owned' = {} /\ memmap' = memmap /\ highest_addr' = highest_addr
      /\ free_pages' = free_pages /\ usable_pages' = usable_pages /\ ret' = ret
  BY <1>1
<1>3. phase' \in {"place", "panic", "clear"}
  OBVIOUS
<1>4. TypeOK'
  <2>1. k' \in Nat \ {0}
    BY <1>1 DEF TypeOK
  <2>2. bitmap_addr' \in Nat \cup {NoAddr}
    BY <1>1, MapFacts DEF TypeOK
  <2> QED
    BY <1>1, <1>2, <1>3, <2>1, <2>2 DEF TypeOK, Phases
<1>5. HighestBounds'
  BY <1>2, <1>3 DEF HighestBounds
<1>6. BitmapPlaced'
  <2>1. CASE phase' = "clear"
    <3>1. PICK i \in 1..Len(memmap) :
            Fits(memmap[i]) /\ bitmap_addr' = memmap[i].base
      BY <1>1, <2>1 DEF TypeOK
    <3> QED
      BY <1>2, <3>1 DEF BitmapPlaced, Fits, bitmap_size, total_pages
  <2>2. CASE phase' # "clear"
    BY <1>3, <2>2 DEF BitmapPlaced
  <2> QED
    BY <2>1, <2>2
<1>7. InitOrder'
  BY <1>1, <1>2, <1>3 DEF InitOrder
<1>8. FreeCountExact'
  BY <1>1, <1>2 DEF FreeCountExact
<1> QED
  BY <1>2, <1>3, <1>4, <1>5, <1>6, <1>7, <1>8
     DEF FramesConserved, FromUsable, BitmapTaken

LEMMA ClearStep ==
  ASSUME PmmInv, init_clear
  PROVE  PmmInv'
<1> USE DEF PmmInv, init_clear
<1>1. TypeOK /\ owned = {} /\ Len(memmap) \in Nat /\ phase = "clear"
      /\ k \in Nat \ {0} /\ phase' \in {"clear", "reserve"}
  BY MapFacts DEF InitOrder, TypeOK
<1>2. owned' = {} /\ memmap' = memmap /\ highest_addr' = highest_addr
      /\ bitmap_addr' = bitmap_addr /\ usable_pages' = usable_pages /\ ret' = ret
  BY <1>1
<1>3. HighestBounds' /\ BitmapPlaced' /\ InitOrder'
  BY <1>1, <1>2 DEF HighestBounds, BitmapPlaced, InitOrder, Fits, bitmap_size,
     total_pages
<1>4. FramesConserved' /\ BitmapTaken'
  BY <1>1 DEF FramesConserved, BitmapTaken
<1>5. CASE k <= Len(memmap) /\ memmap[k].usable
  <2> DEFINE P == PagesOf(memmap[k])
  <2>1. k \in 1..Len(memmap) /\ memmap[k] \in Entries
    BY <1>1, <1>5, MapFacts
  <2>2. P \subseteq Nat /\ IsFiniteSet(P)
    BY <2>1, PagesOfEntry
  <2>3. clear \cap P = {}
    <3> SUFFICES ASSUME NEW p \in clear, p \in P PROVE FALSE
      OBVIOUS
    <3>1. PICK i \in 1..Len(memmap) : i < k /\ p \in PagesOf(memmap[i])
      BY <1>1 DEF FromUsable
    <3>2. memmap[i] \in Entries /\ Apart(memmap[k], memmap[i])
      BY <1>1, <1>5, <2>1, <3>1, MapFacts
    <3> QED
      BY <2>1, <3>1, <3>2, ApartPages
  <2>4. clear' = clear \cup P /\ free_pages' = free_pages + Cardinality(P)
        /\ k' = k + 1 /\ phase' = "clear"
    BY <1>1, <1>5
  <2>5. IsFiniteSet(clear) /\ clear \subseteq Nat
    BY <1>1 DEF TypeOK
  <2> HIDE DEF P
  <2>6. IsFiniteSet(clear \cup P)
        /\ Cardinality(clear \cup P)
             = Cardinality(clear) + Cardinality(P) - Cardinality(clear \cap P)
    BY <2>2, <2>5, FS_Union
  <2>7. Cardinality(clear \cap P) = 0
    BY <2>3, FS_EmptySet
  <2>8. Cardinality(clear) \in Nat /\ Cardinality(P) \in Nat
    BY <2>2, <2>5, FS_CardinalityType
  <2>9. FreeCountExact' /\ free_pages' \in Nat
    BY <2>4, <2>6, <2>7, <2>8 DEF FreeCountExact
  <2>10. TypeOK'
    BY <1>1, <1>2, <2>2, <2>4, <2>5, <2>6, <2>9 DEF TypeOK
  <2>11. FromUsable'
    <3> SUFFICES ASSUME NEW p \in clear \cup P
                 PROVE  \E i \in 1..Len(memmap) :
                          memmap[i].usable /\ i < k + 1 /\ p \in PagesOf(memmap[i])
      BY <1>2, <2>4 DEF FromUsable
    <3>1. CASE p \in clear
      <4>1. PICK i \in 1..Len(memmap) :
              memmap[i].usable /\ i < k /\ p \in PagesOf(memmap[i])
        BY <1>1, <3>1 DEF FromUsable
      <4> QED
        BY <1>1, <4>1
    <3>2. CASE p \in P
      BY <1>1, <1>5, <2>1, <3>2 DEF P
    <3> QED
      BY <3>1, <3>2
  <2> QED
    BY <1>3, <1>4, <2>9, <2>10, <2>11
<1>6. CASE ~(k <= Len(memmap) /\ memmap[k].usable)
  <2>1. clear' = clear /\ free_pages' = free_pages
    BY <1>1, <1>6
  <2>2. TypeOK'
    BY <1>1, <1>2, <2>1 DEF TypeOK, Phases
  <2>3. FreeCountExact'
    BY <2>1 DEF FreeCountExact
  <2>4. k' \in {k, k + 1}
    OBVIOUS
  <2>5. FromUsable'
    <3> SUFFICES ASSUME NEW p \in clear
                 PROVE  \E i \in 1..Len(memmap) :
                          memmap[i].usable /\ i < k' /\ p \in PagesOf(memmap[i])
      BY <1>2, <2>1 DEF FromUsable
    <3>1. PICK i \in 1..Len(memmap) :
            memmap[i].usable /\ i < k /\ p \in PagesOf(memmap[i])
      BY <1>1 DEF FromUsable
    <3> QED
      BY <1>1, <2>4, <3>1
  <2> QED
    BY <1>3, <1>4, <2>2, <2>3, <2>5
<1> QED
  BY <1>5, <1>6

\* What a set holds within and without another.
LEMMA SplitCardinality ==
  ASSUME NEW S, IsFiniteSet(S), NEW T
  PROVE  Cardinality(S) = Cardinality(S \ T) + Cardinality(S \cap T)
<1> DEFINE X == S \ T
           Y == S \cap T
<1>1. IsFiniteSet(X) /\ IsFiniteSet(Y)
  BY FS_Subset
<1>2. Cardinality(X) \in Nat /\ Cardinality(Y) \in Nat
  BY <1>1, FS_CardinalityType
<1>3. X \cup Y = S /\ X \cap Y = {}
  OBVIOUS
<1> HIDE DEF X, Y
<1>4. Cardinality(X \cup Y)
        = Cardinality(X) + Cardinality(Y) - Cardinality(X \cap Y)
  BY <1>1, FS_Union
<1>5. Cardinality(X \cap Y) = 0
  BY <1>3, FS_EmptySet
<1>6. Cardinality(X \cup Y) = Cardinality(S)
  BY <1>3, Zenon
<1>7. Cardinality(S) = Cardinality(X) + Cardinality(Y)
  BY <1>2, <1>4, <1>5, <1>6
<1> QED
  BY <1>7 DEF X, Y

LEMMA ReserveStep ==
  ASSUME PmmInv, init_reserve
  PROVE  PmmInv'
<1> USE DEF PmmInv, init_reserve
<1> DEFINE B == BitmapPages
<1>1. TypeOK /\ owned = {} /\ phase = "reserve" /\ phase' = "ready"
  BY DEF InitOrder
<1>2. owned' = {} /\ memmap' = memmap /\ highest_addr' = highest_addr
      /\ bitmap_addr' = bitmap_addr /\ ret' = ret /\ k' = k
      /\ clear' = clear \ B /\ usable_pages' = free_pages'
      /\ free_pages' = free_pages - Cardinality(clear \cap B)
  BY <1>1
<1>3. IsFiniteSet(clear) /\ clear \subseteq Nat
  BY <1>1 DEF TypeOK
<1> HIDE DEF B
<1>4. /\ IsFiniteSet(clear \ B) /\ IsFiniteSet(clear \cap B)
      /\ Cardinality(clear \ B) \in Nat /\ Cardinality(clear \cap B) \in Nat
  BY <1>3, FS_Subset, FS_CardinalityType
<1>5. Cardinality(clear)
        = Cardinality(clear \ B) + Cardinality(clear \cap B)
  BY <1>3, SplitCardinality
<1>6. FreeCountExact' /\ free_pages' \in Nat
  <2>1. free_pages = Cardinality(clear)
    BY DEF FreeCountExact
  <2>2. free_pages' = Cardinality(clear \ B)
    BY <1>2, <1>4, <1>5, <2>1
  <2> QED
    BY <1>2, <1>4, <2>2 DEF FreeCountExact
<1>7. TypeOK'
  BY <1>1, <1>2, <1>3, <1>4, <1>6, FS_EmptySet DEF TypeOK, Phases
<1>8. HighestBounds' /\ BitmapPlaced' /\ InitOrder'
  BY <1>1, <1>2 DEF HighestBounds, BitmapPlaced, InitOrder, Fits, bitmap_size,
     total_pages
<1>9. FramesConserved'
  BY <1>2, <1>6, FS_EmptySet DEF FramesConserved
<1>10. FromUsable'
  BY <1>1, <1>2 DEF FromUsable
<1>11. BitmapTaken'
  <2>1. BitmapPages' = B
    BY <1>2 DEF B, BitmapPages, bitmap_size, total_pages
  <2> QED
    BY <1>2, <2>1 DEF BitmapTaken
<1> QED
  BY <1>6, <1>7, <1>8, <1>9, <1>10, <1>11

(***************************************************************************)
(* The state of init does not change any more, and a frame only moves      *)
(* between clear and owned: then only the counts are left to show.         *)
(***************************************************************************)
LEMMA MoveStep ==
  ASSUME PmmInv, phase = "ready", TypeOK', FreeCountExact', FramesConserved',
         clear' \cup owned' \subseteq clear \cup owned,
         UNCHANGED <<memmap, phase, k, highest_addr, bitmap_addr, usable_pages>>
  PROVE  PmmInv'
<1>1. HighestBounds' /\ BitmapPlaced' /\ InitOrder'
  BY DEF PmmInv, HighestBounds, BitmapPlaced, InitOrder, Fits, bitmap_size,
     total_pages
<1>2. FromUsable'
  BY DEF PmmInv, FromUsable
<1>3. BitmapTaken'
  <2>1. BitmapPages' = BitmapPages
    BY DEF BitmapPages, bitmap_size, total_pages
  <2> QED
    BY <2>1 DEF PmmInv, BitmapTaken
<1> QED
  BY <1>1, <1>2, <1>3 DEF PmmInv

LEMMA AllocStep ==
  ASSUME PmmInv, alloc
  PROVE  PmmInv'
<1>1. TypeOK /\ FreeCountExact /\ phase = "ready" /\ clear \cap owned = {}
      /\ free_pages + Cardinality(owned) = usable_pages
  BY DEF PmmInv, alloc, FramesConserved
<1>2. IsFiniteSet(clear) /\ IsFiniteSet(owned) /\ clear \subseteq Nat
      /\ owned \subseteq Nat /\ free_pages \in Nat /\ usable_pages \in Nat
      /\ Cardinality(owned) \in Nat
  BY <1>1, FS_CardinalityType DEF TypeOK
<1>3. UNCHANGED <<memmap, phase, k, highest_addr, bitmap_addr, usable_pages>>
  BY DEF alloc
<1>4. CASE \E i \in Searched :
             /\ clear' = clear \ {i} /\ free_pages' = free_pages - 1
             /\ owned' = owned \cup {i} /\ ret' = i * PAGE_SIZE
  <2>1. PICK i \in clear :
             /\ clear' = clear \ {i} /\ free_pages' = free_pages - 1
             /\ owned' = owned \cup {i} /\ ret' = i * PAGE_SIZE
    BY <1>4 DEF Searched
  <2>2. IsFiniteSet(clear') /\ Cardinality(clear') = Cardinality(clear) - 1
    BY <1>2, <2>1, FS_RemoveElement
  <2>3. IsFiniteSet(owned') /\ Cardinality(owned') = Cardinality(owned) + 1
    BY <1>1, <1>2, <2>1, FS_AddElement
  <2>4. FreeCountExact' /\ free_pages' \in Nat
    <3>1. Cardinality(clear') \in Nat
      BY <2>2, FS_CardinalityType
    <3> QED
      BY <1>1, <2>1, <2>2, <3>1 DEF FreeCountExact
  <2>5. TypeOK'
    <3>1. ret' \in Nat
      BY <1>2, <2>1, PageSizeAssumption
    <3> QED
      BY <1>1, <1>2, <1>3, <2>1, <2>2, <2>3, <2>4, <3>1 DEF TypeOK
  <2>6. FramesConserved'
    BY <1>1, <1>2, <1>3, <2>1, <2>3 DEF FramesConserved
  <2> QED
    BY <1>1, <1>3, <2>1, <2>4, <2>5, <2>6, MoveStep
<1>5. CASE ret' = NoAddr /\ UNCHANGED <<clear, free_pages, owned>>
  <2>1. TypeOK' /\ FreeCountExact' /\ FramesConserved'
    BY <1>1, <1>3, <1>5 DEF TypeOK, FreeCountExact, FramesConserved
  <2> QED
    BY <1>1, <1>3, <1>5, <2>1, MoveStep
<1> QED
  BY <1>4, <1>5 DEF alloc

LEMMA FreeStep ==
  ASSUME PmmInv, free_owned
  PROVE  PmmInv'
<1>1. TypeOK /\ FreeCountExact /\ phase = "ready" /\ clear \cap owned = {}
      /\ free_pages + Cardinality(owned) = usable_pages
  BY DEF PmmInv, free_owned, FramesConserved
<1>2. IsFiniteSet(clear) /\ IsFiniteSet(owned) /\ clear \subseteq Nat
      /\ owned \subseteq Nat /\ free_pages \in Nat /\ usable_pages \in Nat
      /\ Cardinality(owned) \in Nat /\ total_pages \in Nat
  BY <1>1, FS_CardinalityType, TotalPagesType DEF TypeOK
<1>3. PICK page \in 0 .. total_pages, offset \in 0 .. (PAGE_SIZE - 1) :
        Freeable(page) /\ free(page * PAGE_SIZE + offset)
  BY DEF free_owned
<1>4. page \in Nat /\ PageOf(page * PAGE_SIZE + offset) = page
  BY <1>2, PageOfOffset
<1>5. /\ IF page < total_pages /\ page \notin clear
         THEN clear' = clear \cup {page} /\ free_pages' = free_pages + 1
         ELSE clear' = clear /\ free_pages' = free_pages
      /\ owned' = owned \ {page}
      /\ ret' = ret
      /\ UNCHANGED <<memmap, phase, k, highest_addr, bitmap_addr, usable_pages>>
  BY <1>3, <1>4 DEF free
<1>6. CASE page \in owned
  <2>1. page < total_pages /\ page \notin clear
    BY <1>1, <1>6, BelowTotal DEF PmmInv
  <2>2. clear' = clear \cup {page} /\ free_pages' = free_pages + 1
    BY <1>5, <2>1
  <2>3. IsFiniteSet(clear') /\ Cardinality(clear') = Cardinality(clear) + 1
    BY <1>2, <2>1, <2>2, FS_AddElement
  <2>4. IsFiniteSet(owned') /\ Cardinality(owned') = Cardinality(owned) - 1
    BY <1>2, <1>5, <1>6, FS_RemoveElement
  <2>5. FreeCountExact' /\ free_pages' \in Nat
    BY <1>1, <1>2, <2>2, <2>3 DEF FreeCountExact
  <2>6. TypeOK'
    BY <1>1, <1>2, <1>4, <1>5, <2>2, <2>3, <2>4, <2>5 DEF TypeOK
  <2>7. FramesConserved'
    BY <1>1, <1>2, <1>5, <2>2, <2>4 DEF FramesConserved
  <2> QED
    BY <1>1, <1>5, <1>6, <2>2, <2>5, <2>6, <2>7, MoveStep
<1>7. CASE page \notin owned
  <2>1. ~(page < total_pages /\ page \notin clear)
    BY <1>2, <1>3, <1>4, <1>7 DEF Freeable
  <2>2. clear' = clear /\ free_pages' = free_pages /\ owned' = owned
    BY <1>5, <1>7, <2>1
  <2>3. TypeOK' /\ FreeCountExact' /\ FramesConserved'
    BY <1>1, <1>5, <2>2 DEF TypeOK, FreeCountExact, FramesConserved
  <2> QED
    BY <1>1, <1>5, <2>2, <2>3, MoveStep
<1> QED
  BY <1>6, <1>7

LEMMA StutterStep ==
  ASSUME PmmInv, UNCHANGED vars
  PROVE  PmmInv'
  BY DEF vars, PmmInv, TypeOK, FreeCountExact, FramesConserved, HighestBounds,
     FromUsable, BitmapPlaced, InitOrder, BitmapTaken, BitmapPages, Fits,
     bitmap_size, total_pages

-----------------------------------------------------------------------------
(* The theorems *)

(***************************************************************************)
(* The inductive invariant holds in every state of the allocator.          *)
(***************************************************************************)
THEOREM PmmInvariant == Spec => []PmmInv
<1>1. PmmInv /\ [Next]_vars => PmmInv'
  <2> SUFFICES ASSUME PmmInv, [Next]_vars PROVE PmmInv'
    OBVIOUS
  <2> QED
    BY ScanStep, PlaceStep, ClearStep, ReserveStep, AllocStep, FreeStep,
       StutterStep DEF Next, halted
<1> QED
  BY InitInv, <1>1, PTL DEF Spec

(***************************************************************************)
(* No frame is lost or handed out twice, and the count that /live/mem      *)
(* reports is exact, for every memory map and page size.                   *)
(***************************************************************************)
THEOREM FramesAccounted == Spec => [](TypeOK /\ EveryFrameAccounted)
  BY PmmInvariant, PTL DEF PmmInv, EveryFrameAccounted

\* A frame that was ever free overlaps no unusable entry.
LEMMA ClearOfReserved ==
  ASSUME PmmInv, NEW p \in owned, NEW i \in 1..Len(memmap), ~memmap[i].usable
  PROVE  Apart(Frame(p), memmap[i])
<1>1. TypeOK /\ p \in Nat
  BY DEF PmmInv, TypeOK
<1>2. PICK j \in 1..Len(memmap) :
        memmap[j].usable /\ p \in PagesOf(memmap[j])
  BY DEF PmmInv, FromUsable
<1>3. /\ memmap[j] \in Entries /\ memmap[i] \in Entries
      /\ Apart(memmap[j], memmap[i])
      /\ memmap[j].base \in Nat /\ End(memmap[j]) \in Nat
      /\ memmap[i].base \in Nat /\ End(memmap[i]) \in Nat
  BY <1>1, <1>2, MapFacts
<1>4. memmap[j].base <= p * PAGE_SIZE
      /\ p * PAGE_SIZE + PAGE_SIZE <= End(memmap[j])
  BY <1>1, <1>2, <1>3, PagesOfEntry
<1>5. Frame(p).base = p * PAGE_SIZE /\ End(Frame(p)) = p * PAGE_SIZE + PAGE_SIZE
      /\ p * PAGE_SIZE \in Nat /\ PAGE_SIZE \in Nat
  BY <1>1, PageSizeAssumption DEF Frame, End
<1> QED
  BY <1>3, <1>4, <1>5 DEF Apart

\* A frame that was ever free overlaps no byte of the bitmap.
LEMMA ClearOfBitmap ==
  ASSUME PmmInv, NEW p \in owned
  PROVE  Apart(Frame(p), [base |-> bitmap_addr, length |-> bitmap_size])
<1>1. TypeOK /\ p \in Nat /\ phase = "ready"
  BY DEF PmmInv, TypeOK, InitOrder
<1>2. bitmap_addr \in Nat
  BY <1>1, MapFacts DEF PmmInv, BitmapPlaced
<1>3. bitmap_size \in Nat
  BY <1>1, TotalPagesType
<1>4. p \notin BitmapPages
  BY <1>1 DEF PmmInv, BitmapTaken
<1>5. PageOf(bitmap_addr) \in Nat /\ CeilPage(bitmap_addr + bitmap_size) \in Nat
  BY <1>1, <1>2, <1>3, PageOfBound, CeilPageBound
<1>6. p < PageOf(bitmap_addr) \/ CeilPage(bitmap_addr + bitmap_size) <= p
  BY <1>1, <1>4, <1>5 DEF BitmapPages
<1>7. \/ p * PAGE_SIZE + PAGE_SIZE <= bitmap_addr
      \/ bitmap_addr + bitmap_size <= p * PAGE_SIZE
  BY <1>1, <1>2, <1>3, <1>6, PageOfBound, CeilPageBound
<1> QED
  BY <1>7 DEF Apart, Frame, End

(***************************************************************************)
(* alloc never hands out memory that the map reserves or that holds the    *)
(* bitmap, whatever the alignment of the entries.                          *)
(***************************************************************************)
THEOREM OnlyUsableFrames == Spec => []FramesAreUsable
<1>1. PmmInv => FramesAreUsable
  BY ClearOfReserved, ClearOfBitmap DEF FramesAreUsable
<1> QED
  BY <1>1, PmmInvariant, PTL

(***************************************************************************)
(* The allocator's bit operations stay within the bitmap, which lies in    *)
(* one usable entry.                                                       *)
(***************************************************************************)
THEOREM BitmapStaysInBounds == Spec => []BitmapInBounds
<1>1. ASSUME PmmInv, bitmap_addr # NoAddr PROVE BitmapInBounds
  <2>1. TypeOK /\ phase \in {"clear", "reserve", "ready"}
    BY <1>1 DEF PmmInv, TypeOK, Phases, InitOrder
  <2>2. total_pages \in Nat /\ bitmap_size \in Nat
    BY <2>1, TotalPagesType
  <2>3. ASSUME NEW p \in clear PROVE p \div 8 < bitmap_size
    <3>1. p \in Nat /\ p < total_pages
      BY <1>1, <2>1, BelowTotal DEF PmmInv, TypeOK
    <3> QED
      BY <2>2, <3>1 DEF bitmap_size
  <2>4. PICK i \in 1..Len(memmap) :
          Fits(memmap[i]) /\ bitmap_addr = memmap[i].base
    BY <1>1, <2>1 DEF PmmInv, BitmapPlaced
  <2>5. memmap[i].usable /\ memmap[i].length >= bitmap_size
        /\ memmap[i].base \in Nat /\ memmap[i].length \in Nat
    BY <2>1, <2>4, MapFacts DEF Fits, Entries
  <2>6. memmap[i].base <= bitmap_addr
        /\ bitmap_addr + bitmap_size <= End(memmap[i])
    BY <2>2, <2>4, <2>5 DEF End
  <2> QED
    BY <2>3, <2>5, <2>6 DEF BitmapInBounds
<1>2. PmmInv => BitmapInBounds
  BY <1>1 DEF BitmapInBounds
<1> QED
  BY <1>2, PmmInvariant, PTL

(***************************************************************************)
(* alloc fails only when no page is free.                                  *)
(***************************************************************************)
THEOREM AllocFailsOnlyWhenEmpty == Spec => FailsOnlyWhenEmpty
<1>1. ASSUME PmmInv, [Next]_vars, ret # NoAddr, ret' = NoAddr
      PROVE  free_pages = 0
  <2>1. alloc
    BY <1>1 DEF Next, init_scan, init_place, init_clear, init_reserve,
       free_owned, free, halted, vars
  <2>2. TypeOK /\ phase = "ready"
    BY <1>1, <2>1 DEF PmmInv, alloc
  <2>3. Searched = {}
    <3>1. ASSUME NEW i \in clear, ret' = i * PAGE_SIZE PROVE FALSE
      BY <1>1, <2>2, <3>1, PageSizeAssumption, NoAddrAssumption DEF TypeOK
    <3> QED
      BY <2>1, <3>1 DEF alloc, Searched
  <2>4. clear = {}
    BY <1>1, <2>2, <2>3, BelowTotal DEF PmmInv, Searched
  <2> QED
    BY <1>1, <2>4, FS_EmptySet DEF PmmInv, FreeCountExact
<1> QED
  BY <1>1, PmmInvariant, PTL DEF Spec, FailsOnlyWhenEmpty

=============================================================================
